------------------------------ MODULE MCAgent -------------------------------
(*****************************************************************************)
(* What the agent keeps for itself and what the server comes to know by it,  *)
(* each by itself: they have no state in common.  A behaviour is one of one  *)
(* component, whose variables are the ones that are not 0 or, for the sessions, *)
(* that change.                                                              *)
(*****************************************************************************)
EXTENDS SessionTracker, Naturals, FiniteSets, TLC

CONSTANTS
    Keys, Settings, Values, Want, MaxStamp,                 \* of fix_exit.rs
    Games, Titles, TitleOf, CoverRows, Batch, Sizes,        \* of scanner.rs, metadata.rs
    MaxScans, MaxFetches,                                   \* of the same
    Files, MaxRefresh, MaxUploads, MaxCrashes,              \* of the list of the cloud
    Features, DefaultOf(_), Texts, MaxSets, MaxPulls,       \* of features.rs
    Addresses, Names, MaxInits, MaxMoves, MaxEdits,         \* of cfg.rs
    Commands, Items, BatchSize, Severities, Counts,         \* of a device's pages
    MaxRuns, MaxBeats,                                      \* of the same
    MaxChanges, MaxMishaps                                  \* of fix_exit.rs and the pages

VARIABLES
    which, cfg, backups, now, fixPc, held, running, fixMemory, fixed, crossed,
    fixChanges, fixFaults, disk, games, scan, coverRows, indexFetch,
    indexStored, indexOutbox, known, metadata, scans, indexFetches,
    indexFaults, stale, remote, catalogAgent, requests, post, rows, shown,
    refreshes, catalogChanges, crashes, served, flagStored, flagFetch, flags,
    sets, flagFetches, configFile, init, configAgent, address, override, ids,
    inits, moves, edits, identity, wanted, command, runs, pagesOutbox,
    sending, late, version, ip, server, catalog, pagesEvents, snapshots,
    pagesDevice, pagesChanges, pagesFaults, excused, dropped, refused, cut,
    seedCut

Title == "ra" :> "mario" @@ "rb" :> "zelda"
Covers == <<"mario", "zelda">>
Default(feature) == IF feature = "catalog" THEN "enabled" ELSE "planned"

Fix == INSTANCE FixExit WITH
    MaxFaults <- MaxMishaps, pc <- fixPc, memory <- fixMemory,
    changes <- fixChanges, faults <- fixFaults
FixVars == <<cfg, backups, now, fixPc, held, running, fixMemory, fixed, crossed,
      fixChanges, fixFaults>>
FixOff ==
    /\ cfg = 0 /\ backups = 0 /\ now = 0 /\ fixPc = 0 /\ held = 0
    /\ running = 0 /\ fixMemory = 0 /\ fixed = 0 /\ crossed = 0
    /\ fixChanges = 0 /\ fixFaults = 0

Index == INSTANCE LibraryIndex WITH
    Roms <- Games, InitialRows <- CoverRows, fetch <- indexFetch,
    stored <- indexStored, outbox <- indexOutbox, fetches <- indexFetches,
    faults <- indexFaults
IndexVars == <<disk, games, scan, coverRows, indexFetch, indexStored, indexOutbox,
      known, metadata, scans, indexFetches, indexFaults, stale>>
IndexOff ==
    /\ disk = 0 /\ games = 0 /\ scan = 0 /\ coverRows = 0
    /\ indexFetch = 0 /\ indexStored = 0 /\ indexOutbox = 0
    /\ known = 0 /\ metadata = 0 /\ scans = 0 /\ indexFetches = 0
    /\ indexFaults = 0 /\ stale = 0

Catalog == INSTANCE CloudCatalog WITH
    MaxChanges <- MaxUploads, agent <- catalogAgent, changes <- catalogChanges
CatalogVars == <<remote, catalogAgent, requests, post, rows, shown, refreshes,
      catalogChanges, crashes, served>>
CatalogOff ==
    /\ remote = 0 /\ catalogAgent = 0 /\ requests = 0 /\ post = 0
    /\ rows = 0 /\ shown = 0 /\ refreshes = 0 /\ catalogChanges = 0
    /\ crashes = 0 /\ served = 0

Flag == INSTANCE FeatureFlags WITH
    MaxFetches <- MaxPulls, stored <- flagStored, fetch <- flagFetch,
    fetches <- flagFetches
FlagVars == <<flagStored, flagFetch, flags, sets, flagFetches>>
FlagOff ==
    /\ flagStored = 0 /\ flagFetch = 0 /\ flags = 0 /\ sets = 0
    /\ flagFetches = 0

Config == INSTANCE AgentConfig WITH
    file <- configFile, agent <- configAgent
ConfigVars == <<configFile, init, configAgent, address, override, ids, inits, moves,
      edits, identity, wanted>>
ConfigOff ==
    /\ configFile = 0 /\ init = 0 /\ configAgent = 0 /\ address = 0
    /\ override = 0 /\ ids = 0 /\ inits = 0 /\ moves = 0
    /\ edits = 0 /\ identity = 0 /\ wanted = 0

Pages == INSTANCE DeviceReports WITH
    MaxFaults <- MaxMishaps, outbox <- pagesOutbox, events <- pagesEvents,
    device <- pagesDevice, changes <- pagesChanges, faults <- pagesFaults
PagesVars == <<command, runs, pagesOutbox, sending, late, version, ip, server, catalog,
      pagesEvents, snapshots, pagesDevice, pagesChanges, pagesFaults, excused,
      dropped, refused, cut, seedCut>>
PagesOff ==
    /\ command = 0 /\ runs = 0 /\ pagesOutbox = 0 /\ sending = 0
    /\ late = 0 /\ version = 0 /\ ip = 0 /\ server = 0
    /\ catalog = 0 /\ pagesEvents = 0 /\ snapshots = 0
    /\ pagesDevice = 0 /\ pagesChanges = 0 /\ pagesFaults = 0
    /\ excused = 0 /\ dropped = 0 /\ refused = 0 /\ cut = 0
    /\ seedCut = 0

all == <<which, vars, FixVars, IndexVars, CatalogVars, FlagVars, ConfigVars, PagesVars>>

ASSUME Assumptions ==
    /\ Fix!FixAssumption
    /\ Index!IndexAssumption
    /\ Flag!FlagAssumption
    /\ Pages!ReportsAssumption

AllInit ==
    /\ which \in {"sessions", "fix", "index", "catalog", "flags", "config",
                  "reports"}
    /\ Init
    /\ IF which = "fix" THEN Fix!Init ELSE FixOff
    /\ IF which = "index" THEN Index!Init ELSE IndexOff
    /\ IF which = "catalog" THEN Catalog!Init ELSE CatalogOff
    /\ IF which = "flags" THEN Flag!Init ELSE FlagOff
    /\ IF which = "config" THEN Config!Init ELSE ConfigOff
    /\ IF which = "reports" THEN Pages!Init ELSE PagesOff

OnlyThis ==
    /\ UNCHANGED which
    /\ IF which = "sessions" THEN TRUE ELSE UNCHANGED vars
    /\ IF which = "fix" THEN TRUE ELSE UNCHANGED FixVars
    /\ IF which = "index" THEN TRUE ELSE UNCHANGED IndexVars
    /\ IF which = "catalog" THEN TRUE ELSE UNCHANGED CatalogVars
    /\ IF which = "flags" THEN TRUE ELSE UNCHANGED FlagVars
    /\ IF which = "config" THEN TRUE ELSE UNCHANGED ConfigVars
    /\ IF which = "reports" THEN TRUE ELSE UNCHANGED PagesVars

AllNext ==
    \/ which = "sessions" /\ Next /\ OnlyThis
    \/ which = "fix" /\ Fix!Next /\ OnlyThis
    \/ which = "index" /\ Index!Next /\ OnlyThis
    \/ which = "catalog" /\ Catalog!Next /\ OnlyThis
    \/ which = "flags" /\ Flag!Next /\ OnlyThis
    \/ which = "config" /\ Config!Next /\ OnlyThis
    \/ which = "reports" /\ Pages!Next /\ OnlyThis

AllSpec == AllInit /\ [][AllNext]_all

-----------------------------------------------------------------------------
\* Settings stay as they were made.  fix_exit.rs: the patched file reads as wanted, the rest
\* of it as before (PatchIsRight); a fix survives every later start and exit of RetroArch
\* (FixSticks); what it replaces is in a backup (BackedUp).  cfg.rs: a console keeps the
\* device id it first had (IdentityStays).  features.rs: after a whole fetch the console
\* has what the server answered (FetchedIsServed).
SettingsStick ==
    /\ [](which = "fix" => Fix!TypeOK /\ Fix!PatchIsRight /\ Fix!FixSticks)
    /\ [](which = "config" => Config!TypeOK /\ Config!IdentityStays)
    /\ [](which = "flags" => Flag!TypeOK /\ Flag!FetchedIsServed)
    /\ [][which = "fix" => Fix!BackedUp]_all

\* The server knows what is there.  scanner.rs: the index never runs ahead of what the
\* server is told (IndexIsAnnounced); once all is delivered the server knows every ROM as a
\* complete scan has read it, the ones the scans passed over excepted (CardIsKnown).
\* routes.rs: a cover it has stays, whatever is scanned again (CoverStays); the dashboard
\* shows one list of the cloud, never parts of two, unless the server stopped in the middle
\* or the database refused statements (ShownIsOneList); of the reports of a kind that the
\* server has the last one that was made is shown (LatestIsNewest).  doctor.rs: whoever sees
\* a report finds its issues stored or waiting (IssuesWithReport).  db.rs: a server that
\* listens has its whole catalog (CatalogIsWhole).
ServerKnows ==
    /\ [](which = "index" => Index!TypeOK /\ Index!IndexIsAnnounced /\ Index!CardIsKnown)
    /\ [](which = "catalog" => Catalog!TypeOK /\ Catalog!ShownIsOneList)
    /\ [](which = "reports" => Pages!TypeOK /\ Pages!LatestIsNewest /\ Pages!IssuesWithReport /\ Pages!CatalogIsWhole)
    /\ [][which = "index" => Index!CoverStays]_all
=============================================================================
