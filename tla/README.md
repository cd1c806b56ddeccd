# Playora in TLA+

Playora records what is played on R36S handhelds. An *agent*
(`crates/playora-agent`) runs on the console, detects game sessions, moves and
converts ROM files, and queues events in SQLite; a *server*
(`crates/playora-server`) on the LAN takes the events, shows a dashboard and
keeps queues of requests (delete this ROM, download that one, update yourself)
that the agent polls. This directory holds TLA+ modules translated from that
code, TLC configurations that check them on small instances, and proofs for
TLAPS.

Paths below are relative to `src/crates/`. `PROJECT.json` lists components,
runs, mutants, the source lines of every definition, findings, hazards and
theorems.

## Inventory

| Component | State | Operations | Talks to | What makes it hard | What makes it correct |
|---|---|---|---|---|---|
| Outbox and sync (`playora-agent/src/db.rs`, `sync.rs`) | `events_outbox`, `sync_state` | `enqueue`, `pending_events`, `mark_sent`, `cmd_sync_once` | server (HTTP), every module that reports | several processes share the database; time-outs, lost answers, kills, power cuts | nothing forgotten before the server has it, nothing applied twice, order kept, everything delivered in the end |
| Schema (`db.rs`) | `schema_migrations` | `open`, `apply_migrations` | every command | processes of two versions migrate at once, kills between statements | whoever has the database open has all tables |
| Ingestion (`playora-server/src/routes.rs`, `events_batch`) | `events`, `game_sessions`, `activities`, ... | one batch under one mutex, an autocommit per statement | agents | crash between an INSERT and its projection, late requests | deduplication by `event_id`, sessions closed and never reopened |
| Game sessions (`sessions.rs`) | `current`, `current-session.json` | `new`, `tick`, `start`, `emit_*` | process list, outbox | restarts between any two steps, torn file, games that replace each other | every session reported once and in full |
| Launcher wrapper (`launcher.rs`) | none | `cmd_launch` | outbox, emulator | a database that is locked or gone, kills | the game runs in any case; what is reported of it is true |
| Lockfile (`lockfile.rs`) | `/tmp/playora-*.lock` | `acquire`, `Drop` | all heavy commands | separate file system calls, kills, reused ids | one holder |
| Run loop, scheduler (`sync.rs`) | last day of each job | `cmd_run`, `Scheduler::tick` | everything | jobs that last for hours, restarts | no job twice a day, no hour missed without reason |
| Delete, download and update queues (`routes.rs`, `cleanup.rs`, `sync.rs`, `selfupdate.rs`) | `delete_requests`, `cloud_download_requests`, `update_requests`, `delete_queue.txt` | request, poll, apply, ack | agent and server | lost acks, acks by path, truncation of the local queue, an update that kills its own runner | requests applied and settled once |
| ROM list (`dashboard.rs`, `routes.rs`, `scanner.rs`) | `rom_scanned` rows of `events` | scan, list, `delete_ack` | scanner, sync, queues | rows removed by `LIKE` from the table events are deduplicated by | what was scanned is listed, what was deleted is not |
| Activity feed (`activity.rs`, `routes.rs`) | `activities` | begin, progress, end | outbox | rows merged by script within ten minutes | one outcome per run, nothing "running" for ever |
| Live stream (`routes.rs`, `device_events_stream`) | `last_id` per connection | connect, poll | dashboard | copied variable, LIMIT | every row once |
| Recover, autosync (`autosync.rs`) | unit file, locks, processes | `cmd_enable`, `cmd_disable`, `cmd_recover` | systemd, locks, run loop | kills by name, itself too; strays of `nohup` | one loop, which comes back unless disabled |
| Restore (`restore.rs`), extraction (`extract.rs`), compression (`compress.rs`), repair and cleaning (`repair.rs`, `clean.rs`) | files under `/roms` | heavy commands | lockfile, activity feed | killed half-way, failing copies, name clashes, each other | no ROM is lost |
| Downloads (`download.rs`, `coolrom.rs`, `darkos-roms`, `darkos-firmware`, `darkos-update`) | `.part` files, destinations | fetch, verify, store | web | kills, power cuts, garbled answers, two at once | what was checked is whole |
| Cloud (`cloud.rs`, `routes.rs`) | one-time tokens, rclone remote, `cloud_catalog` | setup, backup, restore, catalog | server, rclone | a token consumed by a lost answer; a mirror that deletes; a list replaced row by row | a token reaches the device; a backup keeps what it has |
| Scanner, metadata (`scanner.rs`, `metadata.rs`) | `games`, covers, `game_metadata` | scan, look up | outbox | interrupted scan, covers and scans out of order | the server knows the card |
| File browser (`fileserver.rs`) | files | list, upload, move, delete, range | LAN | concurrent writes, ranges at the end | range arithmetic, no mixed uploads |
| RetroArch patch (`fix_exit.rs`) | retroarch.cfg and backups | patch, restore | RetroArch | RetroArch writes its configuration when it exits | idempotent, backed up, lasting |
| Saves (`saves.rs`, `routes.rs`) | archives by second | pack, upload | games, server | saves that change while they are packed | an archive that was answered for is sound and stays |
| PortMaster (`portmaster.rs`) | `.part`, ports | download, unpack | web | two installers, cut downloads | a reported success is one whole release |
| Audit (`audit.rs`) | `file_hashes` | hash, report | ROMs | files written between two looks | duplicates are duplicates |
| Configuration (`cfg.rs`), features (`features.rs`) | `agent.toml`, `feature_flags` | init, load; set, fetch | mDNS; server | cut writes | identity kept; what was served is had |
| Menu (`tui.rs`), viewer (`darkos-tui`) | selections, offsets | keys, redraws | terminal | filters and resizes between two keys | no panic; what is highlighted is what is acted on |
| Device pages (`doctor.rs`, `audit.rs`, `hw.rs`, `routes.rs`, `dashboard.rs`, `db.rs`) | `events`, `hardware_snapshots`, `devices`, `catalog_items` | report, batch, seed, show | outbox, server | a report in several events, rejected ones, a start that is cut off, other clients | what is shown is the newest that was found, and in full |
| Hotkeys, Kodi, CLI, other pages, other darkOs tools, scripts | little or none | read and print | - | - | - |

## Modules

### EventSync

The path of an event from the outbox to the server's tables.

| In the model | In the code |
|---|---|
| `next`, `box` | rows of `events_outbox` in `AUTOINCREMENT` order and their `status` |
| `lastSync` | the row of `sync_state` |
| `disk` | the part of the database that was flushed: WAL with `synchronous=NORMAL` loses the newest commits with the power |
| `pc`, `conn` | agent processes inside `cmd_sync_once`, and their HTTP requests |
| `serving`, `todo`, `answer`, `fresh` | the call of `events_batch` that holds the mutex, between two statements |
| `events`, `rows`, `session`, `device` | tables `events`, the projections, `game_sessions`, `devices` |
| `rejected`, `skipped`, `faults` | history |

`BeginSync` is `cmd_sync_once` up to `send()`; `TakeAck`, `BadAck`,
`SyncFailed` and `Timeout` are its ways to go on. `mark_sent` is one
transaction and one action; `set_sync_success` is another. A client that gives
up or dies leaves its request on the way: the server may serve it much later
(`Accept` of a request of `Nobody`), or never (`DropLate`). A handler that has
the mutex contains no `await` and runs to its end even when its client is
gone. `Insert` and `Project` are two actions because the server commits them
one by one and may die in between (`ServerCrash`).

`Delivery` is the abstract outbox: events are created, stored, take effect and
are confirmed, and a power cut may take the agent to an earlier view of its
outbox. `EventSync` implements it (`Delivers`) with `stored <- events` and
`applied <- {e : rows[e] > 0}`.

What `AppliedOnce` says matters: an event whose projection was cut off by a
crash of the server is *never* projected later, since it is a duplicate when it
is sent again. `skipped` names those events and the property shows that there
is no other way to miss a projection and no way to run one twice.

### SessionTracker

`SessionTracker::new` (`Boot`) and `tick` (`Tick`, then the steps of
`emit_finish`, `start` and `persist`). `pc` is the step the agent is at, and
the locals of the running function (`subject`, `found`, `kind`, `changed`) are
variables that are reset when it returns. `procs` is the process list in order
of start; `detect_running_rom` takes the youngest (`Detected`; two processes
that start within the same clock tick are not modelled). `save[r]` is the
version of a save file, 0 for none. Time is abstracted to `young`, the sessions
that began less than `CrashThreshold` seconds ago; the sleep of the loop
(`Wake`) ends their youth when `SyncInterval` is at least as long.

Faults are `Crash` (the process dies between two steps), `PowerCut` (all games
die too and an unsynced file may come back empty) and `StepFails` (an enqueue,
write or remove fails and `let _ =` drops the error). `hit` collects the
sessions in the middle of whose steps a fault fell. The safety properties
speak of the other ones: a restart while the loop sleeps must be invisible.

### Lockfile

`acquire` as the sequence of system calls it makes (`Exists`, `Read`, `Probe`,
`Remove`, `Create`, `Fill`), with inodes: a command that has opened the file
writes to what it opened, also when the path leads elsewhere by then. Process
ids are the commands themselves; `reused` holds ids of ended commands that some
other process has now. The lock does not exclude (finding `lock_race`); it does
as long as no two acquisitions overlap (`ExclusiveUnlessRaced`).

### EventStream

`device_events_stream`: `last_id` is captured by value by the future of each
poll, so `Poll` leaves `lastId` as it is. What holds nevertheless: no gaps, and
the first `Limit` rows after the connection arrive. What does not: rows are
pushed once (finding `stream_repeats`), and rows beyond the first `Limit` are
never pushed.

### DeviceQueues

Requests of the dashboard to delete and to download ROMs, the agent that polls
them once a round, the menu's Cleanup next to it, and `delete_queue.txt`.

| In the model | In the code |
|---|---|
| `requests` | rows of `delete_requests` and `cloud_download_requests`, one sequence of ids for both |
| `late` | answers whose sender gave up or died; the server may serve them at any time, or never |
| `files`, `lines` | ROMs under `/roms`, entries of `delete_queue.txt` |
| `stage`, `kind`, `taken`, `todo`, `pulled`, `result` | a command inside `cmd_cleanup` or `poll_cloud_downloads` |
| `lock` | `playora-cleanup.lock`; that it excludes is the business of `Lockfile` |
| `met`, `botched` | history |

Answers carry a path and no id: `Settled` writes every pending row for the
path. What that permits is a matter of precise statements. A success is earned
(`OkWasEarned`): the wish of that request, *or of an earlier one for the same
path*, came true since it was made. The stronger statement, without the part
in italics, is what the dashboard promises, and it fails
(`OkMeansRemoved`).

### UpdateQueue

"Update Agent": the request, the poll, `selfupdate::run`, and the restart of
`playora-agent.service` that ends the run loop before it has answered when the
loop belongs to that service (`Managed`). The new agent finds the request
pending and, being up to date, answers it. `self_update`, which is not in this
repository, is modelled by what the code relies on: `get_latest_release`
returns the latest release, `update` installs it when it is newer.
`EveryUpdateAnswered` assumes that the run loop is not ahead of the latest
release: a device that is (a beta, for instance) finds a different version,
installs nothing and restarts, for ever.

### RestoreTar

`restore.rs`, with tar entry by entry. `disk[f]` says whether a path has
nothing, a part of the file, all of it, or another file. `hit` names the files
that were being written at a fault. `UnhitRestored` is what holds: the archive
goes only when every other file is there. `Resumable`, `RunAgain` and
`TarRemoved` are what the code says of itself, and fail. The branch for exit
codes 143 and 137 (`RESUMABLE: ...`) is never taken: `ExitStatus::code()` of a
child that was killed by a signal is `None`, here -1.

### CompressRoms

`cmd_compress_roms` on one folder: list, conversion to a `.part`, rename,
deletion of the tracks one by one and of the sheet last. Sources with one stem
share a target; the second one is skipped for ever and keeps its tracks. A ROM
is `Kept` while its own files are whole or its target holds it, and no step may
lose one (`NoRomLost`).

### Downloads

Seven ways the code has to download to a destination (`Kinds`): through a
`.part` file or straight, with a checksum or without, flushed or not. Files are
inodes, as in `Lockfile`: a command that has opened the `.part` goes on writing
to it when another command truncates or renames it. The checksum is of what came
over the network, so that what another command wrote in between goes unnoticed
(`OverlappedIsWhole`). `InstalledIsWhole` and `Arrived` say what holds
as long as no two commands had one temporary file open; darkos does not flush
what it installs, and a power cut may leave it empty.

### Services

`cmd_enable`, `cmd_disable` and `cmd_recover` next to the service manager
(restart after failure, boot), run loops that were started by `nohup` on
firmware without systemd (`strays`), heavy commands and their lock. `recover`
begins with `killall -9 playora-agent`, and is called that itself: as a rule it
ends there, before it sweeps locks and restarts the screen
(`RecoverEnds`). It gets on only where `killall` fails, and then it sweeps
locks that are held (`SweepsOnlyStale`, `sweptLive` in `JobsExclude`).

### Launcher

`cmd_launch`: note the start, spawn, wait, note the end. `db` says whether the
database could be opened; either note may fail by itself. The wrapper may be
killed while the game goes on. A game that the wrapper runs is seen by
`SessionTracker` too and is reported under two session ids.

### Migrations

`db::open` in several processes, one of which is an older agent that still runs
after an update. `log` is the sequence of commits, so that a power cut may take
its end (WAL, `synchronous=NORMAL`), and the statements of one migration and its
record are commits of their own. Processes that open a new database at once
collide on the primary key of `schema_migrations`: the second `open` fails
(`OthersOnlyDelay`) and succeeds the next time (`Opened`).

### Scheduler

`Scheduler::tick` in the rounds of `cmd_run`. A tick reads the clock once and
runs the jobs due in that hour one after the other, however long they take; an
hour that goes by within a job is not served (`HourIsServed` says which hours
are). What was fired today is in memory only: a restart within the hour fires
again.

### ActivityFeed

`begin`, `progress` and `end` of runs of scripts, and what `events_batch` makes
of them: progress changes the newest running row of the script unless it is
older than ten minutes (`Window`), an end closes the newest running row, and
either opens a row when there is none. The clock is counted in units of the
window. Events travel in their order, which is what `EventSync` shows.

The server commits the event first and looks up and writes the row afterwards,
in statements of their own whose errors are dropped. `Projected` is the report
that gets through. In `LookUpFails` the SELECT fails and reads as "no row", so that the
report opens one; in `NotProjected` the server stops in between or the statement
fails, and the report that is sent again is a duplicate. `missed` and `skipped`
name the runs this happened to: `OutcomesKept` and `EndShown` promise nothing of an
end the server has answered for and not projected, and `RunningIsExplained` counts
both among the reasons for a row that says "running" for ever.

### LibraryIndex

The table `games` of the agent, filled by a scan in one transaction, its covers,
looked up fifty rows at a time, and the server's `game_metadata`, to which both
report. A scan goes on, and succeeds, without a file whose metadata or hash it
cannot have and without a folder the walk cannot read (`PassOver`); only the folder of
all systems, the database and a kill end it (`ScanEnds`). A change that keeps a file's
size goes unnoticed, and the row of a ROM that is gone stays. `CardIsKnown` speaks
of the ROMs that are not `stale`: a ROM is, from its last change on, until a complete
scan has read it, for ever if every scan passes it over. The server stores
an event and writes the title's row in two statements, of which the second may fail. A process
that dies between storing a cover and enqueuing its event never reports it. A
scan fills no row a later lookup of covers would start from, so that a run after
a first scan finds nothing to do (`CoversLookedUp`); rows without a match
stay first and keep the batch from the others.

### RomListing

The dashboard's list of a device's ROMs consists of `rom_scanned` rows of
`events`. `delete_ack` removes the rows whose payload contains the path, of any
device and also of longer paths (`Matching`), while the agent's index keeps what
it has, so that a ROM that disappears in this way is not scanned again
(`ScanLists`, `OthersStay`); and an event that is sent a second
time after its row went is stored as new (`DeletedStaysOff`). The update and the
removal commit one by one. The limit of a batch is left to `EventSync`.

### DeviceReports

What a device's pages show of it. A doctor's run queues an event per issue and
its report behind them, one by one, and ignores what cannot be queued; audits
and snapshots queue one event. A round of the run loop queues a heartbeat
before it sends, other commands send what there is. One request at a time
waits for its answer (`EventSync` has the protocol in detail); it can be given
up and served late, have an event rejected, or be cut off between an event and
its projection. Each batch rewrites the row of the device with its version and
the address it came from, which is why the heartbeats keep that row current
(`Current`). A server fills an empty catalog item by item before it listens,
and a start that was cut off there is never made up for (`seedCut`). Pages
read the row with the highest id (`LastRun`), and look into the stored JSON
(`Json`, `Get`).

### ExtractRoms, RomLayout and RomTree

`ExtractRoms` begins with the card: files with a directory, a name, a number of
`.dup-N`, what they hold and whether they are whole, and rename with what it
overwrites. Extraction and, in `RomLayout`, repair and cleaning are commands on
it, file operation by file operation, and `RomTree` runs them at the same time: extraction
has a lock against itself only, the others have none.

The cleaning takes directories as well as files by their names. A directory called
`__MACOSX` or `._*` (`JunkDirs` on the card, `JunkSubs` inside of archives while they
are unpacked) is listed as a whole (`heaps`), next to what is listed of its inside.
`remove_dir_all` removes it file by file (`Sweep`), ROMs and scripts
too, and also what another command moves into it meanwhile; `HeapDone` is its end, or
its failure. With a quarantine the directory is renamed as a whole (`SetAside`), and it
is listed again there by the next cleaning, which removes it if it is run
without one. `Home` is the folder the walks of repair and cleaning find such a directory in.

`replaced`, `dropped`, `crossed`, `cut` and `swept` name what is
lost and how: a name that is taken is overwritten by extraction; what extraction
cannot route, or neither rename nor copy, is removed with its archive; repair
renames over a file that came between its look and its rename; a kill while a
script is rewritten leaves it cut off; a directory with a junk name is removed with
what is in it. `NothingLost` says that of the ROMs and scripts that were on the card at
first (`owned`) none is lost in any other way. That the last of these ways is open is
against what `clean.rs` says of itself (`NeverTouchesRoms`).

### CloudPairing, CloudMirror and CloudCatalog

`CloudPairing`: the dashboard stores a token, the agent asks for it every few
seconds with a time-out, the server marks it as consumed when it *answers*, and
rclone checks it. A lost answer is a lost token (`faults` in `TokenNotWasted`),
and the dashboard says "written" of what was only read
(`ConsumedIsWritten`). `CloudMirror`: backup (`rclone sync`, which removes)
and restore (`rclone copy`) of two folders, file by file, while games save. A
backup of a card that has some of the saves removes the others, also those that a
restore is about to bring (`RestoreFindsAll`); one whose folder is missing leaves them alone
(`NewCardKeepsCloud`). A signal that kills the agent alone leaves its rclone running
(`orphans`), and the next job finds the lock of a dead process and starts next to
it. An orphan of a backup goes by what the card had when it began: it may remove from the
cloud what a later backup has copied there and said "ok" of (`undone`).
`CloudCatalog`: the list is deleted and inserted row by
row under the mutex that readers take too, and every statement's error is dropped. Only
a crash, or a statement that the database refuses, shows parts of a list (`Outcome`
is what a post comes to); a late request may put an older list back.

### FixExit

`apply_patches` on sequences of lines, the backup of the second, the write
through a temporary file, `--restore`, and RetroArch, which reads the file when
it starts and writes all of it when it ends. `FixSticks` speaks of fixes made
while RetroArch did not run. A restore copies in place and can be cut off
(`RestoresWhole`).

### SavesPack, PortInstall, RomAudit

`SavesPack` packs saves one by one while games write them: the header has the
length of a moment before, and archives are named by the second on both sides.
A save whose data are a block shorter or longer than its header says spoils its own
entry and sends whoever unpacks the archive to a wrong place for the next, so everything
packed behind it is lost too, and saves that nobody wrote with it (`Unpacks`).
`ArchiveIsSound` excepts an entry if the save, or one packed before it, was written
during the pack. The server sets no body limit of its own, so larger archives are
answered 413 (`MaxBody`). `PortInstall` unpacks a `.part` two processes may be writing;
an install reports success only if every entry has the right checksum, so that
`SuccessIsWhole` needs no lock but to keep two from unpacking at once.
`RomAudit` reads size, time and content of a file in this order and caches the
hash under the first two; `blurred` are files with two contents under one second.
A file that cannot be read is grouped by its name and size (`NameKey`), which two files of
different content may share: `DuplicatesAreReal` speaks of groups under a hash.

### FileBrowser

Uploads (write in place), moves, deletes and downloads resumed by `Range`.
Positions are words of 2^64 that wrap around in release builds (`Word`, made 8):
a range that begins at the end of the file claims the length 0 or, for an empty
file, one that never comes.

### AgentConfig, FeatureFlags

`AgentConfig`: `init` and `load` of `agent.toml`, which is emptied and then
written. A file that was cut off ends every later command instead of being
replaced, which is what keeps the device id. `init` on a file with
`server_url = "auto"` writes the address found in its place
(`DiscoverySurvives`). `FeatureFlags`: manifest and fetch, row by row.

### MenuScreens, Viewer

One action per key and per redraw. In `MenuScreens` two screens share one
selection, and ratatui cuts a selection to its list when it draws (`Cut`). In
`Viewer` a redraw takes the height and the width from the terminal; `NeverPanics` is the bound
of the slice `source.lines[state.offset..end]`. The slice has a line of text per row of
the page, and is drawn with wrapping: `long` are the lines that take several rows at the width
there is, `shown` is how many lines of the slice are on the screen whole (`Fit`).
PageDown goes on by the height of the page all the same, so that lines behind a
wrapped one do go by unseen, and a match may be pushed off the screen.
`PagingSkipsNothing` and `MatchShown` are stated for pages, or the part of the page above
the match, without wrapped lines.

## Runs

Components that share no state are checked *side by side*: `MCJobs`,
`MCNetwork`, `MCAgent` and `MCCard` have the variables of all their components,
and a behaviour is of the one that `which` names; the variables of the others
are 0 (in `MCJobs`, which extends `Lockfile`, and in `MCAgent`, which extends
`SessionTracker`, those of the lockfile and of the sessions keep their first
values, and the invariants of these two are checked as they stand). A property of such a
run conjoins properties of these components, each with `which = "..." =>`
before it; `TypeOK`, `Init` and `Next` of a component are instantiated as they
are. The state graph is the disjoint union of those of the components. The
other runs check their module directly, or with an `MC` module where constants
need definitions.

| Property | Run | What it conjoins, apart from `TypeOK` |
|---|---|---|
| `WholeInPlace` | `jobs` | `UnhitRestored` (RestoreTar), `InstalledIsWhole` (Downloads), `SchemaIsWhole` (Migrations) |
| `ProcessesAgree` | `jobs` | `SingleLoop`, `StaysDisabled`, `JobsExclude` (Services), `FinishedIsTrue` (Launcher) |
| `NoRomLost` | `jobs` | the action property of this name of CompressRoms |
| `EndsWell` | `jobs` | liveness: `AllThere` (CompressRoms, RestoreTar), `Arrived` (Downloads), `Alive` (Services), `RanOrGone` (Launcher), `Opened` (Migrations), `EndedOrPlaying` (SessionTracker) |
| `ShownIsTrue` | `network` | `NoGaps` (EventStream), `OutcomesKept`, `RunningIsExplained` (ActivityFeed), `ScannedIsListed` (RomListing) |
| `HandedOverWhole` | `network` | `FileIsOneUpload`, `ResumedIsWhole` (FileBrowser), `TokenGivenOnce`, `TokenNotWasted` (CloudPairing) |
| `ArrivesInTheEnd` | `network` | liveness: `UpToDate` (EventStream), `EndShown` (ActivityFeed), `AllMet` (RomListing), `OverOrChanged` (FileBrowser), `Settled` (CloudPairing), `Current` again and again (DeviceReports) |
| `CopiesAgree` | `card` | `CacheIsRight`, `DuplicatesAreReal` (RomAudit), `ArchiveIsSound`, `KeptStays` (SavesPack), `SuccessIsWhole` (PortInstall) |
| `SettingsStick` | `agent` | `PatchIsRight`, `FixSticks`, `BackupFirst` (FixExit), `IdentityStays` (AgentConfig), `FetchedIsServed` (FeatureFlags) |
| `ServerKnows` | `agent` | `IndexIsAnnounced`, `CardIsKnown`, `CoversStay` (LibraryIndex), `ShownIsOneList` (CloudCatalog), `LatestIsNewest`, `IssuesWithReport`, `CatalogIsWhole` (DeviceReports) |
| `BackupsKeep` | `card` | `OncePerDay`, `HourIsServed`, `LateOnlyBehind` (Scheduler), `OkIsBackedUp`, `NewCardKeepsCloud` (CloudMirror) |
| `ScreensAgree` | `card` | `NeverPanics`, `MatchShown`, `PagingSkipsNothing` (Viewer), `MenuNeverPanics`, `InstallsShown` (MenuScreens) |

Every part has a mutant of its own that breaks the property through it.

| Run | Question | Bounds |
|---|---|---|
| `sync` | Is anything lost, doubled, reordered or reopened? Is the abstract outbox implemented? Is everything delivered once the faults end? | 3 events, 2 processes, 2 requests, batches of 2, 1 fault |
| `agent` | Is every session reported once and in full, whatever restarts happen? Do settings stay as they were made? Does the server come to know what is on the card, in the cloud and in the reports? | `SessionTracker`: 2 games, 2 processes, 3 sessions, 3 versions of a save, 1 fault; others below |
| `lock_race` | finding | 2 commands |
| `stream_repeats` | finding | 3 rows |
| `issues_page` | finding | 1 command, 1 run with at most 1 issue, 1 change, 1 fault |
| `queues` | Are answers true, and final? Does every request get one? | 2 requests for 1 path, run loop and menu, 1 ROM put back, 1 entry in the local queue, 1 fault |
| `updates` | Is every update answered, truthfully, and without a downgrade? | 3 requests, 3 versions, 1 update from the menu, 2 faults |
| `restore_resumable` | finding | 2 files, 1 fault |
| `library` | Do extraction, repair and cleaning lose anything, alone or together? Is what can be routed routed? | 8 contents (an archive, a compressed file with the name of a packed one, ROMs of one name and two systems, junk, a script) on 4 cards, 3 systems two of which share an extension, directories called `__MACOSX` in `psx`, in `ports`, in the quarantine and in the archive, 2 temporary directories, names up to `.dup-2`, 1 fault |
| `jobs` | What do commands and services leave behind that fail, are killed, run twice or are started again? When does the lock exclude? | below |
| `network` | What reaches the other side, and once? | below |
| `card` | Does what is cached, packed, installed, mirrored, scheduled or shown agree with what it was made from? | below |

| Component | Run | Bounds |
|---|---|---|
| `Lockfile` | `jobs` | 3 commands |
| `RestoreTar` | `jobs` | 5 files, room for the archive twice, 3 faults |
| `CompressRoms` | `jobs` | 2 sheets of one name with 3 tracks, 1 image, 3 faults |
| `Downloads` | `jobs` | 2 commands of any 2 of the 7 kinds, 2 pieces, 6 inodes, 2 faults |
| `Services` | `jobs` | 2 heavy commands, 2 strays, 3 failures, freezes or boots |
| `Launcher` | `jobs` | 3 launches, 3 exit codes |
| `Migrations` | `jobs` | 3 processes, one with an older binary, 3 migrations, the last of 2 statements, a database that is new or of any version, 1 fault |
| `SessionTracker` | `jobs` (liveness) | 2 games, 2 processes, 2 sessions, 1 fault |
| `EventStream` | `network` | 4 rows, LIMIT 2, 2 clients |
| `ActivityFeed` | `network` | 2 runs, 2 scripts, 2 units of time of which 1 is the window, 1 progress report |
| `FileBrowser` | `network` | 2 paths, 2 inodes, 2 uploads of 1 to 3 bytes, words of 8, 2 breaks |
| `CloudPairing` | `network` | 3 tokens, 2 setups of 3 rounds, 2 faults |
| `RomListing` | `network` | 2 devices, 2 paths one of which is the beginning of the other, 2 scans, 1 change, 1 request, 1 fault |
| `DeviceReports` | `network` (liveness) | 1 command, 1 run with 1 issue, batches of 1, 1 catalog item, 1 change, 1 fault |
| `DeviceReports` | `agent` | 2 commands, 2 runs with 1 issue each, batches of 2, 2 catalog items, 1 change, 1 fault |
| `RomAudit` | `card` | 2 ROMs of one name, 2 audits, 2 contents of one size, 2 seconds, 1 write |
| `SavesPack` | `card` | 2 saves, 2 packers, lengths and bodies of 2 blocks, 2 seconds, 1 write, 2 packs |
| `FixExit` | `agent` | 2 keys one of which is fixed, 2 values, 2 seconds, 1 change by the player, 1 fault |
| `LibraryIndex` | `agent` | 2 ROMs, 2 sizes, batches of 1, 2 scans, 1 fetch, 1 fault |
| `CloudMirror` | `card` | 2 saves and a database, 3 versions, 3 jobs, 1 fault |
| `Scheduler` | `card` | 3 jobs, two of them of one hour, days of 3 hours, 8 hours, 2 restarts |
| `PortInstall` | `card` | 2 installers, 2 entries, 2 releases, 3 inodes, 3 installs |
| `CloudCatalog` | `agent` | 2 files, 2 refreshes, 2 changes, 1 crash |
| `FeatureFlags` | `agent` | 2 features, 3 texts, 2 settings, 3 fetches |
| `AgentConfig` | `agent` | 2 addresses, 3 inits, 1 move, 1 edit |
| `Viewer` | `card` | texts of up to 6 lines, pages of up to 4, 3 terms, 3 widths that wrap none, 2 or 4 of the lines |
| `MenuScreens` | `card` | 4 rows, 4 catalogs of up to 3 ports |

Why the bounds are enough. In `sync` two requests and two processes give
overlapping batches, a late request behind a newer one, and a batch that
splits (3 events, batches of 2); the session has its Started event first, its
Finished event second and an event behind them. One fault is a time-out, a
crash of either side, a lost connection or a power cut. The proofs need none
of these bounds. In `agent` three sessions of two processes include a game
that comes back to the front after another one was quit, and the one fault
falls into any step of any of them, or between two. (With `MaxFaults` 2 the
sessions pass as well, in 3.4 million states; the proofs cover any number.)
Three commands give one that holds the lock, or died with it, and two racing
ones. In `queues` two requests for one path meet in every way: both to delete,
with the ROM put back between them, or one of each kind; requests for
different paths share nothing but the lock, and the proofs cover any number of
them. For `CompressRoms` two sources share a target and a third does not, and
a killed run is followed by one that is killed too. In `library` the archive
meets, on one card each, the compressed file and the loose ROM under the name of what is in
it, so that names are taken and repair and extraction get in each other's way; a
ROM whose extension has two systems is moved from one to the other; a ROM and a script lie
in directories with junk names, junk lies next to ROMs, and what comes out of the archive
is in such a directory until it is routed. Two of
everything (commands, devices, packers, installers, audits) let each overtake
the other at every step; where a component has two faults, the second
falls into the recovery from the first. In `FileBrowser` words of 8 leave room for positions
of files of 3 bytes and for one that wraps. In `Scheduler` a job can last from
one day into the next. Deadlock is not checked because every instance comes to
its natural end: the bounded events are delivered, the bounded processes have
run.

Finite resources are constants named `Max...`, `NumEvents`, `Conns` and are
guards of the action that would exceed them.

## Fairness

- `EventSync`: `cmd_run` calls `cmd_sync_once` in an endless loop that systemd
  restarts, so `BeginSync(RunLoop)` is weakly fair, as are the steps that end a
  call (the client waits no longer than 15 s). On the server `Accept` is weakly
  fair (tokio's mutex is FIFO) and so are the steps of the loop. Nothing is
  assumed of the commands that synchronise once, of `Flush`, of `Enqueue`. The
  number of faults is finite: the device is online in the end.
- `SessionTracker`: the agent's next step is weakly fair. Players need not quit:
  `SessionsEnd` assumes it in its statement.
- `DeviceQueues`, `UpdateQueue`: the run loop goes round for ever, and a command
  that has started ends. Menu commands are bounded and need not happen.
- `RestoreTar`, `CompressRoms`: a command that has started ends, and the player
  starts it again after it was cut off.
- `EventStream`: the interval of a connection ticks.
- `RomTree`: extraction is started again and its steps are weakly fair; repair and
  cleaning need not run.
- `MCJobs`: restores, compressions and downloads are started again and a command
  that has started ends or fails; the service manager restarts what failed; the
  wrapper and the run loop take their steps; the run loop opens the database
  again and again. `MCNetwork`: polls go on (`Poll`, `Deliver`, `AgentStep`),
  the client that wants a file asks again, every device synchronises and sweeps
  its deletions in the end, and for `DeviceReports` the run loop goes round and the
  server starts, seeds and serves (systemd restarts both). `MCCard` and `MCAgent` assume none.

## Findings

1. `lock_race`: two commands can hold the lock at once.
2. `stream_repeats`: the live stream repeats what it has pushed.
3. `restore_resumable`: a file that tar was writing when it was killed stays cut
   off, and the archive is removed.
4. `issues_page`: every issue is shown as "info", without title, evidence or fix.
   The server stores the JSON of the whole event, and the page looks for `data` at
   its top instead of under `payload`. The pages of the doctor and of the ROM audit
   and the script of the live feed look in the same place.

### Further counterexamples

Each of these is a definition in its module and states what the code or its
texts promise. TLC refutes it under `Spec` and the bounds given above when it
takes the place of the properties in a configuration of that module. Some need
other constants: `ScanLists` and
`RestoresWhole` need `MaxChanges` 2, `RunAgain` two files and room for three,
`CoversLookedUp` no `InitialRows`, and `AmbiguousStays` the content `arcade` of `MCRomTree`.

| Module | Statement | Why it fails |
|---|---|---|
| `SessionTracker` | `FastEndIsCrash` | with 60 s between two looks no session is shorter than 8 s, unless the agent is restarted in between |
| `SessionTracker` | `NewSaveReported` | only files that exist at the start of the session are watched, so the first save of a game is not reported |
| `DeviceQueues` | `OkMeansRemoved` | a request is settled by the answer to an earlier one for the same path |
| `DeviceQueues` | `AppliesPendingOnly` | a request that was settled after the list was read is applied all the same |
| `DeviceQueues` | `EmptiedOnSuccess` | the local queue is emptied although entries failed |
| `DeviceQueues` | `NoLineUnread` | what is written to the local queue while it is worked off is lost |
| `RestoreTar` | `RunAgain` | the free space that is asked for does not count what an earlier run has extracted |
| `RestoreTar` | `TarRemoved` | with nothing to extract the archive stays |
| `Downloads` | `OverlappedIsWhole` | two downloads with a checksum share a `.part` file, and the checksum is not of what is in it |
| `Services` | `RecoverEnds` | `killall -9 playora-agent` kills `recover` (docs/R36S_BLACK_SCREEN_FIX.md:67-71 lists what should follow) |
| `Services` | `SweepsOnlyStale` | where `killall` fails, locks of running commands are swept |
| `Migrations` | `OthersOnlyDelay` | two processes that migrate at once: the second fails on the primary key, whatever `busy_timeout` says |
| `Scheduler` | `DoneWithinTheHour` | a scan that lasts more than an hour delays the backup that is to find it finished |
| `ActivityFeed` | `ProgressMerges` | rows older than ten minutes are not merged into, though activity.rs:23 knows of no limit |
| `LibraryIndex` | `CoversLookedUp` | a scan leaves nothing for fetch-covers to look up |
| `RomListing` | `ScanLists` | a ROM whose row a deletion of another one took away is not announced by a scan, since the index has it |
| `RomListing` | `OthersStay` | `LIKE` looks neither at the device nor at where the path ends |
| `RomListing` | `DeletedStaysOff` | a scan event that is sent again after its row was removed is stored as new |
| `CloudPairing` | `ConsumedIsWritten` | the server marks the token when it answers, not when rclone has it |
| `CloudMirror` | `RestoreFindsAll` | a backup mirrors a card on which a restore has only begun |
| `FixExit` | `RestoresWhole` | a restore copies over the file in place and takes the newest backup, which may itself be of a file that was cut off |
| `AgentConfig` | `DiscoverySurvives` | an init that changes something else stores the address that "auto" was resolved to |
| `RomTree` | `NeverTouchesRoms` | a directory called `__MACOSX` or `._*` is removed with what is in it, although clean.rs:5 says "Never touches ROMs, BIOS, saves, or gamelist files." |
| `RomTree` | `AmbiguousStays` | what stays in the temporary directory is removed with it |
| `RomTree` | `UniqueOnly` | repair takes the first system of an extension that several have |

## Proofs

Each of these holds for all values of the constants that meet the named
assumptions of the modules, so for any number of events, commands, files,
processes and faults. The small proofs are in the module of their component.

| Module | Theorems |
|---|---|
| `EventSyncProofs` | `TypeOK`, `NothingLost`, `AppliedOnce`, `InOrder`, `FinishedIsClosed`, `NeverReopened`, and the refinement `Delivers` |
| `AgentProofs` | `TypeOK`, `ReportedOnce`, `OpenIsTracked`, `NoOverlap`, `NewSessionNewProcess`, `SaveReported` of `SessionTracker`, by itself and beside the others; `SettingsStick`, `ServerKnows` |
| `DeviceQueuesProofs` | `TypeOK`, `OkWasEarned`, `AnswersStand` |
| `UpdateQueue` | `TypeOK`, `OkMeansUpToDate`, `NoDowngrade` |
| `JobsProofs` | `TypeOK`, `ExclusiveUnlessRaced` of `Lockfile`, `WholeInPlace`, `ProcessesAgree`, `NoRomLost` |
| `RomTreeProofs` | `TypeOK`, `NothingLost`, `OverwritesOnlyRaced` |
| `CardProofs` | `CopiesAgree`, `BackupsKeep`, `ScreensAgree` |
| `NetworkProofs` | `ShownIsTrue`, `HandedOverWhole` |

The assumptions say no more than the code does: sizes and bounds are numbers,
`RunLoop` is a command, a value that stands for "none" is not a member, the
systems' folders, the ports and the quarantine are different directories and none of
them has a junk name, each directory with such a name is in one of them, a
card has one file per path, an entry of an archive has a path of its own, an
archive has at least one entry, a device has finitely many ROMs, a file has fewer
bytes than a word counts, a file system has more inodes than the downloads and
their three paths can hold, the commits
in the first database came in the order in which the agent makes them, jobs are
due at hours of the day and a behaviour lasts a day at least, a fixed setting is one of
the keys of the file, a feature's default is one of the four texts of the manifest,
a ROM has a title, saves and the agent's own files are different files, the catalog
that ships with the server has an item, and the counts in a report are numbers.

- `AcksAreStored` strengthens `NothingLost`: what any answer on its way
  acknowledges is stored, so what is marked is.
- `AppliedInv`: the event whose projection is next is stored and was not
  projected or skipped before.
- `OrderInv`: the invariant that makes `InOrder` inductive. Every batch, also a
  late one and what is left of the one being served, has no holes: what is older
  than one of its events is in the batch, stored, rejected or lost with the
  power. A fresh batch has none because `pending_events` takes the oldest rows.
- `SessionInv` ties the row of a session to the projections of its two events.
- For `Delivers`, every step of the code is mapped to a step of `Delivery` or to
  a stutter (`StepDelivers`); `CarriesCreated` says that requests carry created
  events only, and `DiskIsEarlier` (part of `OrderInv`) that a power cut leads to
  an earlier view.
- `ExclusiveUnlessRaced` needs to know why a command inside `acquire` will not
  end up with the lock next to a holder: alone in there, it has still to read the
  holder's id or is about to be refused (`HolderIsNamed`), and it writes to the
  inode at the path (`WritesToPath`).
- `OkWasEarned` speaks of rows, and answers are under way long before they reach
  one. `OkInv` says of every success that a command holds or that is late that
  its path is `Earned`: every request for it, also one that comes after the
  answer was sent, has one not later than itself whose wish came true.
- `OkMeansUpToDate`: the binary on disk is never older than the agent that runs
  (`VersionInv`), so an agent that finds itself up to date is; once it has a good
  answer, or is about to restart, all it was asked is met (`AnswerInv`).

- `SessionTracker` is followed through its last session step by step: `RestInv`,
  `StartInv` and `EndInv` say at every position of the agent what was sent, what
  is in `current-session.json` and what is in memory. Earlier sessions are over
  (`EarlierInv`), later ones unheard of (`FutureInv`). That process ids only go up
  (`ProcsInv`) is why a run that was reported is not found again (`FoundIsNew`).
- `NothingLost` of `RomTree` needs an account of every ROM that is right between
  any two steps: it is in a file outside the archive being unpacked (`Out`), is
  still to come out of it (`ToCome`), is the script that the cleaning holds in
  memory (`Held`, `Cleaned`), or is one of the named losses (`Gone`, `swept` among
  them). What a directory with a junk name takes with it is counted file by file
  (`HeapGoesIs`), and one that is set aside as a whole keeps what it has. The archive
  itself must not be counted while it is unpacked: it is deleted at the end,
  though what came out of it may have been overwritten since.
- `OverwritesOnlyRaced` is proved while `collision_safe` has names left
  (`NameIsFree`): behind its last one, `.dup-999`, the code falls back to the name
  itself, taken or not. In the run `library`, which has three names, this does
  happen, and the property holds there because nothing comes of it.
- `CopiesAgree` is proved component by component and carried over to `MCCard` by
  `CopiesInv`. For `RomAudit`: a row of the cache was right when it was written,
  and the file has kept its time or has changed since (`RowsInv`), and so for the
  process that is about to write one (`ReadInv`); a name-and-size key has no hash, so what is
  said of groups is said of the others. For `PortInstall`: while an
  installer is alone nobody else unpacks, and all it has unpacked is of its
  release (`AloneInv`). For `SavesPack`: two processes in one second have no file
  or know it to be mixed (`OneInv`); what a process has packed, what it is at and
  what it has to do is all it listed (`WorkInv`); what it sends is sound
  (`BodyInv`), and so is what the server keeps, under the name of its second,
  unless a second archive came for that (`KeptInv`). Sound is said of an entry
  together with those before it: a header differs from the data only of a save written during
  the pack, and what is before an entry does not change when others are appended.
- `ShownIsTrue` and `HandedOverWhole` are proved like `CopiesAgree`, by `ShownInv`
  and `HandedInv`. `NoGaps` of `EventStream` is inductive as it is.
  - `ActivityFeed`: rows do not name the run they are about while it runs, so the
    proof counts. A script has no more running rows than runs the server knows
    to have begun and not to have ended, unless one of them reported late
    (`CountInv`); when all are over none is left. A run's begin comes first and
    its end last (`ReportInv`), so a report finds its run among those, and the
    row that an end closes has no other run's end (`OutcomeInv`). A report that the
    server does not project leaves the rows as they are; its run is counted among
    the `skipped` if it was the end, and one whose row was not found among the `missed`.
  - `RomListing`: what a request carries is in the table or was swept since
    (`SentInv`), so the device may forget it when the answer comes.
  - `FileBrowser`: an inode that is not mixed is empty and has one writer, or has
    none and the bytes of one upload (`FileInv`), since the upload that opens it
    cuts it. What a client has is the beginning of its file, and an answer under
    way starts right behind that and is as long as the rest (`ClientInv`,
    `Follows`). The lengths are differences of words: they do not wrap around as
    long as the client has no more than the file, and also not for an empty file,
    where the end of the span is the largest word (`Positions`). It also needs
    that no inode has two paths (`EntryInv`).
  - `CloudPairing`: the row has the newest token and says whether it was given
    (`GivenInv`); as long as no answer is lost a token is in one place at a time
    on its way to rclone (`PathInv`).

- `WholeInPlace`, `ProcessesAgree` and `NoRomLost` are proved component by
  component and carried over to `MCJobs` by `JobsInv`, which the run `jobs` passes too.
  - `RestoreTar`: tar has looked at every file before the one it is at, and no file
    it has looked at is missing afterwards (`RestoreInv`); the archive goes when
    every file is there.
  - `CompressRoms`: what is deleted is in its target (`CompressInv`).
  - `Downloads`: as long as every command goes through a temporary file and no two
    had one open, a file is written by one command and not installed before that is
    done with it (`AloneInv`), and what a command writes to is at its own temporary
    path (`AtPathInv`): that is why nobody else's rename takes it, and why the name
    that a mismatch removes is its own. Then the bytes that the checksum was
    of are the bytes in the file (`WrittenInv`). It needs a new inode to be one that
    nobody uses, which a count of the inodes in use shows (`Spare`).
  - `Services`: what disable has stopped stays so until its `pkill`, and the lock names
    the one command that runs (`ServiceInv`).
  - `Launcher`: sessions in the outbox go up, and an end is the last of its session
    (`OrderInv`).
  - `Migrations`: `MAX(version)` says something of one row only. That all before it is
    there is the order of the log, which every commit keeps and a power cut cannot
    break, since it takes an end (`InOrder`); a process that migrates has what its
    step builds on in the log (`Migrates`), whatever others commit meanwhile.

- `BackupsKeep` and `ScreensAgree` are carried over to `MCCard` by `BackupsInv` and
  `ScreensInv`.
  - `Scheduler`: a job that is done for a day was fired on it, once (`DoneInv`), and
    what was fired is done for that day or running (`FiredInv`), so it is not fired
    again. What a tick is past has been fired today (`ServedInv`). A tick whose clock
    is old has run a job of its hour, behind which others may be late (`TickInv`).
  - `CloudMirror`: what is left of the snapshot of a backup is on the card (`SnapInv`),
    and of what it found the cloud has what it is done with, folder by folder
    (`BackupInv`), but for what an orphan removed. While a card is fresh it has no folder
    of saves, and no backup is at that one (`CardInv`), also none whose agent was killed
    (`OrphanInv`).
  - `Viewer`: the page begins in the text or at its end (`PageInv`). The line jumped to is
    one of its first three (`TargetInv`), and the redraw decides what of the slice is on
    the screen (`ScreenInv`); without a wrapped line above it that is as many lines as there are
    rows.
  - `MenuScreens`: the ports on the screen are those of the catalog that the filter
    lets through (`PortsInv`).
- `SettingsStick` is carried over by `SettingsInv`.
  - `FixExit`: what a fix achieved is in the file and in what RetroArch will write
    when it ends (`StickInv`); when the file is replaced there is a copy of it, unless
    RetroArch wrote it since (`CopyInv`); a restore has something to restore
    (`RestoreInv`).
  - `AgentConfig`: once there is an id, the file has it or is cut off, and no init
    under way makes another (`IdentityInv`).
  - `FeatureFlags`: what the running fetch is done with is as the server answered
    (`CopiedInv`).
- `ServerKnows` is carried over by `KnowsInv`.
  - `CloudCatalog`: the rows are what one of the posts came to, or as much of the one
    being stored as was stored, next to what was not deleted (`RowsInv`).
  - `LibraryIndex`: the events of the outbox bring what the server knows to what the
    index has, and those of a scan bring that to what its transaction has
    (`AnnouncedInv`); a ROM that did not change since a scan read it is in the
    index as it is (`LookedAtInv`); one that was passed over stays as `stale` as it was when the scan
    commits.
  - `DeviceReports`: reports of a kind are made, queued, sent and stored in one order.
    No report that was heard of is ahead of an older one still to be queued
    (`CommandInv`), and the issues of a run are ahead of its report (`FoundInv`). A
    request under way is the beginning of the outbox, and what is stored is older than
    what waits (`OutboxInv`); so it is for a request that was given up (`LateInv`).
    The rows are in the order in which the reports were made (`StoredInv`); all of
    this but for the runs the named exceptions speak of (`excused`, `refused`, `cut`,
    `dropped`). `SeedInv` is what a server knows of its catalog. The lemmas
    `OnlyPicks`, `InBoth` and `StoreStep` say that picking from a sequence and
    appending to it keep its order.

Forms in the modules that serve the provers: `SavesPack` repeats a path where `@`
inside of a nested EXCEPT would do; `MCJobs`, `MCNetwork`, `MCAgent` and `MCCard`
declare the constants of the components that are proved about and give the others
their values themselves; `RomListing` takes the rows that are new from the set of
events of the outbox rather than from the sequence; sequences are filtered by
recursive functions (`Only` of `DeviceReports`, for instance), since tlapm knows
nothing of `SelectSeq`; the cover table of `LibraryIndex` is a set of rows with ids,
and `LastRun` of `DeviceReports` looks for the highest id.

Only model-checked are the liveness properties (`EveryEventDelivered`,
`EveryRequestSettles`, `EveryUpdateAnswered`, `EverythingRouted`, `EndsWell`,
`ArrivesInTheEnd`): the provers can handle neither fairness nor ENABLED. Every safety
property and every action property of the runs that pass is a theorem. That a
definition computes what the function of the code does for every input is not proved
either; it would take an induction over data.

## Not modelled

In `EventSync`: a row that no longer parses (it blocks `pending_events` for
ever), a power cut of the *server*, projections that only append a row or
overwrite their own (heartbeats, capabilities, storage, restore progress: they
are counted in `rows`, not interpreted; the routes store those of a heartbeat
without a device under an empty `device_id`). In `SessionTracker`: parsing of
command lines, unreadable save files, two agents running `cmd_run` at once. In
`Lockfile`: process ids of different length mixing in one file. In
`DeviceQueues`: a directory that is deleted in part, paths outside `/roms`. In
`UpdateQueue`: the beta channel. In `RestoreTar`: names that do not survive the
listing of tar (two blanks in a row). In `CompressRoms`: tracks that two sheets
share (deleted with the first), sheets with an upper-case extension (their
tracks are never deleted), a power cut that loses the unsynced target; a kill
between the rename and the deletions leaves the sources for ever, since the
target exists. In `RomTree`: how deep the walks go, the mode of a script that was
rewritten, junk directories inside of junk directories. In `LibraryIndex`: titles cut at the first dot. In `RomListing`:
the limit of 30 rows on the page. In `FileBrowser`: the PIN, directories and the
listing. In `CloudMirror`: rclone's own retries. In `Viewer`: how many rows a wrapped line
takes exactly (any number from two). In `FixExit`: several
configuration files of one device, which are patched one after the other. In
`Services`: the contents of the unit file. In `DeviceReports`: what the doctor
looks at and the probes measure, the limit of 200 rows on the issues page, the
badge computed from the last heartbeat, and direct posts other than registration
and snapshots.

Components with status `not_modelled` have their reasons in `PROJECT.json`: they
read and print (hotkeys, the command line, the wire types), drive
another program's state call by call (Kodi), or run once by hand (scripts).

## Plan

The safety of the components modelled is proved; what is left is breadth. Next would
be the bodies of `dashboard.rs` that compute what they show (badges, counts of the
overview), the probes of `hw.rs`, whose failures `DeviceReports` leaves out, the beta
channel in `UpdateQueue`, the PIN of the file browser, and a composition of `EventSync`
with `SessionTracker` that replaces the assumption that sessions are reported in
order (`SessionsAreReportedInOrder`) by what `SessionTracker` shows.
