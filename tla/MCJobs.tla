------------------------------- MODULE MCJobs -------------------------------
(*****************************************************************************)
(* The commands and services that work on the device, each by itself:        *)
(* they have no state in common.  A behaviour is one of one component, whose *)
(* variables are the ones that are not 0 or, for the lockfile, that change.  *)
(*****************************************************************************)
EXTENDS Lockfile, Naturals, Sequences, TLC

CONSTANTS
    NumFiles, Room, KeepTar,                                \* of RestoreTar
    Sources, Tracks, Targets, TracksOf, TargetOf, Refuses,  \* of CompressRoms
    MaxFaults,                                              \* of both
    Fetchers, Inodes, Chunks, MaxBreaks,                    \* of Downloads
    Jobs, MaxStrays, MaxEvents,                             \* of Services
    Codes, MaxLaunches,                                     \* of Launcher
    Processes, Known, RunLoop, Parts, InitialLogs, MaxCuts, \* of Migrations
    Torn                                                    \* of SessionTracker

VARIABLES
    which, disk, tar, restorePc, next, failed, restoreHit, restoreFaults,
    sources, tracks, target, compressPart, compressPc, list, compressCurrent,
    compressFaults, downloadKind, downloadPc, dest, downloadPart, data, open,
    at, good, synced, by, overlapped, downloadFaults, systemd, enabled,
    managed, strays, jobs, lock, screen, step, stopping, disabled, blunt,
    sweptLive, events, launcher, game, outbox, launchLaunches, log, flushed,
    stage, version, schemaPart, schemaFaults, procs, trackLaunches, save,
    trackPc, trackCurrent, file, subject, found, trackKind, changed, young,
    begun, sent, trace, fast, trackHit, trackFaults

\* Two sheets of the same stem and an image of its own.
SheetTracks == "cue" :> {"t1", "t2"} @@ "gdi" :> {"t3"} @@ "iso" :> {}
Images == "cue" :> "game" @@ "gdi" :> "game" @@ "iso" :> "other"
Ways == {"fetch", "checked", "coolrom", "rom", "firmware", "image", "update"}
\* A process of the last version is still running; the database is new, or of any version.
Statements == <<0, 0, 2>>
Binaries == "run" :> 3 @@ "cli" :> 3 @@ "old" :> 2
NewestLog == << <<1, 0>>, <<2, 0>>, <<3, 1>>, <<3, 2>>, <<3, 0>> >>
OldLogs == {SubSeq(NewestLog, 1, n) : n \in {0, 1, 2, 5}}

Restore == INSTANCE RestoreTar WITH
    pc <- restorePc, hit <- restoreHit, faults <- restoreFaults
RestoreVars == <<disk, tar, restorePc, next, failed, restoreHit, restoreFaults>>
RestoreOff ==
    /\ disk = 0 /\ tar = 0 /\ restorePc = 0 /\ next = 0
    /\ failed = 0 /\ restoreHit = 0 /\ restoreFaults = 0

Compress == INSTANCE CompressRoms WITH
    part <- compressPart, pc <- compressPc, current <- compressCurrent,
    faults <- compressFaults
CompressVars == <<sources, tracks, target, compressPart, compressPc, list,
      compressCurrent, compressFaults>>
CompressOff ==
    /\ sources = 0 /\ tracks = 0 /\ target = 0 /\ compressPart = 0
    /\ compressPc = 0 /\ list = 0 /\ compressCurrent = 0
    /\ compressFaults = 0

Download == INSTANCE Downloads WITH
    Commands <- Fetchers, Kinds <- Ways, MaxFaults <- MaxBreaks,
    kind <- downloadKind, pc <- downloadPc, part <- downloadPart,
    faults <- downloadFaults
DownloadVars == <<downloadKind, downloadPc, dest, downloadPart, data, open, at, good,
      synced, by, overlapped, downloadFaults>>
DownloadOff ==
    /\ downloadKind = 0 /\ downloadPc = 0 /\ dest = 0
    /\ downloadPart = 0 /\ data = 0 /\ open = 0 /\ at = 0
    /\ good = 0 /\ synced = 0 /\ by = 0 /\ overlapped = 0
    /\ downloadFaults = 0

Service == INSTANCE Services
ServiceVars == <<systemd, enabled, managed, strays, jobs, lock, screen, step, stopping,
      disabled, blunt, sweptLive, events>>
ServiceOff ==
    /\ systemd = 0 /\ enabled = 0 /\ managed = 0 /\ strays = 0
    /\ jobs = 0 /\ lock = 0 /\ screen = 0 /\ step = 0
    /\ stopping = 0 /\ disabled = 0 /\ blunt = 0 /\ sweptLive = 0
    /\ events = 0

Launch == INSTANCE Launcher WITH
    launches <- launchLaunches
LaunchVars == <<launcher, game, outbox, launchLaunches>>
LaunchOff ==
    /\ launcher = 0 /\ game = 0 /\ outbox = 0 /\ launchLaunches = 0

Schema == INSTANCE Migrations WITH
    MaxFaults <- MaxCuts, part <- schemaPart, faults <- schemaFaults
SchemaVars == <<log, flushed, stage, version, schemaPart, schemaFaults>>
SchemaOff ==
    /\ log = 0 /\ flushed = 0 /\ stage = 0 /\ version = 0
    /\ schemaPart = 0 /\ schemaFaults = 0

Track == INSTANCE SessionTracker WITH
    Roms <- {"snes", "gba"}, MaxLaunches <- 2, MaxSessions <- 2,
    MaxSaves <- 1, MaxFaults <- 1, SyncInterval <- 60, CrashThreshold <- 8,
    launches <- trackLaunches, pc <- trackPc, current <- trackCurrent,
    kind <- trackKind, hit <- trackHit, faults <- trackFaults
TrackVars == <<procs, trackLaunches, save, trackPc, trackCurrent, file, subject, found,
      trackKind, changed, young, begun, sent, trace, fast, trackHit,
      trackFaults>>
TrackOff ==
    /\ procs = 0 /\ trackLaunches = 0 /\ save = 0 /\ trackPc = 0
    /\ trackCurrent = 0 /\ file = 0 /\ subject = 0 /\ found = 0
    /\ trackKind = 0 /\ changed = 0 /\ young = 0 /\ begun = 0
    /\ sent = 0 /\ trace = 0 /\ fast = 0 /\ trackHit = 0
    /\ trackFaults = 0

all == <<which, vars, RestoreVars, CompressVars, DownloadVars, ServiceVars, LaunchVars,
         SchemaVars, TrackVars>>

ASSUME Assumptions ==
    /\ Restore!RestoreAssumption
    /\ Compress!CompressAssumption
    /\ Download!DownloadsAssumption
    /\ Service!ServicesAssumption
    /\ Launch!LauncherAssumption
    /\ Schema!MigrationsAssumption

AllInit ==
    /\ which \in {"locks", "restore", "compress", "downloads", "services",
                  "launcher", "schema", "sessions"}
    /\ Init
    /\ IF which = "restore" THEN Restore!Init ELSE RestoreOff
    /\ IF which = "compress" THEN Compress!Init ELSE CompressOff
    /\ IF which = "downloads" THEN Download!Init ELSE DownloadOff
    /\ IF which = "services" THEN Service!Init ELSE ServiceOff
    /\ IF which = "launcher" THEN Launch!Init ELSE LaunchOff
    /\ IF which = "schema" THEN Schema!Init ELSE SchemaOff
    /\ IF which = "sessions" THEN Track!Init ELSE TrackOff

OnlyThis ==
    /\ UNCHANGED which
    /\ IF which = "locks" THEN TRUE ELSE UNCHANGED vars
    /\ IF which = "restore" THEN TRUE ELSE UNCHANGED RestoreVars
    /\ IF which = "compress" THEN TRUE ELSE UNCHANGED CompressVars
    /\ IF which = "downloads" THEN TRUE ELSE UNCHANGED DownloadVars
    /\ IF which = "services" THEN TRUE ELSE UNCHANGED ServiceVars
    /\ IF which = "launcher" THEN TRUE ELSE UNCHANGED LaunchVars
    /\ IF which = "schema" THEN TRUE ELSE UNCHANGED SchemaVars
    /\ IF which = "sessions" THEN TRUE ELSE UNCHANGED TrackVars

AllNext ==
    \/ which = "locks" /\ Next /\ OnlyThis
    \/ which = "restore" /\ Restore!Next /\ OnlyThis
    \/ which = "compress" /\ Compress!Next /\ OnlyThis
    \/ which = "downloads" /\ Download!Next /\ OnlyThis
    \/ which = "services" /\ Service!Next /\ OnlyThis
    \/ which = "launcher" /\ Launch!Next /\ OnlyThis
    \/ which = "schema" /\ Schema!Next /\ OnlyThis
    \/ which = "sessions" /\ Track!Next /\ OnlyThis

AllSpec == AllInit /\ [][AllNext]_all

\* What each component's FairSpec assumes.
FairSpec ==
    /\ AllSpec
    /\ WF_all(which = "restore" /\ Restore!Work /\ OnlyThis)
    /\ WF_all(which = "restore" /\ Restore!Again /\ OnlyThis)
    /\ WF_all(which = "compress" /\ Compress!Begin /\ OnlyThis)
    /\ WF_all(which = "compress" /\ Compress!Step /\ OnlyThis)
    /\ \A c \in Fetchers :
          /\ WF_all(which = "downloads" /\ Download!Step(c) /\ OnlyThis)
          /\ WF_all(which = "downloads" /\ Download!Start(c) /\ OnlyThis)
    /\ WF_all(which = "services" /\ Service!Restart /\ OnlyThis)
    /\ WF_all(which = "launcher" /\ Launch!Work /\ OnlyThis)
    /\ WF_all(which = "schema" /\ Schema!Step(RunLoop) /\ OnlyThis)
    /\ WF_all(which = "sessions" /\ Track!Agent /\ OnlyThis)

-----------------------------------------------------------------------------
\* What a command leaves in its place is whole.  restore.rs: the archive goes only when
\* every file no fault fell into is there (UnhitRestored).  Download commands: what a
\* checked download put at its destination is whole, whoever else writes the same .part
\* (InstalledIsWhole).  db.rs: whoever has the database open finds every table its binary
\* knows of (SchemaIsWhole).
WholeInPlace ==
    /\ which = "restore" =>
          /\ Restore!TypeOK
          /\ Restore!UnhitRestored
    /\ which = "compress" => Compress!TypeOK
    /\ which = "downloads" =>
          /\ Download!TypeOK
          /\ Download!InstalledIsWhole
    /\ which = "schema" =>
          /\ Schema!TypeOK
          /\ Schema!SchemaIsWhole

\* What runs is what should.  autosync.rs, under systemd: never two run loops (SingleLoop),
\* none after disable (StaysDisabled), and two heavy commands together only after recover
\* swept a live lock (JobsExclude).  launcher.rs: a finished event tells, once, how a game
\* ended that is over (FinishedIsTrue).
ProcessesAgree ==
    /\ which = "services" =>
          /\ Service!TypeOK
          /\ Service!SingleLoop
          /\ Service!StaysDisabled
          /\ Service!JobsExclude
    /\ which = "launcher" =>
          /\ Launch!TypeOK
          /\ Launch!FinishedIsTrue

\* compress.rs: no ROM is lost, wherever a conversion fails or the command is killed.
NoRomLost == [][which = "compress" => Compress!NoRomLost]_all

\* Whatever fails or is killed, work that is started again comes to its end.  compress.rs:
\* a leftover .part blocks once at most, and every target is there.  restore.rs: every file
\* is there, at least in part.  Download commands: attempts that check a checksum lead to
\* the whole file.  autosync.rs: a run loop that fails is running again, unless disabled.
\* launcher.rs:44, "NEVER block the game": a launch runs the game, with or without
\* database.  db.rs: the run loop gets at its database again.  sessions.rs: once the last
\* game is gone for good, every session ends.
EndsWell ==
    /\ <>[](which = "compress" => Compress!AllThere)
    /\ <>[](which = "restore" => Restore!AllThere)
    /\ []<>(which = "downloads" => (Download!OnlyVerified => Download!Arrived))
    /\ []<>(which = "services" => Service!Alive)
    /\ []<>(which = "launcher" => Launch!RanOrGone)
    /\ []<>(which = "schema" => Schema!Opened)
    /\ []<>(which = "sessions" => Track!EndedOrPlaying)
=============================================================================
