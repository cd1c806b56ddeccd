------------------------------- MODULE MCCard -------------------------------
(*****************************************************************************)
(* The components that keep something on the card or show it, each by itself: *)
(* they have no state in common.  A behaviour is one of one component, whose *)
(* variables are the ones that are not 0.                                    *)
(*****************************************************************************)
EXTENDS Naturals, Sequences, FiniteSets, TLC

CONSTANTS
    Roms, Auditors, Contents, Size(_), Name(_),             \* of audit.rs
    Saves, Packers, MaxLength, MaxBody, MaxPacks,           \* of saves.rs
    Installers, Entries, Releases, Inodes, MaxInstalls,     \* of portmaster.rs
    MaxTime, MaxWrites,                                     \* of both audit.rs and saves.rs
    Savestates, OwnFiles, MaxVersion, MaxJobs, MaxFaults,   \* of cloud.rs
    JobOrder, HourOf, HoursADay, MaxHours, MaxRestarts,     \* of sync.rs
    MaxTotal, MaxHeight, Terms, Wraps,                      \* of viewer.rs
    Catalogs                                                \* of tui.rs

\* Bounds are numbers, and a zip has entries.
ASSUME CopiesAssumption ==
    /\ MaxTime \in Nat \ {0}
    /\ {MaxWrites, MaxLength, MaxBody, MaxPacks, MaxInstalls} \subseteq Nat
    /\ IsFiniteSet(Entries) /\ Entries # {} /\ Entries = 1..Cardinality(Entries)

VARIABLES
    which, auditNow, rom, hashes, audit, auditWrites, blurred, packNow, save,
    temp, stored, packer, packWrites, packs, kept, twice, card, cloud, there,
    paired, version, job, jobs, claimed, faults, snap, fresh, orphans, undone, time, phase,
    index, read, lastDay, fired, ticked, late, restarts, part, chunks,
    installed, inst, installs, total, offset, height, long, shown, search, typing,
    matches, cursor, drawn, target, screen, running, main, pm, fetched, catalog, ready,
    channel, ports, chosen

\* Of one size, so that only the time tells them apart, and of one name, in two folders.
SizeOf(content) == 1
NameOf(file) == 1
InOrder == <<"backup", "scan", "extract">>
Hours == "backup" :> 1 @@ "scan" :> 0 @@ "extract" :> 1
Fetchable == {<<>>, <<TRUE>>, <<FALSE, TRUE>>, <<TRUE, FALSE, TRUE>>}

Audit == INSTANCE RomAudit WITH
    now <- auditNow, writes <- auditWrites
AuditVars == <<auditNow, rom, hashes, audit, auditWrites, blurred>>
AuditOff ==
    /\ auditNow = 0 /\ rom = 0 /\ hashes = 0 /\ audit = 0
    /\ auditWrites = 0 /\ blurred = 0

Pack == INSTANCE SavesPack WITH
    now <- packNow, writes <- packWrites
PackVars == <<packNow, save, temp, stored, packer, packWrites, packs, kept, twice>>
PackOff ==
    /\ packNow = 0 /\ save = 0 /\ temp = 0 /\ stored = 0
    /\ packer = 0 /\ packWrites = 0 /\ packs = 0 /\ kept = 0
    /\ twice = 0

Mirror == INSTANCE CloudMirror WITH
    Saves <- Savestates, Agent <- OwnFiles
MirrorVars == <<card, cloud, there, paired, version, job, jobs, claimed, faults, snap,
      fresh, orphans, undone>>
MirrorOff ==
    /\ card = 0 /\ cloud = 0 /\ there = 0 /\ paired = 0
    /\ version = 0 /\ job = 0 /\ jobs = 0 /\ claimed = 0
    /\ faults = 0 /\ snap = 0 /\ fresh = 0
    /\ orphans = 0 /\ undone = 0

Sched == INSTANCE Scheduler WITH
    MaxTime <- MaxHours
SchedVars == <<time, phase, index, read, lastDay, fired, ticked, late, restarts>>
SchedOff ==
    /\ time = 0 /\ phase = 0 /\ index = 0 /\ read = 0
    /\ lastDay = 0 /\ fired = 0 /\ ticked = 0 /\ late = 0
    /\ restarts = 0

Port == INSTANCE PortInstall
PortVars == <<part, chunks, installed, inst, installs>>
PortOff ==
    /\ part = 0 /\ chunks = 0 /\ installed = 0 /\ inst = 0
    /\ installs = 0

View == INSTANCE Viewer
ViewVars == <<total, offset, height, long, shown, search, typing, matches, cursor, drawn,
              target>>
ViewOff ==
    /\ total = 0 /\ offset = 0 /\ height = 0 /\ long = 0
    /\ shown = 0 /\ search = 0 /\ typing = 0 /\ matches = 0
    /\ cursor = 0 /\ drawn = 0 /\ target = 0

Menu == INSTANCE MenuScreens WITH
    Actions <- <<"ports", "update", "other", "quit">>
MenuVars == <<screen, running, main, pm, fetched, catalog, ready, channel, ports,
      chosen>>
MenuOff ==
    /\ screen = 0 /\ running = 0 /\ main = 0 /\ pm = 0
    /\ fetched = 0 /\ catalog = 0 /\ ready = 0 /\ channel = 0
    /\ ports = 0 /\ chosen = 0

all == <<which, AuditVars, PackVars, MirrorVars, SchedVars, PortVars, ViewVars,
         MenuVars>>

ASSUME Assumptions ==
    /\ Mirror!MirrorAssumption
    /\ Sched!SchedulerAssumption
    /\ View!ViewerAssumption
    /\ Menu!MenuAssumption

Init ==
    /\ which \in {"audit", "saves", "mirror", "scheduler", "ports", "viewer",
                  "menu"}
    /\ IF which = "audit" THEN Audit!Init ELSE AuditOff
    /\ IF which = "saves" THEN Pack!Init ELSE PackOff
    /\ IF which = "mirror" THEN Mirror!Init ELSE MirrorOff
    /\ IF which = "scheduler" THEN Sched!Init ELSE SchedOff
    /\ IF which = "ports" THEN Port!Init ELSE PortOff
    /\ IF which = "viewer" THEN View!Init ELSE ViewOff
    /\ IF which = "menu" THEN Menu!Init ELSE MenuOff

OnlyThis ==
    /\ UNCHANGED which
    /\ IF which = "audit" THEN TRUE ELSE UNCHANGED AuditVars
    /\ IF which = "saves" THEN TRUE ELSE UNCHANGED PackVars
    /\ IF which = "mirror" THEN TRUE ELSE UNCHANGED MirrorVars
    /\ IF which = "scheduler" THEN TRUE ELSE UNCHANGED SchedVars
    /\ IF which = "ports" THEN TRUE ELSE UNCHANGED PortVars
    /\ IF which = "viewer" THEN TRUE ELSE UNCHANGED ViewVars
    /\ IF which = "menu" THEN TRUE ELSE UNCHANGED MenuVars

Next ==
    \/ which = "audit" /\ Audit!Next /\ OnlyThis
    \/ which = "saves" /\ Pack!Next /\ OnlyThis
    \/ which = "mirror" /\ Mirror!Next /\ OnlyThis
    \/ which = "scheduler" /\ Sched!Next /\ OnlyThis
    \/ which = "ports" /\ Port!Next /\ OnlyThis
    \/ which = "viewer" /\ View!Next /\ OnlyThis
    \/ which = "menu" /\ Menu!Next /\ OnlyThis

Spec == Init /\ [][Next]_all

-----------------------------------------------------------------------------
\* What was made from files agrees with them.  audit.rs: a cached hash that would be used is
\* that of the file (CacheIsRight), duplicates reported under a hash hold the same content
\* (DuplicatesAreReal).  saves.rs: an archive the server holds has every save, and each is
\* got out of it whole unless it, or one packed before it, was written (ArchiveIsSound).
\* routes.rs: an archive it answered for stays, unless a second comes that second
\* (KeptStays).  portmaster.rs: an install that reports success left every file of one
\* release (SuccessIsWhole).
CopiesAgree ==
    /\ which = "audit" =>
          /\ Audit!TypeOK
          /\ Audit!CacheIsRight
          /\ Audit!DuplicatesAreReal
    /\ which = "saves" =>
          /\ Pack!TypeOK
          /\ Pack!ArchiveIsSound
          /\ Pack!KeptStays
    /\ which = "ports" =>
          /\ Port!TypeOK
          /\ Port!SuccessIsWhole

\* Backups are made when they are due, and keep what they should.  sync.rs: a daily job runs
\* at most once a day (OncePerDay), an hour in which a tick began and ended had its jobs
\* (HourIsServed), and a job is late only behind another of its hour (LateOnlyBehind).
\* cloud.rs: after "Cloud Backup ok" the cloud has every file as the backup found it, but
\* for those that the rclone of a killed agent removed (OkIsBackedUp), and a backup of a new
\* card leaves the saves in the cloud alone (KeepsCloud).
BackupsKeep ==
    /\ [](which = "scheduler" => Sched!TypeOK /\ Sched!OncePerDay /\ Sched!HourIsServed /\ Sched!LateOnlyBehind)
    /\ [](which = "mirror" => Mirror!TypeOK /\ Mirror!OkIsBackedUp)
    /\ [][which = "mirror" => Mirror!KeepsCloud]_all

\* Screens show what keys act on.  viewer.rs: no redraw and no snapshot slices backwards
\* (NeverPanics), and as long as no line is wrapped a match that was jumped to is on the
\* screen (MatchShown) and page by page no line goes by unseen (PageFollows).  tui.rs: the
\* catalog is there whenever the ports are on the screen (MenuNeverPanics), and Enter
\* installs the port whose row is highlighted (InstallShown).
ScreensAgree ==
    /\ [](which = "viewer" => View!TypeOK /\ View!NeverPanics /\ View!MatchShown)
    /\ [](which = "menu" => Menu!TypeOK /\ Menu!MenuNeverPanics)
    /\ [][which = "viewer" => View!PageFollows]_all
    /\ [][which = "menu" => Menu!InstallShown]_all
=============================================================================
