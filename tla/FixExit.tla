------------------------------ MODULE FixExit ------------------------------
(***************************************************************************)
(* fix-exit-game (playora-agent/src/fix_exit.rs) on one retroarch.cfg: the  *)
(* settings it wants, the backup it takes, --restore, and RetroArch, which  *)
(* reads the file when it starts and writes what it has in memory when it   *)
(* ends.  A file is the sequence of its `key = value` lines; one that was   *)
(* cut off is a prefix.                                                     *)
(***************************************************************************)
EXTENDS Naturals, Sequences, FiniteSets, SequencesExt

CONSTANTS
    Keys,           \* keys that occur
    Settings,       \* SETTINGS: the keys of the fix
    Values,
    Want,           \* the value the fix wants
    MaxStamp,       \* seconds in which something happens
    MaxChanges,     \* times the player changes a setting
    MaxFaults

FixAssumption ==
    /\ Settings \subseteq Keys /\ IsFiniteSet(Settings) /\ Want \in Values
    /\ {MaxStamp, MaxChanges, MaxFaults} \subseteq Nat /\ MaxStamp # 0

VARIABLES
    cfg,            \* retroarch.cfg: [lines, whole]
    backups,        \* of each second, the backup taken in it
    now,
    pc,
    held,           \* the content that was read
    running,        \* RetroArch has been started
    memory,         \* what RetroArch will write
    fixed,          \* history: a fix was completed while no RetroArch ran,
                    \* and nobody has chosen anything else since
    crossed,        \* history: RetroArch wrote since the backup was taken
    changes, faults

vars == <<cfg, backups, now, pc, held, running, memory, fixed, crossed, changes, faults>>

Line == [key : Keys, value : Values]

Lines(n) == UNION {[1..k -> Line] : k \in 0..n}

Whole(lines) == [lines |-> lines, whole |-> TRUE]

Cut(lines) == {[lines |-> SubSeq(lines, 1, n), whole |-> FALSE] : n \in 0..Len(lines)}

\* parse_settings: the last line of a key counts.
Parsed(lines) ==
    [k \in {lines[i].key : i \in DOMAIN lines} |->
        LET at == {i \in DOMAIN lines : lines[i].key = k}
        IN  lines[CHOOSE i \in at : \A j \in at : j <= i].value]

ToChange(lines) ==
    {k \in Settings : k \in DOMAIN Parsed(lines) => Parsed(lines)[k] # Want}

\* Mutant: one line of each key is enough.
FirstOnly(lines, keys) ==
    LET first(i) == \A j \in 1..(i - 1) : lines[j].key # lines[i].key
        missing == SetToSeq(keys \ DOMAIN Parsed(lines))
    IN  [i \in DOMAIN lines |-> IF lines[i].key \in keys /\ first(i)
                                THEN [lines[i] EXCEPT !.value = Want] ELSE lines[i]]
            \o [i \in DOMAIN missing |-> [key |-> missing[i], value |-> Want]]

\* Mutant: the key is appended, with a line or without.
AppendsAll(lines, keys) ==
    lines \o [i \in 1..Cardinality(keys) |-> [key |-> SetToSeq(keys)[i], value |-> Want]]

\* apply_patches: every line of a key is replaced, keys without a line are
\* appended.
Patched(lines, keys) ==
    LET missing == SetToSeq(keys \ DOMAIN Parsed(lines))
    IN  [i \in DOMAIN lines |-> IF lines[i].key \in keys
                                THEN [lines[i] EXCEPT !.value = Want] ELSE lines[i]]
            \o [i \in DOMAIN missing |-> [key |-> missing[i], value |-> Want]]

Init ==
    /\ \E lines \in Lines(2) : cfg = Whole(lines)
    /\ backups = <<>>
    /\ now = 1
    /\ pc = "idle" /\ held = <<>>
    /\ running = FALSE /\ memory = <<>>
    /\ fixed = FALSE /\ crossed = FALSE
    /\ changes = 0 /\ faults = 0

Tick == now' \in {now, now + 1} \intersect 1..MaxStamp

\* The file is read; with nothing to change, or without --apply, that is all.
Apply ==
    /\ pc = "idle" /\ Tick
    /\ IF ToChange(cfg.lines) = {}
       THEN UNCHANGED <<pc, held>>
       ELSE pc' = "backup" /\ held' = cfg.lines
    /\ UNCHANGED <<cfg, backups, running, memory, fixed, crossed, changes, faults>>

SetBackup(file) ==
    backups' = [s \in DOMAIN backups \union {now} |->
                    IF s = now THEN file ELSE backups[s]]

\* Mutant: what was read is what is backed up.
AsRead == Whole(held)

Copied == cfg

\* make_backup: a copy of the file as it is now; a backup of the same second
\* is overwritten.
MakeBackup ==
    /\ pc = "backup"
    /\ SetBackup(Copied)
    /\ crossed' = FALSE
    /\ pc' = "write"
    /\ UNCHANGED <<cfg, now, held, running, memory, fixed, changes, faults>>

\* atomic_write of what was read, patched, and the change log
AtomicWrite ==
    /\ pc = "write"
    /\ cfg' = Whole(Patched(held, ToChange(held)))
    /\ fixed' = ~running
    /\ pc' = "idle" /\ held' = <<>>
    /\ UNCHANGED <<backups, now, running, memory, crossed, changes, faults>>

Latest == CHOOSE s \in DOMAIN backups : \A t \in DOMAIN backups : t <= s

\* restore_latest_backup: fs::copy empties the file first.
Restore ==
    /\ pc = "idle" /\ DOMAIN backups # {}
    /\ cfg' = [lines |-> <<>>, whole |-> FALSE]
    /\ fixed' = FALSE
    /\ pc' = "restore"
    /\ UNCHANGED <<backups, now, held, running, memory, crossed, changes, faults>>

CopyBack ==
    /\ pc = "restore"
    /\ cfg' = backups[Latest]
    /\ fixed' = FALSE
    /\ pc' = "idle"
    /\ UNCHANGED <<backups, now, held, running, memory, crossed, changes, faults>>

\* Killed while it copies, it leaves a part of the copy.
Kill ==
    /\ pc # "idle" /\ faults < MaxFaults
    /\ CASE pc = "backup" -> (\E file \in Cut(cfg.lines) : SetBackup(file)) /\ UNCHANGED cfg
         [] pc = "restore" -> cfg' \in Cut(backups[Latest].lines) /\ UNCHANGED backups
         [] OTHER -> UNCHANGED <<cfg, backups>>
    /\ pc' = "idle" /\ held' = <<>>
    /\ faults' = faults + 1
    /\ UNCHANGED <<now, running, memory, fixed, crossed, changes>>

Launch ==
    /\ ~running
    /\ running' = TRUE /\ memory' = cfg.lines
    /\ UNCHANGED <<cfg, backups, now, pc, held, fixed, crossed, changes, faults>>

Menu ==
    /\ running /\ changes < MaxChanges
    /\ \E i \in DOMAIN memory, v \in Values :
          /\ memory' = [memory EXCEPT ![i].value = v]
          /\ fixed' = (fixed /\ (memory[i].key \in Settings => v = Want))
    /\ changes' = changes + 1
    /\ UNCHANGED <<cfg, backups, now, pc, held, running, crossed, faults>>

\* config_save_on_exit
Quit ==
    /\ running
    /\ cfg' = Whole(memory)
    /\ running' = FALSE /\ memory' = <<>>
    /\ crossed' = TRUE
    /\ UNCHANGED <<backups, now, pc, held, fixed, changes, faults>>

Next ==
    \/ Apply \/ MakeBackup \/ AtomicWrite \/ Restore \/ CopyBack \/ Kill
    \/ Launch \/ Menu \/ Quit

Spec == Init /\ [][Next]_vars

-----------------------------------------------------------------------------
(* Properties *)

\* Every variable has its type.
TypeOK ==
    /\ cfg.lines \in Lines(2 + Cardinality(Settings)) /\ cfg.whole \in BOOLEAN
    /\ DOMAIN backups \subseteq 1..MaxStamp
    /\ now \in 1..MaxStamp
    /\ pc \in {"idle", "backup", "write", "restore"}
    /\ running \in BOOLEAN /\ fixed \in BOOLEAN /\ crossed \in BOOLEAN
    /\ ~running => memory = <<>>
    /\ changes \in 0..MaxChanges /\ faults \in 0..MaxFaults

\* Whatever the file looks like, with keys missing or twice in it, the patched
\* file reads as wanted, other keys read as before, and there is nothing left to
\* change.
PatchIsRight ==
    LET before == Parsed(cfg.lines)
        lines == Patched(cfg.lines, ToChange(cfg.lines))
    IN  /\ ToChange(lines) = {}
        /\ DOMAIN Parsed(lines) = DOMAIN before \union Settings
        /\ \A k \in DOMAIN before \ Settings : Parsed(lines)[k] = before[k]

\* fix_exit.rs:4-5: "always creating a timestamped backup first": what the fix
\* replaces is in a backup, unless RetroArch wrote it after the backup was taken.
BackedUp == AtomicWrite => crossed \/ \E s \in DOMAIN backups : backups[s] = cfg
BackupFirst == [][BackedUp]_vars

\* A fix that was made while RetroArch did not run survives every later start and
\* exit of RetroArch, until the player asks for something else.
FixSticks == fixed => ToChange(cfg.lines) = {}

\* fix_exit.rs:5: "`--restore` rolls back to the most recent backup": a restore
\* that ends leaves the whole file.
RestoresWhole == [][CopyBack => cfg'.whole]_vars
=============================================================================
