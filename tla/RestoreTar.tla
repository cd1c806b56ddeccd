----------------------------- MODULE RestoreTar -----------------------------
(***************************************************************************)
(* Restoring a backup: cmd in playora-agent/src/restore.rs and the tar it  *)
(* runs.  tar unpacks the files in the order of the archive and leaves the *)
(* ones that exist alone; a file it is writing when it is killed, or when  *)
(* the card is full, stays behind cut off.  Files have one size here, which *)
(* is the unit of the free space.                                          *)
(***************************************************************************)
EXTENDS Naturals, FiniteSets

CONSTANTS
    NumFiles,       \* files in the archive, in order
    Room,           \* files that fit on the card next to the archive
    KeepTar,        \* --keep-tar
    MaxFaults

RestoreAssumption ==
    {NumFiles, Room, MaxFaults} \subseteq Nat /\ KeepTar \in BOOLEAN

Files == 1..NumFiles

VARIABLES
    disk,           \* what is under /roms at each path: nothing, a part of the
                    \* file, all of it, or another file
    tar,            \* the archive is there
    pc,
    next,           \* the entry tar is at
    failed,         \* tar could not write some file
    hit,            \* history: files that were being written at a fault
    faults

vars == <<disk, tar, pc, next, failed, hit, faults>>

Init ==
    /\ disk \in [Files -> {"none", "all", "other"}]
    /\ tar = TRUE
    /\ pc = "idle"
    /\ next = 1
    /\ failed = FALSE
    /\ hit = {}
    /\ faults = 0

\* Mutant: one present file is enough.
SomePresent == \E f \in Files : disk[f] = "all"

\* to_extract == 0: path and size of every file are as in the listing.
AllPresent == \A f \in Files : disk[f] = "all"

Occupied == Cardinality({f \in Files : disk[f] # "none"})

\* free_bytes < total: the whole archive counts, also what is there already.
EnoughSpace == Room >= Occupied + NumFiles

\* cmd without an archive, or without the space for one
Refuse ==
    /\ pc \in {"idle", "done", "error"}
    /\ ~(tar /\ EnoughSpace)
    /\ pc' = "error"
    /\ UNCHANGED <<disk, tar, next, failed, hit, faults>>

\* cmd up to the comparison with the listing: with nothing to extract it ends
\* well and leaves the archive.
Begin ==
    /\ pc \in {"idle", "done", "error"}
    /\ tar /\ EnoughSpace
    /\ pc' = IF AllPresent THEN "done" ELSE "extract"
    /\ next' = 1
    /\ failed' = FALSE
    /\ UNCHANGED <<disk, tar, hit, faults>>

\* Mutant: one file too far.
OneFurther(f) == f + 2

Following(f) == f + 1

\* --skip-old-files
Skip ==
    /\ pc = "extract" /\ next \in Files
    /\ disk[next] # "none"
    /\ next' = Following(next)
    /\ UNCHANGED <<disk, tar, pc, failed, hit, faults>>

Create ==
    /\ pc = "extract" /\ next \in Files
    /\ disk[next] = "none"
    /\ disk' = [disk EXCEPT ![next] = "part"]
    /\ pc' = "write"
    /\ UNCHANGED <<tar, next, failed, hit, faults>>

Write ==
    /\ pc = "write"
    /\ disk' = [disk EXCEPT ![next] = "all"]
    /\ pc' = "extract"
    /\ next' = Following(next)
    /\ UNCHANGED <<tar, failed, hit, faults>>

\* An I/O error, or others filled the card: the margin of 1 GB is printed and
\* not required.  tar goes on with the next file and fails when it exits.
WriteFails ==
    /\ faults < MaxFaults
    /\ pc = "write"
    /\ pc' = "extract"
    /\ next' = Following(next)
    /\ failed' = TRUE
    /\ hit' = hit \union {next}
    /\ faults' = faults + 1
    /\ UNCHANGED <<disk, tar>>

\* The exit status decides whether the archive goes.
Finish ==
    /\ pc = "extract" /\ next \notin Files
    /\ pc' = IF failed THEN "error" ELSE "remove"
    /\ UNCHANGED <<disk, tar, next, failed, hit, faults>>

\* Mutant: only exit codes are failures.
SignalIsSuccess == "remove"

\* A signal is no exit code: unwrap_or(-1) is neither 143 nor 137, and then
\* !status.success().
AfterSignal == "error"

Cut == IF pc = "write" THEN hit \union {next} ELSE hit

\* tar alone is killed.
TarKilled ==
    /\ faults < MaxFaults
    /\ pc \in {"extract", "write"}
    /\ pc' = AfterSignal
    /\ hit' = Cut
    /\ faults' = faults + 1
    /\ UNCHANGED <<disk, tar, next, failed>>

Remove ==
    /\ pc = "remove"
    /\ tar' = KeepTar
    /\ pc' = "done"
    /\ UNCHANGED <<disk, next, failed, hit, faults>>

\* The agent is killed, or the device switched off: tar dies with its reader.
Kill ==
    /\ faults < MaxFaults
    /\ pc \in {"extract", "write", "remove"}
    /\ pc' = "idle"
    /\ hit' = Cut
    /\ faults' = faults + 1
    /\ UNCHANGED <<disk, tar, next, failed>>

Next ==
    \/ Refuse \/ Begin \/ Skip \/ Create \/ Write \/ Finish \/ Remove
    \/ WriteFails \/ TarKilled \/ Kill

Spec == Init /\ [][Next]_vars

\* A command that has started ends; the player starts it again after a kill.
Work == Skip \/ Create \/ Write \/ Finish \/ Remove
Again == pc \in {"idle", "error"} /\ Begin
FairSpec == Spec /\ WF_vars(Work) /\ WF_vars(Again)

-----------------------------------------------------------------------------
(* Properties *)

\* Every variable has its type; a file is cut off only while tar writes it or
\* after a fault.
TypeOK ==
    /\ disk \in [Files -> {"none", "part", "all", "other"}]
    /\ tar \in BOOLEAN
    /\ pc \in {"idle", "extract", "write", "remove", "done", "error"}
    /\ next \in 1..NumFiles + 1
    /\ failed \in BOOLEAN
    /\ hit \in SUBSET Files
    /\ faults \in Nat
    /\ pc = "write" => next \in Files /\ disk[next] = "part"
    /\ \A f \in Files : disk[f] = "part" => f \in hit \/ (pc = "write" /\ f = next)

\* The archive goes only when every file no fault fell into is complete under
\* /roms, however often the restore was cut off and started again; a file that
\* was there before under its path is left alone.
UnhitRestored == ~tar => \A f \in Files \ hit : disk[f] \in {"all", "other"}

\* With room for the archive and what is there, restores end with every file
\* there, at least in part.
AllThere == \A f \in Files : disk[f] # "none"
AllThereInTheEnd == <>[]AllThere

\* restore.rs:181-182: "RESUMABLE: tar killed mid-extract", "Run again --
\* already-extracted files will be skipped.": what was cut off is extracted.
Resumable == ~tar => \A f \in Files : disk[f] # "part"

\* restore.rs:182: "Run again -- already-extracted files will be skipped.": a
\* restore that was cut off after its first file is let start again.
RunAgain ==
    pc \in {"idle", "error"} /\ tar /\ next > 1 /\ ~AllPresent => EnoughSpace

\* restore.rs:7: "this function extracts into /roms/ and removes the tar to free
\* space"
TarRemoved == pc = "done" /\ ~KeepTar => ~tar
=============================================================================
