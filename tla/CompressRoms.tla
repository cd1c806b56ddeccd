---------------------------- MODULE CompressRoms ----------------------------
(***************************************************************************)
(* Compressing disc images: cmd_compress_roms in                           *)
(* playora-agent/src/compress.rs and the external tools it runs (chdman,   *)
(* maxcso, dolphin-tool).                                                  *)
(*                                                                         *)
(* A source is a sheet (.cue, .gdi) that names track files, or an image    *)
(* without tracks.  Sources with the same stem in the same folder share a  *)
(* target.  The command works on a list of the sources it found when it    *)
(* started, in any order, and may be killed between any two file           *)
(* operations.                                                             *)
(***************************************************************************)
EXTENDS Naturals

CONSTANTS
    Sources, Tracks, Targets,
    TracksOf,       \* the track files a source names
    TargetOf,       \* path.with_extension(target_ext)
    None,           \* content of a target that does not exist, or no source
    Refuses,        \* tools like chdman do not overwrite a .part that is there
    MaxFaults

\* Tracks are not shared by two sources (see the README).
CompressAssumption ==
    /\ TracksOf \in [Sources -> SUBSET Tracks]
    /\ TargetOf \in [Sources -> Targets]
    /\ \A s, t \in Sources : s # t => TracksOf[s] \intersect TracksOf[t] = {}
    /\ None \notin Sources
    /\ Refuses \in BOOLEAN
    /\ MaxFaults \in Nat

VARIABLES
    sources,        \* source files on the card
    tracks,         \* track files on the card
    target,         \* the source whose content a target holds, or None
    part,           \* .part files
    pc,
    list,           \* sources still to be looked at
    current,        \* the source being converted
    faults

vars == <<sources, tracks, target, part, pc, list, current, faults>>

Init ==
    /\ sources = Sources
    /\ tracks = Tracks
    /\ target = [t \in Targets |-> None]
    /\ part = {}
    /\ pc = "idle"
    /\ list = {}
    /\ current = None
    /\ faults = 0

\* WalkDir over the system's folder
Begin ==
    /\ pc = "idle"
    /\ pc' = "scan"
    /\ list' = sources
    /\ UNCHANGED <<sources, tracks, target, part, current, faults>>

\* Mutant: what is there is converted again.
NeverThere(s) == FALSE

\* target.exists()
TargetExists(s) == target[TargetOf[s]] # None

Skip(s) ==
    /\ pc = "scan" /\ s \in list
    /\ TargetExists(s)
    /\ list' = list \ {s}
    /\ UNCHANGED <<sources, tracks, target, part, pc, current, faults>>

\* The tool is started; it opens its output unless it refuses to.
Start(s) ==
    /\ pc = "scan" /\ s \in list
    /\ ~TargetExists(s)
    /\ list' = list \ {s}
    /\ current' = s
    /\ IF Refuses /\ TargetOf[s] \in part
       THEN pc' = "failed" /\ UNCHANGED part
       ELSE pc' = "convert" /\ part' = part \union {TargetOf[s]}
    /\ UNCHANGED <<sources, tracks, target, faults>>

\* The tool cannot be started: the next source.
SpawnFails(s) ==
    /\ faults < MaxFaults
    /\ pc = "scan" /\ s \in list
    /\ ~TargetExists(s)
    /\ list' = list \ {s}
    /\ faults' = faults + 1
    /\ UNCHANGED <<sources, tracks, target, part, pc, current>>

Whole(s) == s \in sources /\ TracksOf[s] \subseteq tracks

\* The tool reads all of the source and succeeds.
Convert ==
    /\ pc = "convert"
    /\ Whole(current)
    /\ pc' = "rename"
    /\ UNCHANGED <<sources, tracks, target, part, list, current, faults>>

\* It exits with an error: the source is not whole, or the card is full.
ConvertFails ==
    /\ pc = "convert"
    /\ \/ ~Whole(current) /\ UNCHANGED faults
       \/ faults < MaxFaults /\ faults' = faults + 1
    /\ pc' = "failed"
    /\ UNCHANGED <<sources, tracks, target, part, list, current>>

\* Mutant: what a failed tool has written stays.
LeavesPart == part

\* remove_file(&out_tmp) where the tool failed
WithoutPart == part \ {TargetOf[current]}

CleanUp ==
    /\ pc = "failed"
    /\ part' = WithoutPart
    /\ pc' = "scan"
    /\ current' = None
    /\ UNCHANGED <<sources, tracks, target, list, faults>>

Rename ==
    /\ pc = "rename"
    /\ target' = [target EXCEPT ![TargetOf[current]] = current]
    /\ part' = part \ {TargetOf[current]}
    /\ pc' = "delete"
    /\ UNCHANGED <<sources, tracks, list, current, faults>>

\* Mutant: everything with the same stem goes.
SameStem == {t \in Tracks : \E s \in Sources :
                 TargetOf[s] = TargetOf[current] /\ t \in TracksOf[s]}

\* parse_track_files reads the sheet, which is deleted last.
TracksToDelete == TracksOf[current]

DeleteTrack(t) ==
    /\ pc = "delete"
    /\ t \in tracks \intersect TracksToDelete
    /\ tracks' = tracks \ {t}
    /\ UNCHANGED <<sources, target, part, pc, list, current, faults>>

DeleteSource ==
    /\ pc = "delete"
    /\ tracks \intersect TracksToDelete = {}
    /\ sources' = sources \ {current}
    /\ pc' = "scan"
    /\ current' = None
    /\ UNCHANGED <<tracks, target, part, list, faults>>

End ==
    /\ pc = "scan" /\ list = {}
    /\ pc' = "idle"
    /\ UNCHANGED <<sources, tracks, target, part, list, current, faults>>

\* Killed, or switched off; a rename that fails ends the command too.
Kill ==
    /\ faults < MaxFaults
    /\ pc # "idle"
    /\ pc' = "idle"
    /\ list' = {}
    /\ current' = None
    /\ faults' = faults + 1
    /\ UNCHANGED <<sources, tracks, target, part>>

Step ==
    \/ \E s \in list : Skip(s) \/ Start(s)
    \/ Convert \/ CleanUp \/ Rename \/ DeleteSource \/ End
    \/ (\E t \in tracks : DeleteTrack(t))
    \/ ConvertFails

Next == Begin \/ Step \/ Kill \/ \E s \in list : SpawnFails(s)

Spec == Init /\ [][Next]_vars

\* A command that has started ends, and the player runs it again.
FairSpec == Spec /\ WF_vars(Begin) /\ WF_vars(Step)

-----------------------------------------------------------------------------
(* Properties *)

\* Every variable has its type; what is being converted has a source, writes
\* to a .part that is there and has no target to overwrite.
TypeOK ==
    /\ sources \in SUBSET Sources
    /\ tracks \in SUBSET Tracks
    /\ target \in [Targets -> Sources \union {None}]
    /\ part \in SUBSET Targets
    /\ pc \in {"idle", "scan", "convert", "failed", "rename", "delete"}
    /\ list \in SUBSET Sources
    /\ current \in Sources \union {None}
    /\ faults \in Nat
    /\ pc \in {"idle", "scan"} <=> current = None
    /\ pc \in {"convert", "rename"} =>
           TargetOf[current] \in part /\ target[TargetOf[current]] = None

Held(s) == \/ Whole(s)
           \/ target[TargetOf[s]] = s

Kept == {s \in Sources : Held(s)}

\* No ROM is lost, wherever a conversion fails or the command is killed: its
\* tracks go only when the target holds it, and whatever there was a whole copy of
\* still has one after every step.
NoRomLost == Kept \subseteq Kept'

\* A leftover .part blocks a conversion once at most: in the end every target
\* is there.
AllThere == \A s \in Sources : TargetExists(s)
AllCompressed == <>[]AllThere
=============================================================================
