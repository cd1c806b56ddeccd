---------------------------- MODULE ExtractRoms ----------------------------
(***************************************************************************)
(* The card as extraction, layout repair and cleaning see it: the files     *)
(* under /roms, the table that names the folder of an extension, and what   *)
(* the three commands do to a path.  A file is known by what it holds; a    *)
(* file that was cut off while it was written is not whole.                 *)
(* cmd_extract_roms in playora-agent/src/extract.rs: the inbox is listed,   *)
(* loose ROMs are moved to the folder of their extension, archives are      *)
(* unpacked into .extract_<pid> and what they hold is moved file by file.   *)
(* Its lock is taken: one extraction runs at a time.                        *)
(***************************************************************************)
EXTENDS Naturals, Sequences, FiniteSets

CONSTANTS
    Contents,       \* what a file may hold
    Holds,          \* what is packed in it: empty for all but archives
    NameOf,         \* the name a content comes with
    ExtOf,          \* the extension of a name
    Systems,        \* SYSTEMS: a sequence of [folder, exts]
    Skipped,        \* zip and 7z, which several systems use
    Inbox,          \* /roms/_inbox
    Elsewhere,      \* the folders no ROM is routed to: ports, quarantine
    Temps,          \* .extract_<pid> under the inbox
    JunkDirs,       \* directories called __MACOSX or ._*, wherever they are
    MaxDup,         \* names that are tried on a collision
    Bare,           \* .gz, .xz, .bz2 of one file
    SubOf,          \* the directory a packed file is in
    Junk,           \* names that begin with ._ , .DS_Store
    Keep,           \* --keep
    MaxFaults

VARIABLES
    files,          \* [dir, name, dup, what, whole]
    epc,
    todo,           \* files of the listing that are not dealt with
    archive,        \* the archive being unpacked
    packed,         \* what is still to be unpacked
    temp,           \* the directory of this process
    queue,          \* files of temp that are still to be routed
    replaced,       \* history: overwritten by a file of the same name
    dropped,        \* history: removed with temp, or by a failed copy
    faults

-----------------------------------------------------------------------------
(* The card *)

Names == {NameOf[c] : c \in Contents}

Archives == {c \in Contents : Holds[c] # {}}

Folders == {Systems[i].folder : i \in DOMAIN Systems}

Dirs == Folders \union {Inbox} \union Elsewhere \union Temps \union JunkDirs

ASSUME FilesAssumption ==
    /\ Holds \in [Contents -> SUBSET Contents]
    /\ MaxDup \in Nat

ASSUME FaultsAssumption == MaxFaults \in Nat

Paths == [dir : Dirs, name : Names, dup : 0..MaxDup]

Files == [dir : Dirs, name : Names, dup : 0..MaxDup,
          what : Contents, whole : BOOLEAN]

Known(name) ==
    /\ ExtOf[name] \notin Skipped
    /\ \E i \in DOMAIN Systems : ExtOf[name] \in Systems[i].exts

\* ext_to_folder: the first system that lists the extension wins.
FolderOf(name) ==
    Systems[CHOOSE i \in DOMAIN Systems :
              /\ ExtOf[name] \in Systems[i].exts
              /\ \A j \in DOMAIN Systems :
                    ExtOf[name] \in Systems[j].exts => i <= j].folder

Path(d, n, k) == [dir |-> d, name |-> n, dup |-> k]

PathOf(f) == Path(f.dir, f.name, f.dup)

At(p) == {f \in files : PathOf(f) = p}

In(d) == {f \in files : f.dir = d}

Present(p) == At(p) # {}

\* f under the path p
Moved(f, p) == [f EXCEPT !.dir = p.dir, !.name = p.name, !.dup = p.dup]

\* Mutant: two files at one path.
Beside(f, p) == (files \ {f}) \union {Moved(f, p)}

\* rename(2): what was at the new path is gone.
Renamed(f, p) == (files \ ({f} \union At(p))) \union {Moved(f, p)}

\* A content and what is packed in it, two archives deep at most
Inner(c) == {c} \union Holds[c] \union UNION {Holds[d] : d \in Holds[c]}

\* What is whole somewhere, or packed in a whole archive
Safe == UNION {Inner(f.what) : f \in {g \in files : g.whole}}

-----------------------------------------------------------------------------
(* Extraction *)

extractVars == <<epc, todo, archive, packed, temp, queue, replaced, dropped, faults>>

ExtractInit ==
    /\ epc = "idle"
    /\ todo = {} /\ archive = {} /\ packed = {} /\ queue = {}
    /\ temp = CHOOSE t \in Temps : TRUE
    /\ replaced = {} /\ dropped = {}
    /\ faults = 0

Fault == faults < MaxFaults /\ faults' = faults + 1

\* A directory of a killed extraction is not used again.
Unused == {t \in Temps : In(t) = {}}

ExtractBegin ==
    /\ epc = "idle" /\ Unused # {}
    /\ temp' = CHOOSE t \in Unused : TRUE
    /\ todo' = In(Inbox)
    /\ epc' = "next"
    /\ UNCHANGED <<files, archive, packed, queue, replaced, dropped, faults>>

Target(f) == Path(FolderOf(f.name), f.name, 0)

Overwritten(f, p) == {g.what : g \in {h \in At(p) \ {f} : h.whole}}

\* rename fails when repair was faster.
RouteLoose(f) ==
    /\ epc = "next" /\ f \in todo /\ f.what \notin Archives
    /\ todo' = todo \ {f}
    /\ IF Known(f.name) /\ f \in files
       THEN /\ files' = Renamed(f, Target(f))
            /\ replaced' = replaced \union Overwritten(f, Target(f))
       ELSE UNCHANGED <<files, replaced>>
    /\ UNCHANGED <<epc, archive, packed, temp, queue, dropped, faults>>

\* Nobody but the tool looks whether the archive is whole, or there.
Open(f) ==
    /\ epc = "next" /\ f \in todo /\ f.what \in Archives
    /\ todo' = todo \ {f}
    /\ IF f \in files /\ f.whole
       THEN /\ archive' = {f}
            /\ packed' = Holds[f.what]
            /\ epc' = "unpack"
       ELSE UNCHANGED <<archive, packed, epc>>
    /\ UNCHANGED <<files, temp, queue, replaced, dropped, faults>>

\* cmd: gunzip -k and its kind write next to the source and do not replace a
\* file; the others write into temp.
Unpacked(c, whole) ==
    LET p == IF archive \subseteq {f \in files : f.what \in Bare}
             THEN Path(Inbox, NameOf[c], 0)
             ELSE Path(temp, NameOf[c], SubOf[c])
    IN  [dir |-> p.dir, name |-> p.name, dup |-> p.dup, what |-> c, whole |-> whole]

InTheWay(c) == archive \subseteq {f \in files : f.what \in Bare}
               /\ Present(Path(Inbox, NameOf[c], 0))

\* The archive has an order of its own.
First(c) == c = CHOOSE d \in packed : TRUE

Unpack(c) ==
    /\ First(c)
    /\ epc = "unpack" /\ c \in packed /\ ~InTheWay(c)
    /\ files' = files \union {Unpacked(c, TRUE)}
    /\ packed' = packed \ {c}
    /\ UNCHANGED <<epc, todo, archive, temp, queue, replaced, dropped, faults>>

\* Mutant: the archive is spent also when the tool failed.
AfterFailure == "remove"

\* extract fail: continue
AfterError == "next"

\* The tool ends with an error, in the middle of c: temp goes, the archive
\* stays.
ToolFails(c) ==
    /\ First(c)
    /\ epc = "unpack" /\ c \in packed
    /\ IF InTheWay(c) THEN UNCHANGED faults ELSE Fault
    /\ files' = files \ In(temp)
    /\ packed' = {} /\ epc' = AfterError
    /\ archive' = IF AfterError = "next" THEN {} ELSE archive
    /\ UNCHANGED <<todo, temp, queue, replaced, dropped>>

Walk ==
    /\ epc = "unpack" /\ packed = {}
    /\ queue' = In(temp)
    /\ epc' = "route"
    /\ UNCHANGED <<files, todo, archive, packed, temp, replaced, dropped, faults>>

\* walk_and_route: junk goes, what has a folder is moved there, whatever is
\* there already; the rest stays in temp.
Route(f) ==
    /\ epc = "route" /\ f \in queue
    /\ queue' = queue \ {f}
    /\ IF f \notin files THEN UNCHANGED <<files, replaced>>
       ELSE IF f.name \in Junk
       THEN files' = files \ {f} /\ UNCHANGED replaced
       ELSE IF Known(f.name)
       THEN /\ files' = Renamed(f, Target(f))
            /\ replaced' = replaced \union Overwritten(f, Target(f))
       ELSE UNCHANGED <<files, replaced>>
    /\ UNCHANGED <<epc, todo, archive, packed, temp, dropped, faults>>

\* rename fails, copy fails half-way (the card is full), and the source is
\* removed all the same.
CopyFails(f) ==
    /\ epc = "route" /\ f \in queue \intersect files
    /\ f.name \notin Junk /\ Known(f.name)
    /\ Fault
    /\ queue' = queue \ {f}
    /\ files' = (files \ ({f} \union At(Target(f))))
                    \union {[Moved(f, Target(f)) EXCEPT !.whole = FALSE]}
    /\ replaced' = replaced \union Overwritten(f, Target(f))
    /\ dropped' = dropped \union {f.what}
    /\ UNCHANGED <<epc, todo, archive, packed, temp>>

\* What had no folder goes with temp.
RemoveTemp ==
    /\ epc = "route" /\ queue = {}
    /\ files' = files \ In(temp)
    /\ dropped' = dropped \union UNION {Inner(f.what) : f \in In(temp)}
    /\ epc' = "remove"
    /\ UNCHANGED <<todo, archive, packed, temp, queue, replaced, faults>>

RemoveArchive ==
    /\ epc = "remove"
    /\ files' = IF Keep THEN files ELSE files \ archive
    /\ archive' = {}
    /\ epc' = "next"
    /\ UNCHANGED <<todo, packed, temp, queue, replaced, dropped, faults>>

ExtractEnd ==
    /\ epc = "next" /\ todo = {}
    /\ epc' = "idle"
    /\ UNCHANGED <<files, todo, archive, packed, temp, queue, replaced, dropped, faults>>

\* Killed, with the tool; nobody removes temp any more.
ExtractKill ==
    /\ epc # "idle" /\ Fault
    /\ \/ UNCHANGED files
       \/ \E c \in packed : First(c) /\ ~InTheWay(c)
                           /\ files' = files \union {Unpacked(c, FALSE)}
    /\ epc' = "idle"
    /\ todo' = {} /\ archive' = {} /\ packed' = {} /\ queue' = {}
    /\ UNCHANGED <<temp, replaced, dropped>>

ExtractStep ==
    \/ \E f \in todo : RouteLoose(f) \/ Open(f)
    \/ \E c \in packed : Unpack(c) \/ (InTheWay(c) /\ ToolFails(c))
    \/ \E f \in queue : Route(f)
    \/ Walk \/ RemoveTemp \/ RemoveArchive \/ ExtractEnd

ExtractNext ==
    \/ ExtractBegin \/ ExtractStep \/ ExtractKill
    \/ \E c \in packed : ToolFails(c)
    \/ \E f \in queue : CopyFails(f)
=============================================================================
