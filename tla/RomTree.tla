------------------------------ MODULE RomTree ------------------------------
(***************************************************************************)
(* Extraction, layout repair and cleaning on one card.  Only extraction     *)
(* takes a lock, and only against itself, so the three interleave freely.   *)
(***************************************************************************)
EXTENDS ExtractRoms, RomLayout

CONSTANT
    InitialCards    \* what may be on the card at first

\* What ROMs and scripts are: neither archives, nor junk, nor made by the cleaning
Goods == {c \in Contents : c \notin Archives /\ NameOf[c] \notin Junk \union JunkNames
                           /\ ~\E d \in DOMAIN Unix : Unix[d] = c}

\* SYSTEMS names folders of their own, no inbox and no folder the repair leaves out; none of
\* these has a junk name.
ASSUME DirsAssumption ==
    /\ DOMAIN Systems \subseteq Nat
    /\ {Ports, Quarantine} \subseteq Elsewhere /\ Ports # Quarantine
    /\ Inbox \notin Folders \union Elsewhere \union Temps
    /\ Folders \intersect (Elsewhere \union Temps) = {}
    /\ Elsewhere \intersect Temps = {} /\ Temps # {}
    /\ JunkDirs \intersect (Folders \union {Inbox} \union Elsewhere \union Temps) = {}
    /\ Under \in [JunkDirs -> Folders \union {Inbox} \union Elsewhere]
    /\ Aside \subseteq JunkDirs /\ \A d \in Aside : Under[d] = Quarantine

\* What is in an archive has a path of its own there, and archives in archives hold none.
\* SYSTEMS lists no extension of an archive but zip and 7z, which are skipped, and what is
\* called like junk is none.  A script without carriage returns has none to take out.
ASSUME ContentsAssumption ==
    /\ SubOf \in [Contents -> 0..MaxDup]
    /\ \A a \in Archives :
          /\ ~Known(NameOf[a]) /\ NameOf[a] \notin Junk \union JunkNames
          /\ \A c \in Holds[a] : \A d \in Holds[c] : Holds[d] = {}
          /\ \A c, d \in Holds[a] : NameOf[c] = NameOf[d] /\ SubOf[c] = SubOf[d] => c = d
    /\ \A c \in DOMAIN Unix :
          /\ {c, Unix[c]} \subseteq Contents \ Archives
          /\ Unix[c] \notin DOMAIN Unix /\ NameOf[Unix[c]] = NameOf[c]

ASSUME InitialAssumption ==
    \A card \in InitialCards :
       /\ card \subseteq Files
       /\ \A f, g \in card : PathOf(f) = PathOf(g) => f = g
       /\ \A f \in card : f.name = NameOf[f.what]

VARIABLES
    owned,          \* history: the ROMs and scripts that were on the card at
                    \* first, loose or packed
    raced           \* history: contents that came to the free name between
                    \* the repair's look at it and its rename

vars == <<files, extractVars, repairVars, cleanVars, owned, raced>>

Init ==
    /\ files \in InitialCards
    /\ owned = Goods \intersect Safe
    /\ ExtractInit /\ RepairInit /\ CleanInit
    /\ raced = {}

Arrived == {f.what : f \in {g \in files' \ files : PathOf(g) \in target}}

Extraction ==
    /\ ExtractNext
    /\ raced' = raced \union Arrived
    /\ UNCHANGED <<repairVars, cleanVars, owned>>

Repair == RepairNext /\ UNCHANGED <<extractVars, cleanVars, owned, raced>>

Cleaning == CleanNext /\ UNCHANGED <<extractVars, repairVars, owned, raced>>

Next == Extraction \/ Repair \/ Cleaning

Spec == Init /\ [][Next]_vars

\* A command that has started ends, and the player extracts again while there
\* is something to route.
FairSpec ==
    /\ Spec
    /\ WF_vars(ExtractStep /\ raced' = raced \union Arrived
                 /\ UNCHANGED <<repairVars, cleanVars, owned>>)
    /\ WF_vars(In(Inbox) # {} /\ ExtractBegin /\ raced' = raced \union Arrived
                 /\ UNCHANGED <<repairVars, cleanVars, owned>>)

-----------------------------------------------------------------------------
(* Properties *)

\* Every variable has its type, no path has two files, and only a command that
\* runs has work left.
TypeOK ==
    /\ files \subseteq Files
    /\ \A f, g \in files : PathOf(f) = PathOf(g) => f = g
    /\ epc \in {"idle", "next", "unpack", "route", "remove"}
    /\ rpc \in {"idle", "next", "move"}
    /\ cpc \in {"idle", "junk", "scripts", "write"}
    /\ todo \union queue \union archive \subseteq Files
    /\ packed \subseteq Contents
    /\ temp \in Temps
    /\ plan \union source \union target \subseteq Paths
    /\ heaps \subseteq Heaps /\ junk \union scripts \subseteq Paths
    /\ replaced \union dropped \union crossed \union cut \union swept \union raced \subseteq Contents
    /\ owned \subseteq Goods
    /\ faults \in 0..MaxFaults
    /\ epc = "idle" => todo = {} /\ archive = {} /\ packed = {} /\ queue = {}

\* There, or there without carriage returns, or read and about to be written
Kept(c) ==
    \/ c \in Safe
    \/ c \in DOMAIN Unix /\ Unix[c] \in Safe
    \/ cpc = "write" /\ \E f \in files : f.what = c /\ PathOf(f) \in scripts

\* No ROM and no script leaves the card, packed or not, by any interleaving and
\* wherever a command is killed, except that extraction overwrites a file of the
\* same name, removes what it has no folder for and loses what it cannot copy,
\* that the repair overwrites what came in between, that a script is cut off
\* while it is rewritten, and that the cleaning removes a directory called like
\* junk with all that is in it.
NothingLost ==
    \A c \in owned : Kept(c) \/ c \in replaced \union dropped \union crossed \union cut \union swept

\* repair.rs:3: "Never overwrites existing files (renames with `.dup-N` on
\* collision)": what it does overwrite came to the free name after it had
\* looked.
OverwritesOnlyRaced == crossed \subseteq raced

\* Every ROM that has a folder, loose or packed, is in it in the end, however
\* often extraction is killed or a tool fails, unless it was lost as above or is
\* in a directory called like junk, where extraction does not look.
EverythingRouted ==
    <>[](\A c \in owned : Known(NameOf[c]) =>
            \/ c \in replaced \union dropped \union crossed \union swept
            \/ \E f \in files : f.what = c /\ f.whole /\ f.dir \in Folders \union JunkDirs)

\* clean.rs:5: "Never touches ROMs, BIOS, saves, or gamelist files."
NeverTouchesRoms == swept \intersect Goods = {}

\* extract.rs:110: "Ambiguous (zip/7z) -> stays in temp + warning."
AmbiguousStays == \A c \in Contents : ExtOf[NameOf[c]] \in Skipped => c \notin dropped

\* repair.rs:84-85: "Only consider extensions that uniquely map to one folder;
\* skip ambiguous ones."
UniqueOnly ==
    [][RepairMove => \A f \in files \ files' : f.dir \in Folders =>
          \A i, j \in DOMAIN Systems :
             ExtOf[f.name] \in Systems[i].exts \intersect Systems[j].exts => i = j]_vars
=============================================================================
