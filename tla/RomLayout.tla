----------------------------- MODULE RomLayout ------------------------------
(***************************************************************************)
(* The two commands that tidy up the card with --apply; neither takes a     *)
(* lock.                                                                    *)
(* cmd_repair in playora-agent/src/repair.rs: a plan of moves is made from  *)
(* one walk, then every move looks for a free name and renames.  Without    *)
(* --apply only the plan is printed.                                        *)
(* cmd_clean in playora-agent/src/clean.rs: one walk lists the junk and the *)
(* scripts with carriage returns; the junk, a directory with such a name    *)
(* with all that is in it, is removed or moved to the quarantine, and the   *)
(* scripts are rewritten in place.                                          *)
(***************************************************************************)
EXTENDS ExtractRoms

CONSTANTS
    JunkNames,      \* .DS_Store, thumbs.db, ._*
    Under,          \* the folder each directory of JunkDirs is in
    JunkSubs,       \* the directories in archives that have such a name
    Aside,          \* where such directories come to in the quarantine
    Ports,          \* /roms/ports
    Quarantine,     \* /roms/.playora/quarantine/<stamp>
    Unix            \* a script with carriage returns, and the one without

VARIABLES
    rpc,
    plan,           \* paths to move
    source,         \* the move it is at
    target,         \* the free name that was found for it
    crossed,        \* history: contents a rename of the repair overwrote

    cpc,
    heaps,          \* directories of the walk that are to go
    junk,           \* paths of the walk that are to go
    scripts,        \* paths of scripts to rewrite
    cut,            \* history: scripts that were cut off
    swept           \* history: removed with a directory

-----------------------------------------------------------------------------
(* Repair *)

repairVars == <<rpc, plan, source, target, crossed>>

NoPath == {}

RepairInit ==
    rpc = "idle" /\ plan = {} /\ source = NoPath /\ target = NoPath /\ crossed = {}

\* The folder a directory is walked with; /roms/__MACOSX is emptied like the
\* inbox.
Home(d) == IF d \in JunkDirs THEN Under[d] ELSE d

\* Both passes: the inbox with what is below it, and every folder but the
\* ones that are left out.
Misplaced(f) ==
    /\ Known(f.name)
    /\ \/ Home(f.dir) \in {Inbox} \union Temps
       \/ Home(f.dir) \in Folders /\ Home(f.dir) # FolderOf(f.name)

RepairPlan ==
    /\ rpc = "idle"
    /\ plan' = {PathOf(f) : f \in {g \in files : Misplaced(g)}}
    /\ rpc' = IF plan' = {} THEN "idle" ELSE "next"
    /\ UNCHANGED <<files, source, target, crossed>>

\* Mutant: the name itself, taken or not.
SameName(p) == p

\* collision_safe: .dup-1, .dup-2, ...; when all are taken the name itself
CollisionSafe(p) ==
    LET free == {k \in 0..MaxDup : ~Present([p EXCEPT !.dup = k])} IN
    IF free = {} THEN p
    ELSE [p EXCEPT !.dup = CHOOSE k \in free : \A j \in free : k <= j]

RepairCheck(p) ==
    /\ rpc = "next" /\ p \in plan
    /\ plan' = plan \ {p}
    /\ source' = {p}
    /\ target' = {CollisionSafe(Path(FolderOf(p.name), p.name, 0))}
    /\ rpc' = "move"
    /\ UNCHANGED <<files, crossed>>

\* rename: of whatever is at the path by now, to the name that was free.
RepairMove ==
    /\ rpc = "move"
    /\ LET from == UNION {At(p) : p \in source}
           there == UNION {At(p) : p \in target}
       IN  IF from = {} THEN UNCHANGED <<files, crossed>>
           ELSE /\ files' = (files \ (from \union there)) \union
                              {Moved(f, p) : f \in from, p \in target}
                /\ crossed' = crossed \union {f.what : f \in {g \in there : g.whole}}
    /\ source' = NoPath /\ target' = NoPath
    /\ rpc' = "next"
    /\ UNCHANGED plan

RepairEnd ==
    /\ rpc = "next" /\ plan = {}
    /\ rpc' = "idle"
    /\ UNCHANGED <<files, plan, source, target, crossed>>

RepairKill ==
    /\ rpc # "idle"
    /\ rpc' = "idle"
    /\ plan' = {} /\ source' = NoPath /\ target' = NoPath
    /\ UNCHANGED <<files, crossed>>

RepairNext ==
    RepairPlan \/ (\E p \in plan : RepairCheck(p)) \/ RepairMove \/ RepairEnd
    \/ RepairKill

-----------------------------------------------------------------------------
(* Cleaning *)

cleanVars == <<cpc, heaps, junk, scripts, cut, swept>>

CleanInit ==
    cpc = "idle" /\ heaps = {} /\ junk = {} /\ scripts = {} /\ cut = {} /\ swept = {}

\* Directories with a junk name: on the card, and out of an archive in temp.
Heaps == (JunkDirs \X {0}) \union (Temps \X JunkSubs)

Heap(f) == <<f.dir, IF f.dir \in Temps THEN f.dup ELSE 0>>

Inside(h) == {f \in files : Heap(f) = h}

\* What is in such a directory is listed as well.
CleanWalk ==
    /\ cpc = "idle"
    /\ heaps' = {Heap(f) : f \in files} \intersect Heaps
    /\ junk' = {PathOf(f) : f \in {g \in files : g.name \in JunkNames}}
    /\ scripts' = {PathOf(f) : f \in {g \in files :
                      Home(g.dir) = Ports /\ g.name \notin JunkNames
                      /\ g.what \in DOMAIN Unix /\ g.whole}}
    /\ cpc' = IF heaps' = {} /\ junk' = {} /\ scripts' = {} THEN "idle" ELSE "junk"
    /\ UNCHANGED <<files, cut, swept>>

\* What goes with a file, and the script it was made of
Lost(f) == Inner(f.what) \union {c \in DOMAIN Unix : Unix[c] = f.what}

\* remove_dir_all: file by file, whatever they are.
Sweep(h, f) ==
    /\ cpc = "junk" /\ h \in heaps /\ f \in Inside(h)
    /\ files' = files \ {f}
    /\ swept' = IF f.whole THEN swept \union Lost(f) ELSE swept
    /\ UNCHANGED <<cpc, heaps, junk, scripts, cut>>

\* To the quarantine as a whole, under a stamp of its own.
SetAside(h, d) ==
    /\ cpc = "junk" /\ h \in heaps /\ In(d) = {}
    /\ heaps' = heaps \ {h}
    /\ files' = (files \ Inside(h)) \union {[f EXCEPT !.dir = d] : f \in Inside(h)}
    /\ UNCHANGED <<cpc, junk, scripts, cut, swept>>

\* All of it is gone, or what is left of it stays: kept (err).
HeapDone(h) ==
    /\ cpc = "junk" /\ h \in heaps
    /\ heaps' = heaps \ {h}
    /\ UNCHANGED <<files, cpc, junk, scripts, cut, swept>>

\* A directory that went first took the path with it: kept (err).
RemoveJunk(p) ==
    /\ cpc = "junk" /\ p \in junk
    /\ junk' = junk \ {p}
    /\ \/ files' = files \ At(p)
       \/ /\ Quarantine # p.dir
          /\ files' = (files \ (At(p) \union
                         (IF Present(p) THEN At([p EXCEPT !.dir = Quarantine]) ELSE {})))
                        \union {[f EXCEPT !.dir = Quarantine] : f \in At(p)}
    /\ UNCHANGED <<cpc, heaps, scripts, cut, swept>>

CleanJunkDone ==
    /\ cpc = "junk" /\ junk = {} /\ heaps = {}
    /\ cpc' = "scripts"
    /\ UNCHANGED <<files, heaps, junk, scripts, cut, swept>>

\* It went with its directory: it cannot be read.
NoScript(p) ==
    /\ cpc = "scripts" /\ p \in scripts /\ ~Present(p)
    /\ scripts' = scripts \ {p}
    /\ UNCHANGED <<files, cpc, heaps, junk, cut, swept>>

\* fs::write truncates first.
Truncate(p) ==
    /\ cpc = "scripts" /\ p \in scripts /\ Present(p)
    /\ files' = (files \ At(p)) \union {[f EXCEPT !.whole = FALSE] : f \in At(p)}
    /\ cpc' = "write"
    /\ UNCHANGED <<heaps, junk, scripts, cut, swept>>

\* What was read, without carriage returns.
Converted(f) == [f EXCEPT !.what = Unix[f.what], !.whole = TRUE]

Rewrite(p) ==
    /\ cpc = "write" /\ p \in scripts
    /\ \E f \in At(p) : ~f.whole
    /\ files' = (files \ At(p)) \union
                  {Converted(f) : f \in {g \in At(p) : g.what \in DOMAIN Unix}}
    /\ scripts' = scripts \ {p}
    /\ cpc' = "scripts"
    /\ UNCHANGED <<heaps, junk, cut, swept>>

CleanEnd ==
    /\ cpc = "scripts" /\ scripts = {}
    /\ cpc' = "idle"
    /\ UNCHANGED <<files, heaps, junk, scripts, cut, swept>>

CleanKill ==
    /\ cpc # "idle"
    /\ cut' = cut \union {f.what : f \in {g \in files : cpc = "write" /\ PathOf(g) \in scripts /\ ~g.whole}}
    /\ cpc' = "idle"
    /\ heaps' = {} /\ junk' = {} /\ scripts' = {}
    /\ UNCHANGED <<files, swept>>

CleanNext ==
    \/ CleanWalk \/ CleanJunkDone \/ CleanEnd \/ CleanKill
    \/ \E h \in heaps : \/ \E f \in Inside(h) : Sweep(h, f)
                        \/ \E d \in Aside : SetAside(h, d)
                        \/ HeapDone(h)
    \/ \E p \in junk : RemoveJunk(p)
    \/ \E p \in scripts : NoScript(p) \/ Truncate(p) \/ Rewrite(p)
=============================================================================
