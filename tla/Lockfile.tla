------------------------------ MODULE Lockfile ------------------------------
(***************************************************************************)
(* The lockfile of the heavy commands (playora-agent/src/lockfile.rs).     *)
(*                                                                         *)
(* acquire is a sequence of file system calls, and another command, a      *)
(* `kill -9` or the reuse of a process id may come between any two.  A     *)
(* path leads to an inode; a command that has opened the file writes to    *)
(* the inode it opened even when the path leads elsewhere by then.         *)
(***************************************************************************)
CONSTANTS
    Commands,   \* invocations, each with a process id of its own
    None        \* no inode, no process id

ASSUME NoneIsNoCommand == None \notin Commands

VARIABLES
    pc,
    link,       \* the inode at the path, named after the command that made it
    text,       \* the process id in an inode, None while it is empty
    fd,         \* the inode a command has opened for writing
    saw,        \* the process id a command has read
    reused,     \* ids of ended commands that some other process has now
    raced       \* history: two acquisitions have overlapped

vars == <<pc, link, text, fd, saw, reused, raced>>

Acquiring == {"read", "probe", "remove", "create", "fill"}
Ended     == {"idle", "refused", "done", "dead"}

Init ==
    /\ pc = [p \in Commands |-> "idle"]
    /\ link = None
    /\ text = [i \in Commands |-> None]
    /\ fd = [p \in Commands |-> None]
    /\ saw = [p \in Commands |-> None]
    /\ reused = {}
    /\ raced = FALSE

GoTo(p, next) == pc' = [pc EXCEPT ![p] = next]

\* path.exists()
Exists(p) ==
    /\ pc[p] = "idle"
    /\ GoTo(p, IF link = None THEN "create" ELSE "read")
    /\ raced' = (raced \/ \E q \in Commands : pc[q] \in Acquiring)
    /\ UNCHANGED <<link, text, fd, saw, reused>>

Content == IF link = None THEN None ELSE text[link]

\* Mutant: what could not be parsed is looked up all the same.
Unchecked(id) == "probe"

\* read_to_string and parse both fail on a file that is gone or empty.
AfterRead(id) == IF id = None THEN "remove" ELSE "probe"

Read(p) ==
    /\ pc[p] = "read"
    /\ saw' = [saw EXCEPT ![p] = Content]
    /\ GoTo(p, AfterRead(Content))
    /\ UNCHANGED <<link, text, fd, reused, raced>>

\* Mutant: every lockfile is stale.
NeverAlive(q) == FALSE

\* pid_alive: /proc/<pid> exists.
PidAlive(q) == pc[q] \notin Ended \/ q \in reused

Probe(p) ==
    /\ pc[p] = "probe"
    /\ GoTo(p, IF PidAlive(saw[p]) THEN "refused" ELSE "remove")
    /\ UNCHANGED <<link, text, fd, saw, reused, raced>>

\* A stale file is removed, whoever made it.
Remove(p) ==
    /\ pc[p] = "remove"
    /\ link' = None
    /\ GoTo(p, "create")
    /\ UNCHANGED <<text, fd, saw, reused, raced>>

\* fs::write opens the file, making or emptying it, ...
Create(p) ==
    /\ pc[p] = "create"
    /\ link' = IF link = None THEN p ELSE link
    /\ fd' = [fd EXCEPT ![p] = link']
    /\ text' = [text EXCEPT ![link'] = None]
    /\ GoTo(p, "fill")
    /\ UNCHANGED <<saw, reused, raced>>

\* ... and writes.
Fill(p) ==
    /\ pc[p] = "fill"
    /\ text' = [text EXCEPT ![fd[p]] = p]
    /\ GoTo(p, "running")
    /\ UNCHANGED <<link, fd, saw, reused, raced>>

\* Drop: whatever file is at the path goes.
Drop(p) ==
    /\ pc[p] = "running"
    /\ link' = None
    /\ GoTo(p, "done")
    /\ UNCHANGED <<text, fd, saw, reused, raced>>

Kill(p) ==
    /\ pc[p] \notin Ended
    /\ GoTo(p, "dead")
    /\ UNCHANGED <<link, text, fd, saw, reused, raced>>

\* Some other process gets the id of a command that ended.
Reuse(p) ==
    /\ pc[p] \in Ended \ {"idle"}
    /\ reused' = reused \union {p}
    /\ UNCHANGED <<pc, link, text, fd, saw, raced>>

Next ==
    \E p \in Commands :
        \/ Exists(p) \/ Read(p) \/ Probe(p) \/ Remove(p) \/ Create(p) \/ Fill(p)
        \/ Drop(p) \/ Kill(p) \/ Reuse(p)

Spec == Init /\ [][Next]_vars

-----------------------------------------------------------------------------
(* Properties *)

Holders == {p \in Commands : pc[p] = "running"}

\* Every variable has its type, and what a step of acquire needs is there.
TypeOK ==
    /\ pc \in [Commands -> Acquiring \union Ended \union {"running"}]
    /\ link \in Commands \union {None}
    /\ text \in [Commands -> Commands \union {None}]
    /\ fd \in [Commands -> Commands \union {None}]
    /\ saw \in [Commands -> Commands \union {None}]
    /\ reused \in SUBSET Commands
    /\ raced \in BOOLEAN
    /\ \A p \in Commands :
          /\ pc[p] = "probe" => saw[p] # None
          /\ pc[p] = "fill" => fd[p] # None

\* As long as no two commands were inside acquire at once, at most one holds
\* the lock and the file names it: neither a killed command, nor a reused
\* id, nor the removal of a stale file breaks the lock.
ExclusiveUnlessRaced ==
    ~raced =>
        /\ \A p, q \in Holders : p = q
        /\ \A p \in Holders : Content = p

\* lockfile.rs:1: "Single-instance lockfile for heavy commands".
SingleInstance == \A p, q \in Holders : p = q
=============================================================================
