---------------------------- MODULE CloudMirror -----------------------------
(***************************************************************************)
(* The backup of the card's saves and of the agent's own folder to the      *)
(* player's cloud, and their restore (cmd_backup, cmd_restore and preflight *)
(* in cloud.rs).  A backup is `rclone sync`: it copies what the folder has  *)
(* and, if no copy failed, removes from the cloud what it has not.  A       *)
(* restore is `rclone copy`, which overwrites and removes nothing.  The two *)
(* have a lock each and may run at the same time.  When the agent alone is  *)
(* killed its rclone goes on, and the lock does not hold the next job off.  *)
(***************************************************************************)
EXTENDS Naturals, Sequences, FiniteSets

CONSTANTS
    Saves, Agent,   \* the files of /roms/savestates and of /roms/.playora
    MaxVersion, MaxJobs, MaxFaults      \* bounds

\* No file is in both folders.
MirrorAssumption ==
    /\ {MaxVersion, MaxJobs, MaxFaults} \subseteq Nat
    /\ Saves \intersect Agent = {}

Files == Saves \union Agent
Folders == <<Saves, Agent>>
Absent == 0
Jobs == {"backup", "restore"}

VARIABLES
    card, cloud,    \* the version of a file that is there
    there,          \* /roms/savestates exists; the agent's folder always does
    paired,         \* rclone.conf has the remote
    version,        \* the newest version made
    job, jobs,
    orphans,        \* rclones that go on without their agent
    claimed,        \* the last backup said it was ok
    faults,
    snap,           \* history: versions the backup found, as far as the card has them still
    fresh,          \* history: no save was made on or restored to the new card
    undone          \* history: files an orphan removed since the last backup began

orphanVars == <<orphans, undone>>
mirrorVars == <<card, cloud, there, paired, version, job, jobs, claimed, faults, snap, fresh,
                orphanVars>>

Idle == [at |-> "idle", index |-> 1, todo |-> {}, extra |-> {}]
Nothing == [f \in Files |-> Absent]

Init ==
    /\ card = Nothing /\ cloud = Nothing /\ snap = Nothing
    /\ there = FALSE /\ paired = FALSE /\ version = Absent
    /\ job = [k \in Jobs |-> Idle] /\ jobs = 0
    /\ claimed = FALSE /\ faults = 0 /\ fresh = FALSE
    /\ orphans = {} /\ undone = {}

Put(f, v) ==
    /\ card' = [card EXCEPT ![f] = v]
    /\ snap' = IF v = card[f] THEN snap ELSE [snap EXCEPT ![f] = Absent]

\* An emulator saves, or the agent writes its own files.
Write(f) ==
    /\ version < MaxVersion
    /\ version' = version + 1
    /\ Put(f, version + 1)
    /\ there' = (there \/ f \in Saves)
    /\ fresh' = (fresh /\ f \notin Saves)
    /\ UNCHANGED <<cloud, paired, job, jobs, claimed, faults, orphanVars>>

Delete(f) ==
    /\ card[f] # Absent
    /\ Put(f, Absent)
    /\ UNCHANGED <<cloud, there, paired, version, job, jobs, claimed, faults, fresh, orphanVars>>

\* The card is replaced by a new one; the jobs end with the old one.
NewCard ==
    /\ faults < MaxFaults
    /\ faults' = faults + 1
    /\ card' = Nothing /\ snap' = Nothing
    /\ there' = FALSE /\ paired' = FALSE /\ fresh' = TRUE
    /\ job' = [k \in Jobs |-> Idle] /\ claimed' = FALSE
    /\ orphans' = {} /\ undone' = {}
    /\ UNCHANGED <<cloud, version, jobs>>

Setup ==
    /\ ~paired
    /\ paired' = TRUE
    /\ UNCHANGED <<card, cloud, there, version, job, jobs, claimed, faults, snap, fresh, orphanVars>>

-----------------------------------------------------------------------------
\* Offline, without rclone or without the remote, a job ends at once.
Begin(k) ==
    /\ job[k].at = "idle" /\ jobs < MaxJobs /\ paired
    /\ jobs' = jobs + 1
    /\ job' = [job EXCEPT ![k] = [Idle EXCEPT !.at = "next"]]
    /\ claimed' = (claimed /\ k # "backup")
    /\ snap' = IF k = "backup" THEN Nothing ELSE snap
    /\ undone' = IF k = "backup" THEN {} ELSE undone
    /\ UNCHANGED <<card, cloud, there, paired, version, faults, fresh, orphans>>

Folder(k) == Folders[job[k].index]
Present(store, files) == {f \in files : store[f] # Absent}

\* Mutant: the folder is made, as a restore does.
AlwaysThere(files) == TRUE

SourceThere(files) == there \/ files # Saves

Further(k) ==
    IF job[k].index < Len(Folders) THEN [Idle EXCEPT !.at = "next", !.index = @ + 1]
    ELSE Idle

\* rclone starts with the next folder; a folder that is missing is not backed up.
Start(k) ==
    /\ job[k].at = "next"
    /\ LET files == Folder(k)
           skips == k = "backup" /\ ~SourceThere(files)
           from == Present(IF k = "backup" THEN card ELSE cloud, files)
       IN /\ job' = [job EXCEPT ![k] =
                 IF skips THEN Further(k)
                 ELSE [@ EXCEPT !.at = "copying", !.todo = from, !.extra = Present(cloud, files) \ from]]
          /\ there' = (there \/ (k = "restore" /\ files = Saves))
          /\ snap' = IF k = "backup" THEN [f \in Files |-> IF f \in files THEN card[f] ELSE snap[f]]
                     ELSE snap
          /\ fresh' = (fresh /\ k = "backup")
    /\ UNCHANGED <<card, cloud, paired, version, jobs, claimed, faults, orphanVars>>

\* rclone copies a file, of a backup or of a restore, that is there.
Transfer(k, f) ==
    /\ (IF k = "backup" THEN card ELSE cloud)[f] # Absent
    /\ IF k = "backup" THEN cloud' = [cloud EXCEPT ![f] = card[f]] /\ UNCHANGED <<card, snap>>
       ELSE Put(f, cloud[f]) /\ UNCHANGED cloud

Copy(k, f) ==
    /\ job[k].at = "copying" /\ f \in job[k].todo
    /\ Transfer(k, f)
    /\ job' = [job EXCEPT ![k].todo = @ \ {f}]
    /\ UNCHANGED <<there, paired, version, jobs, claimed, faults, fresh, orphanVars>>

\* What is left of a job of which rclone failed in one folder.
\* Mutant: the next folder, as if nothing had happened.
GoesOn(k) == Further(k)

Aborts(k) == Idle

\* A file is gone by now, or the network: no file is removed.
CopyFails(k) ==
    /\ job[k].at = "copying"
    /\ \/ \E f \in job[k].todo : (IF k = "backup" THEN card ELSE cloud)[f] = Absent
       \/ faults < MaxFaults
    /\ faults' = IF faults < MaxFaults THEN faults + 1 ELSE faults
    /\ job' = [job EXCEPT ![k] = Aborts(k)]
    /\ UNCHANGED <<card, cloud, there, paired, version, jobs, claimed, snap, fresh, orphanVars>>

\* The cloud without the files a backup found there and not on the card
Without(k, extra) ==
    IF k = "backup" THEN [f \in Files |-> IF f \in extra THEN Absent ELSE cloud[f]] ELSE cloud

Complete(k) ==
    /\ job[k].at = "copying" /\ job[k].todo = {}
    /\ cloud' = Without(k, job[k].extra)
    /\ job' = [job EXCEPT ![k] = Further(k)]
    /\ claimed' = (claimed \/ (k = "backup" /\ job[k].index = Len(Folders)))
    /\ UNCHANGED <<card, there, paired, version, jobs, faults, snap, fresh, orphanVars>>

\* The agent is killed, with its rclone or without.
Kill(k) ==
    /\ job[k].at # "idle" /\ faults < MaxFaults
    /\ faults' = faults + 1
    /\ job' = [job EXCEPT ![k] = Idle]
    /\ \/ UNCHANGED orphans
       \/ /\ job[k].at = "copying"
          /\ orphans' = orphans \union {[of |-> k, index |-> job[k].index, todo |-> job[k].todo,
                                         extra |-> job[k].extra]}
    /\ UNCHANGED <<card, cloud, there, paired, version, jobs, claimed, snap, fresh, undone>>

OrphanCopies(o, f) ==
    /\ f \in o.todo
    /\ Transfer(o.of, f)
    /\ orphans' = (orphans \ {o}) \union {[o EXCEPT !.todo = @ \ {f}]}
    /\ UNCHANGED <<there, paired, version, job, jobs, claimed, faults, fresh, undone>>

OrphanCompletes(o) ==
    /\ o.todo = {}
    /\ cloud' = Without(o.of, o.extra)
    /\ undone' = IF o.of = "backup" THEN undone \union o.extra ELSE undone
    /\ orphans' = orphans \ {o}
    /\ UNCHANGED <<card, there, paired, version, job, jobs, claimed, faults, snap, fresh>>

\* It fails, or is killed as well.
OrphanFails(o) ==
    /\ orphans' = orphans \ {o}
    /\ UNCHANGED <<card, cloud, there, paired, version, job, jobs, claimed, faults, snap, fresh, undone>>

Next ==
    \/ \E f \in Files : Write(f) \/ Delete(f)
    \/ NewCard \/ Setup
    \/ \E o \in orphans : OrphanCompletes(o) \/ OrphanFails(o) \/ \E f \in Files : OrphanCopies(o, f)
    \/ \E k \in Jobs :
        Begin(k) \/ Start(k) \/ (\E f \in Files : Copy(k, f)) \/ CopyFails(k) \/ Complete(k) \/ Kill(k)

Spec == Init /\ [][Next]_mirrorVars

-----------------------------------------------------------------------------
(* Properties *)

\* Every variable has its type.
TypeOK ==
    /\ {card, cloud, snap} \subseteq [Files -> Absent..version]
    /\ {there, paired, claimed, fresh} \subseteq BOOLEAN
    /\ version \in Absent..MaxVersion /\ jobs \in 0..MaxJobs /\ faults \in 0..MaxFaults
    /\ \A k \in Jobs :
        /\ job[k].at \in {"idle", "next", "copying"} /\ job[k].index \in DOMAIN Folders
        /\ job[k].todo \union job[k].extra \subseteq Folder(k)
    /\ \A o \in orphans : o.of \in Jobs /\ o.todo \union o.extra \subseteq Folders[o.index]
    /\ undone \subseteq Files

\* After "Cloud Backup ok" the cloud has every file as the backup found it, unless
\* it changed on the card meanwhile, or the rclone of an earlier backup, whose agent
\* was killed, removed it: that one goes by what the card had when it began.
OkIsBackedUp ==
    claimed => \A f \in Files \ undone : snap[f] # Absent => cloud[f] = snap[f]

\* On a new card, no backup touches the saves in the cloud before a save was made
\* or a restore began.
KeepsCloud == fresh => \A f \in Saves : cloud'[f] = cloud[f]
NewCardKeepsCloud == [][KeepsCloud]_mirrorVars

\* What the code does not exclude: a backup of a card whose saves are being restored
\* removes from the cloud what the restore has still to bring.
RestoreFindsAll ==
    [][ \A f \in Saves : cloud[f] # Absent /\ cloud'[f] = Absent =>
          ~(job["restore"].at = "copying" /\ f \in job["restore"].todo) ]_mirrorVars
=============================================================================
