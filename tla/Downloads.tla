----------------------------- MODULE Downloads -----------------------------
(***************************************************************************)
(* Commands that download to one destination, each in its own way:          *)
(*   fetch     playora-agent/src/download.rs, without a checksum            *)
(*   checked   the same with --sha256                                       *)
(*   coolrom   playora-agent/src/coolrom.rs, straight to the destination    *)
(*   rom       darkos-roms, straight to the destination                     *)
(*   firmware  darkos-firmware, a single URL                                *)
(*   image     darkos-firmware, the parts of a release image                *)
(*   update    darkos-update, from memory                                   *)
(* Nothing keeps two of them apart.  Files are inodes, so that a command    *)
(* that has one open goes on writing to it wherever its path leads by then. *)
(* The checksum is that of what came over the network, not of the file.     *)
(***************************************************************************)
EXTENDS Naturals, FiniteSets

CONSTANTS
    Commands,
    Kinds,
    Inodes,
    Chunks,         \* pieces of the file
    None,
    MaxFaults

\* .part and .partial
Temps == {"part", "partial"}

\* A file system has inodes to spare.
DownloadsAssumption ==
    /\ Chunks \in Nat \ {0} /\ MaxFaults \in Nat
    /\ None \notin Inodes
    /\ Commands \intersect Temps = {}
    /\ IsFiniteSet(Commands) /\ IsFiniteSet(Inodes)
    /\ Cardinality(Inodes) > Cardinality(Commands) + 3

Pieces == 1..Chunks

VARIABLES
    kind, pc,
    dest,           \* the inode at the destination
    part,           \* the inode at each temporary path
    data,           \* of each inode, the pieces that are there
    open,           \* the inode a command writes to
    at,             \* the piece it is at
    good,           \* what came over the network is what was asked for
    synced,         \* inodes that were flushed
    by,             \* history: the command that installed what is at dest
    overlapped,     \* history: two commands had one file open
    faults

vars == <<kind, pc, dest, part, data, open, at, good, synced, by, overlapped, faults>>

Direct(k) == k \in {"coolrom", "rom"}

\* Without --overwrite
KeepsOld(k) == k \in {"fetch", "checked", "rom"}

Verifies(k) == k \in {"checked", "image", "update"}

Syncs(k) == k \in {"fetch", "checked"}

\* .part and .partial are named after the destination, the temporary file of
\* update after the process.
PartOf(c) == CASE kind[c] \in {"fetch", "checked"} -> "part"
               [] kind[c] \in {"firmware", "image"} -> "partial"
               [] OTHER -> c

Init ==
    /\ kind \in [Commands -> Kinds]
    /\ pc = [c \in Commands |-> "idle"]
    /\ dest = None
    /\ part = [t \in Temps |-> None]
    /\ data = [i \in Inodes |-> {}]
    /\ open = [c \in Commands |-> None]
    /\ at = [c \in Commands |-> 1]
    /\ good = [c \in Commands |-> TRUE]
    /\ synced = {} /\ by = None /\ overlapped = FALSE
    /\ faults = 0

Fault == faults < MaxFaults /\ faults' = faults + 1

\* Mutant: the file handle outlives its command.
LeftOpen(c) == open

Closed(c) == [open EXCEPT ![c] = None]

Goto(c, l) == pc' = [pc EXCEPT ![c] = l]

Used == {dest} \union {part[t] : t \in Temps} \union {open[c] : c \in Commands}

New == CHOOSE i \in Inodes : i \notin Used

\* File::create: the inode that is there, emptied, or a new one
Created(old) == IF old = None THEN New ELSE old

Opened(c, i) ==
    /\ open' = [open EXCEPT ![c] = i]
    /\ data' = [data EXCEPT ![i] = {}]
    /\ synced' = synced \ {i}
    /\ overlapped' = (overlapped \/ \E d \in Commands \ {c} : open[d] = i)

Refused(c) ==
    /\ pc[c] \in {"idle", "error"}
    /\ KeepsOld(kind[c]) /\ dest # None
    /\ Goto(c, "error")
    /\ UNCHANGED <<kind, dest, part, data, open, at, good, synced, by, overlapped, faults>>

\* The destination is looked at once, before the first byte is asked for.
Start(c) ==
    /\ pc[c] \in {"idle", "error"}
    /\ KeepsOld(kind[c]) => dest = None
    /\ Goto(c, IF kind[c] = "update" THEN "receive" ELSE "create")
    /\ at' = [at EXCEPT ![c] = 1]
    /\ good' = [good EXCEPT ![c] = TRUE]
    /\ UNCHANGED <<kind, dest, part, data, open, synced, by, overlapped, faults>>

Create(c) ==
    /\ pc[c] = "create" /\ kind[c] # "update"
    /\ IF Direct(kind[c])
       THEN /\ Opened(c, Created(dest)) /\ dest' = Created(dest)
            /\ by' = c /\ UNCHANGED part
       ELSE /\ Opened(c, Created(part[PartOf(c)]))
            /\ part' = [part EXCEPT ![PartOf(c)] = Created(part[PartOf(c)])]
            /\ UNCHANGED <<dest, by>>
    /\ Goto(c, "receive")
    /\ UNCHANGED <<kind, at, good, faults>>

\* A piece comes, and is written at this command's own offset.
Receive(c) ==
    /\ pc[c] = "receive" /\ at[c] <= Chunks
    /\ data' = IF open[c] = None THEN data
               ELSE [data EXCEPT ![open[c]] = @ \union {at[c]}]
    /\ synced' = synced \ {open[c]}
    /\ at' = [at EXCEPT ![c] = @ + 1]
    /\ UNCHANGED <<kind, pc, dest, part, open, good, by, overlapped, faults>>

\* Something else comes, or the connection ends early and no length had been
\* announced.
Garbled(c) ==
    /\ pc[c] = "receive" /\ at[c] <= Chunks /\ Fault
    /\ good' = [good EXCEPT ![c] = FALSE]
    /\ at' = [at EXCEPT ![c] = Chunks + 1]
    /\ UNCHANGED <<kind, pc, dest, part, data, open, synced, by, overlapped>>

\* A read fails: `?` leaves the temporary file.
ReadFails(c) ==
    /\ pc[c] = "receive" /\ Fault
    /\ Goto(c, "error")
    /\ open' = Closed(c)
    /\ UNCHANGED <<kind, dest, part, data, at, good, synced, by, overlapped>>

\* Mutant: the file is left to the page cache.
NotFlushed(c) == synced

\* sync_all
Flushed(c) == IF Syncs(kind[c]) THEN synced \union {open[c]} ELSE synced

Received(c) ==
    /\ pc[c] = "receive" /\ at[c] > Chunks
    /\ Goto(c, "verify")
    /\ synced' = Flushed(c)
    /\ UNCHANGED <<kind, dest, part, data, open, at, good, by, overlapped, faults>>

\* Mutant: without a checksum there is nothing to compare, and with one neither.
AnyContent(c) == TRUE

Accepted(c) == Verifies(kind[c]) => good[c]

\* A mismatch removes the temporary file, whoever's it is by now; update has
\* not written anything yet.
Mismatch(c) ==
    /\ pc[c] = "verify" /\ ~Accepted(c)
    /\ part' = IF PartOf(c) \in Temps THEN [part EXCEPT ![PartOf(c)] = None] ELSE part
    /\ open' = Closed(c)
    /\ Goto(c, "error")
    /\ UNCHANGED <<kind, dest, data, at, good, synced, by, overlapped, faults>>

Match(c) ==
    /\ pc[c] = "verify" /\ Accepted(c)
    /\ Goto(c, IF Direct(kind[c]) THEN "done"
               ELSE IF kind[c] = "update" THEN "store" ELSE "rename")
    /\ open' = IF Direct(kind[c]) THEN [open EXCEPT ![c] = None] ELSE open
    /\ UNCHANGED <<kind, dest, part, data, at, good, synced, by, overlapped, faults>>

\* fs::write of the verified bytes to .darkos.upd.<pid>
Store(c) ==
    /\ pc[c] = "store"
    /\ open' = [open EXCEPT ![c] = New]
    /\ data' = [data EXCEPT ![New] = Pieces]
    /\ synced' = synced \ {New}
    /\ Goto(c, "rename")
    /\ UNCHANGED <<kind, dest, part, at, good, by, overlapped, faults>>

\* rename: of what the temporary path has by now
Rename(c) ==
    /\ pc[c] = "rename"
    /\ LET source == IF PartOf(c) \in Temps THEN part[PartOf(c)] ELSE open[c] IN
       IF source = None
       THEN Goto(c, "error") /\ UNCHANGED <<dest, by>>
       ELSE Goto(c, "done") /\ dest' = source /\ by' = c
    /\ part' = IF PartOf(c) \in Temps THEN [part EXCEPT ![PartOf(c)] = None] ELSE part
    /\ open' = Closed(c)
    /\ UNCHANGED <<kind, data, at, good, synced, overlapped, faults>>

Running(c) == pc[c] \in {"create", "receive", "verify", "store", "rename"}

Kill(c) ==
    /\ Running(c) /\ Fault
    /\ Goto(c, "error")
    /\ open' = Closed(c)
    /\ UNCHANGED <<kind, dest, part, data, at, good, synced, by, overlapped>>

\* Whatever was not flushed may be gone.
PowerCut ==
    /\ Fault
    /\ \E gone \in SUBSET (Inodes \ synced) :
          data' = [i \in Inodes |-> IF i \in gone THEN {} ELSE data[i]]
    /\ pc' = [c \in Commands |-> IF Running(c) THEN "error" ELSE pc[c]]
    /\ open' = [c \in Commands |-> IF Running(c) THEN None ELSE open[c]]
    /\ UNCHANGED <<kind, dest, part, at, good, synced, by, overlapped>>

Step(c) ==
    \/ Create(c) \/ Receive(c) \/ Received(c) \/ Mismatch(c) \/ Match(c)
    \/ Store(c) \/ Rename(c)

Next ==
    \/ \E c \in Commands :
          Refused(c) \/ Start(c) \/ Step(c) \/ Garbled(c) \/ ReadFails(c) \/ Kill(c)
    \/ PowerCut

Spec == Init /\ [][Next]_vars

\* Commands that have started end, and a failed one is given again.
FairSpec == Spec /\ \A c \in Commands : WF_vars(Step(c)) /\ WF_vars(Start(c))

-----------------------------------------------------------------------------
(* Properties *)

\* Every variable has its type; a command that is not running has no file open.
TypeOK ==
    /\ kind \in [Commands -> Kinds]
    /\ pc \in [Commands -> {"idle", "create", "receive", "verify", "store",
                            "rename", "done", "error"}]
    /\ dest \in Inodes \union {None}
    /\ part \in [Temps -> Inodes \union {None}]
    /\ data \in [Inodes -> SUBSET Pieces]
    /\ open \in [Commands -> Inodes \union {None}]
    /\ at \in [Commands -> 1..Chunks + 1]
    /\ good \in [Commands -> BOOLEAN]
    /\ synced \subseteq Inodes \union {None}
    /\ by \in Commands \union {None}
    /\ overlapped \in BOOLEAN
    /\ faults \in 0..MaxFaults
    /\ \A c \in Commands : ~Running(c) => open[c] = None

Whole(i) == data[i] = Pieces

\* A power cut took what had been installed and not flushed.
WentDark(i) == i \notin synced /\ data[i] = {}

ThroughTemps == \A c \in Commands : ~Direct(kind[c])

\* As long as no two commands had one temporary file open: what a command that
\* checks a checksum put at the destination is the whole file there, whatever
\* was killed, garbled or removed before, and nobody writes to it any more; only
\* what darkos does not flush can go with the power.
InstalledIsWhole ==
    ThroughTemps /\ ~overlapped /\ dest # None =>
        /\ \A c \in Commands : open[c] = dest => pc[c] = "done"
        /\ Verifies(kind[by]) =>
              Whole(dest) \/ (~Syncs(kind[by]) /\ WentDark(dest))

\* Attempts that check a checksum lead to the whole file, whatever fails first.
OnlyVerified == ThroughTemps /\ \A c \in Commands : Verifies(kind[c])
Arrived ==
    overlapped \/ (dest # None /\ (Whole(dest) \/ (~Syncs(kind[by]) /\ WentDark(dest))))
VerifiedArrives == []<>(OnlyVerified => Arrived)

\* What two commands that check a checksum put at the destination is whole also
\* when they had one temporary file open.
OverlappedIsWhole ==
    (\A c \in Commands : kind[c] = "checked") /\ dest # None => Whole(dest)
=============================================================================
