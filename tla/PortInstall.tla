----------------------------- MODULE PortInstall -----------------------------
(***************************************************************************)
(* portmaster::install: a port's zip is downloaded to one .part file beside *)
(* the ports and unpacked over what is installed.  The command line and the *)
(* menu may both be at it, the console is switched off on the way, and the  *)
(* release changes between two downloads.  A zip has one chunk per entry,   *)
(* and its directory is in the last.                                        *)
(***************************************************************************)
EXTENDS Naturals, FiniteSets

CONSTANTS
    Installers,
    Entries,        \* 1..n, the files of the port in the zip's order
    Releases,       \* positive numbers
    Inodes,         \* files the .part may be, one after the other
    MaxInstalls     \* bound

VARIABLES
    part,           \* the inode the name .part stands for; 0 for none
    chunks,         \* inode -> entry -> release of the bytes there; 0 for none
    installed,      \* entry -> release whose file it is, None or NotWhole
    inst,           \* Installers -> what the process is at
    installs

portVars == <<part, chunks, installed, inst, installs>>

Idle == [at |-> "idle", release |-> 0, inode |-> 0, next |-> 1, alone |-> TRUE]
Last == Cardinality(Entries)
Blank == [e \in Entries |-> 0]

None == 0
NotWhole == 99

Init ==
    /\ part = 0 /\ chunks = [n \in Inodes |-> Blank]
    /\ installed = [e \in Entries |-> None]
    /\ inst = [i \in Installers |-> Idle] /\ installs = 0

\* A process stays alone as long as no other has been unpacking since
\* it began to.
Unpacking(i) == inst[i].at \in {"unpack", "copy"}

-----------------------------------------------------------------------------
(* Download *)

\* The release answers the request.
Get(i) ==
    /\ inst[i].at = "idle" /\ installs < MaxInstalls
    /\ \E r \in Releases : inst' = [inst EXCEPT ![i] = [Idle EXCEPT !.at = "got", !.release = r]]
    /\ installs' = installs + 1
    /\ UNCHANGED <<part, chunks, installed>>

\* An inode no process and no name refers to
Unused(n) == n # part /\ \A i \in Installers : inst[i].inode # n

\* File::create: the .part that is there is emptied, another's too.
Create(i) ==
    /\ inst[i].at = "got"
    /\ \E n \in IF part = 0 THEN {m \in Inodes : Unused(m)} ELSE {part} :
           /\ part' = n
           /\ chunks' = [chunks EXCEPT ![n] = Blank]
           /\ inst' = [inst EXCEPT ![i].at = "load", ![i].inode = n]
    /\ UNCHANGED <<installed, installs>>

\* A chunk arrives and is written where this process's file position is.
Load(i) ==
    /\ inst[i].at = "load" /\ inst[i].next <= Last
    /\ chunks' = [chunks EXCEPT ![inst[i].inode][inst[i].next] = inst[i].release]
    /\ inst' = [inst EXCEPT ![i].next = @ + 1]
    /\ UNCHANGED <<part, installed, installs>>

\* The answer breaks off, or the download cannot be written: the .part stays.
\* So it does when the console is switched off, at whatever point.
Fail(i) ==
    /\ inst[i].at # "idle"
    /\ inst' = [inst EXCEPT ![i] = Idle]
    /\ UNCHANGED <<part, chunks, installed, installs>>

-----------------------------------------------------------------------------
(* extract_zip *)

\* The .part is opened by its name, and its directory is read at its end.
Open(i) ==
    /\ inst[i].at = "load" /\ inst[i].next > Last
    /\ inst' = [j \in Installers |->
           IF j = i
           THEN IF part = 0 \/ chunks[part][Last] = 0 THEN Idle
                ELSE [inst[i] EXCEPT !.at = "unpack", !.inode = part, !.next = 1,
                                     !.release = chunks[part][Last],
                                     !.alone = \A k \in Installers \ {i} : ~Unpacking(k)]
           ELSE [inst[j] EXCEPT !.alone = inst[j].at \notin {"unpack", "copy", "ok"}]]
    /\ UNCHANGED <<part, chunks, installed, installs>>

\* File::create of an entry
Begin(i) ==
    /\ inst[i].at = "unpack" /\ inst[i].next <= Last
    /\ inst' = [inst EXCEPT ![i].at = "copy"]
    /\ installed' = [installed EXCEPT ![inst[i].next] = NotWhole]
    /\ UNCHANGED <<part, chunks, installs>>

Sound(i) == chunks[inst[i].inode][inst[i].next] = inst[i].release

\* Mutant: an entry that cannot be read is passed over.
PassedOver(i) == [inst[i] EXCEPT !.at = "unpack", !.next = @ + 1]

Stopped(i) == Idle

\* io::copy, which checks the entry's CRC, and the mode of a script.  Two
\* processes that unpack at once may write into one file.
Copy(i) ==
    /\ inst[i].at = "copy"
    /\ IF Sound(i)
       THEN /\ inst' = [inst EXCEPT ![i].at = "unpack", ![i].next = @ + 1]
            /\ \E r \in {inst[i].release} \union (IF inst[i].alone THEN {} ELSE {NotWhole}) :
                   installed' = [installed EXCEPT ![inst[i].next] = r]
       ELSE /\ inst' = [inst EXCEPT ![i] = Stopped(i)]
            /\ UNCHANGED installed
    /\ UNCHANGED <<part, chunks, installs>>

\* All entries are there; the .part is removed by its name, whosever it is.
Finish(i) ==
    /\ inst[i].at = "unpack" /\ inst[i].next > Last
    /\ inst' = [inst EXCEPT ![i].at = "ok", ![i].inode = 0]
    /\ part' = 0
    /\ UNCHANGED <<chunks, installed, installs>>

Next == \E i \in Installers :
    Get(i) \/ Create(i) \/ Load(i) \/ Fail(i) \/ Open(i) \/ Begin(i) \/ Copy(i) \/ Finish(i)

Spec == Init /\ [][Next]_portVars

-----------------------------------------------------------------------------
(* Properties *)

\* Every variable has its type.
TypeOK ==
    /\ part \in Inodes \union {0} /\ installs \in 0..MaxInstalls
    /\ chunks \in [Inodes -> [Entries -> Releases \union {0}]]
    /\ installed \in [Entries -> Releases \union {None, NotWhole}]
    /\ \A i \in Installers :
          inst[i].at \in {"idle", "got", "load", "unpack", "copy", "ok"}

\* An install that reports success leaves every file of one release, whole,
\* whatever an earlier install that was switched off left behind and whoever
\* else was downloading into the same .part, unless another install was
\* unpacking at the same time.
SuccessIsWhole ==
    \A i \in Installers : inst[i].at = "ok" /\ inst[i].alone =>
        \A e \in Entries : installed[e] = inst[i].release
=============================================================================
