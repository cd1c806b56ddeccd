------------------------------ MODULE RomAudit ------------------------------
(***************************************************************************)
(* playora-agent audit-roms --hash: every ROM is hashed, with the hashes    *)
(* kept in table file_hashes under the file's size and modification time    *)
(* (in whole seconds).  Size, time and content are read one after the       *)
(* other, no lock keeps a second audit away, and files are written          *)
(* meanwhile.  ROMs of one key are reported as duplicates: of one hash, or, *)
(* when they cannot be read, of one name and size.                          *)
(***************************************************************************)
EXTENDS Naturals, FiniteSets, SequencesExt

CONSTANTS
    Roms,
    Auditors,       \* processes that run an audit
    Contents, Size(_),
    Name(_),        \* a ROM's file name in lower case: ROMs of two folders may share it
    MaxTime, MaxWrites      \* bounds

VARIABLES
    now,            \* the clock, in seconds
    rom,            \* Roms -> content and mtime
    hashes,         \* table file_hashes: size, mtime and content hashed; or None
    audit,          \* Auditors -> what the process has read
    writes,
    blurred         \* history: ROMs that had two contents under one mtime

auditVars == <<now, rom, hashes, audit, writes, blurred>>

None == [size |-> 0, mtime |-> 0, of |-> 0]
Idle == [at |-> "idle", todo |-> {}, file |-> 0, size |-> 0, mtime |-> 0, of |-> 0,
         keys |-> {}, touched |-> {}]

\* Contents are the numbers from 1; a hash is told apart by its content.
Init ==
    /\ now = 1
    /\ rom \in [Roms -> [of : Contents, mtime : {0}]]
    /\ hashes = [f \in Roms |-> None]
    /\ audit = [a \in Auditors |-> Idle]
    /\ writes = 0 /\ blurred = {}

Tick == now < MaxTime /\ now' = now + 1 /\ UNCHANGED <<rom, hashes, audit, writes, blurred>>

\* A ROM is overwritten.  Its mtime is the present second, or one that was kept
\* by the copy (cp -p, tar, a card written elsewhere).
Write(f) ==
    /\ writes < MaxWrites
    /\ writes' = writes + 1
    /\ \E c \in Contents \ {rom[f].of}, m \in {0, now} :
           /\ rom' = [rom EXCEPT ![f] = [of |-> c, mtime |-> m]]
           /\ blurred' = IF m = now /\ rom[f].mtime # now THEN blurred ELSE blurred \union {f}
    /\ audit' = [a \in Auditors |->
                    IF audit[a].at = "idle" THEN audit[a]
                    ELSE [audit[a] EXCEPT !.touched = @ \union {f}]]
    /\ UNCHANGED <<now, hashes>>

-----------------------------------------------------------------------------

Begin(a) ==
    /\ audit[a].at = "idle"
    /\ audit' = [audit EXCEPT ![a] = [Idle EXCEPT !.at = "next", !.todo = Roms]]
    /\ UNCHANGED <<now, rom, hashes, writes, blurred>>

\* The walk comes to a file, in the directory's order: metadata gives its size, or
\* fails, and the file is passed over.
StatSize(a, f) ==
    /\ audit[a].at = "next" /\ f \in audit[a].todo
    /\ \A g \in audit[a].todo : f <= g
    /\ \/ audit' = [audit EXCEPT ![a].at = "sized", ![a].todo = @ \ {f}, ![a].file = f,
                                 ![a].size = Size(rom[f].of)]
       \/ audit' = [audit EXCEPT ![a].todo = @ \ {f}]
    /\ UNCHANGED <<now, rom, hashes, writes, blurred>>

\* Mutant: the modification time is not compared.
SizeOnly(row, size, mtime) == row # None /\ row.size = size

Cached(row, size, mtime) == row # None /\ row.size = size /\ row.mtime = mtime

\* A file's key is its hash, or its name and size; with the key the file is done.
HashKey(c) == [hash |-> c, name |-> 0, size |-> 0]
NameKey(f, size) == [hash |-> 0, name |-> Name(f), size |-> size]
Keyed(entry, key) ==
    [entry EXCEPT !.at = "next", !.file = 0, !.size = 0, !.mtime = 0, !.of = 0,
                  !.keys = @ \union {<<entry.file, key>>}]

\* hash_with_cache: metadata gives the mtime, then the row is looked up, unless the
\* database does not open.
Lookup(a) ==
    LET m == rom[audit[a].file].mtime
        row == hashes[audit[a].file]
    IN
    /\ audit[a].at = "sized"
    /\ \/ /\ Cached(row, audit[a].size, m)
          /\ audit' = [audit EXCEPT ![a] = Keyed(audit[a], HashKey(row.of))]
       \/ audit' = [audit EXCEPT ![a].at = "timed", ![a].mtime = m]
    /\ UNCHANGED <<now, rom, hashes, writes, blurred>>

\* The file is read; when it cannot be, its name and size are its key.
ReadFile(a) ==
    /\ audit[a].at = "timed"
    /\ \/ audit' = [audit EXCEPT ![a].at = "hashed", ![a].of = rom[audit[a].file].of]
       \/ audit' = [audit EXCEPT ![a] = Keyed(@, NameKey(audit[a].file, audit[a].size))]
    /\ UNCHANGED <<now, rom, hashes, writes, blurred>>

\* Mutant: the row takes the time at which it is written.
StampedNow(a) == now

Stamp(a) == audit[a].mtime

\* INSERT .. ON CONFLICT(path) DO UPDATE; its failure is ignored.
Store(a) ==
    /\ audit[a].at = "hashed"
    /\ hashes' \in {hashes, [hashes EXCEPT ![audit[a].file] =
                        [size |-> audit[a].size, mtime |-> Stamp(a), of |-> audit[a].of]]}
    /\ audit' = [audit EXCEPT ![a] = Keyed(audit[a], HashKey(audit[a].of))]
    /\ UNCHANGED <<now, rom, writes, blurred>>

\* All files are done: the groups of duplicates are reported and sent.
Reports(a) == audit[a].at = "next" /\ audit[a].todo = {}

\* The process ends, or is killed on the way.
End(a) ==
    /\ audit[a].at # "idle"
    /\ audit' = [audit EXCEPT ![a] = Idle]
    /\ UNCHANGED <<now, rom, hashes, writes, blurred>>

Next ==
    \/ Tick
    \/ \E f \in Roms : Write(f)
    \/ \E a \in Auditors :
          \/ Begin(a) \/ Lookup(a) \/ ReadFile(a) \/ Store(a) \/ End(a)
          \/ \E f \in Roms : StatSize(a, f)

Spec == Init /\ [][Next]_auditVars

-----------------------------------------------------------------------------
(* Properties *)

\* Every variable has its type.
TypeOK ==
    /\ now \in 1..MaxTime /\ writes \in 0..MaxWrites /\ blurred \subseteq Roms
    /\ \A f \in Roms :
          /\ rom[f].of \in Contents /\ rom[f].mtime \in 0..MaxTime
          /\ hashes[f] = None \/ hashes[f].of \in Contents
    /\ \A a \in Auditors :
          /\ audit[a].at \in {"idle", "next", "sized", "timed", "hashed"}
          /\ audit[a].todo \subseteq Roms /\ audit[a].touched \subseteq Roms

\* A row of file_hashes that a lookup would accept is the hash of what the file
\* holds now, whichever audits ran while the file was written, unless the file
\* had two contents under one modification time.
CacheIsRight ==
    \A f \in Roms \ blurred :
        Cached(hashes[f], Size(rom[f].of), rom[f].mtime) => hashes[f].of = rom[f].of

\* Two ROMs reported as duplicates under a hash hold the same content, unless one of
\* them was written since the audit began or had two contents under one modification
\* time: a report that errs makes the player delete the only copy of a game.  A group
\* under a name and a size, that of files that could not be read, promises nothing: two
\* folders may have a file each of that name and size.
DuplicatesAreReal ==
    \A a \in Auditors : Reports(a) =>
        \A p, q \in audit[a].keys :
            /\ p[2] = q[2] /\ p[2].hash # 0
            /\ {p[1], q[1]} \intersect (blurred \union audit[a].touched) = {}
            => rom[p[1]].of = rom[q[1]].of
=============================================================================
