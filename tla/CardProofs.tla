----------------------------- MODULE CardProofs -----------------------------
(***************************************************************************)
(* Proofs about the components of MCCard that make copies, keep backups or *)
(* show a screen, for any files, any processes and any bounds.             *)
(***************************************************************************)
EXTENDS MCCard, FiniteSetTheorems, TLAPS

-----------------------------------------------------------------------------
(* Hashes of the audit (audit.rs)                                          *)

Sizes == {Size(c) : c \in Contents} \union {0}
Row   == [size : Sizes, mtime : 0..MaxTime, of : Contents \union {0}]
Names == {Name(f) : f \in Roms} \union {0}
Key   == [hash : Contents \union {0}, name : Names, size : Sizes]
Keys  == Roms \X Key
Entry == [at : {"idle", "next", "sized", "timed", "hashed"}, todo : SUBSET Roms,
          file : Roms \union {0}, size : Sizes, mtime : 0..MaxTime,
          of : Contents \union {0}, keys : SUBSET Keys, touched : SUBSET Roms]

AuditTypes ==
    /\ auditNow \in 1..MaxTime /\ auditWrites \in 0..MaxWrites /\ blurred \in SUBSET Roms
    /\ rom \in [Roms -> [of : Contents, mtime : 0..MaxTime]]
    /\ hashes \in [Roms -> Row]
    /\ audit \in [Auditors -> Entry]

\* No file is younger than the clock.
TimesInv == \A f \in Roms : rom[f].mtime <= auditNow

\* What was hashed under a time, unless there were two contents under it: it is not
\* younger than the file, and if it is as old it is the file's content.
IsOf(f, mtime, of) ==
    f \in blurred \/ mtime < rom[f].mtime \/ (mtime = rom[f].mtime /\ of = rom[f].of)

RowsInv ==
    \A f \in Roms : hashes[f] = Audit!None \/
        (hashes[f].of \in Contents /\ IsOf(f, hashes[f].mtime, hashes[f].of))

\* What a process has read of a file is of the file, unless it was written since.
ReadInv ==
    \A a \in Auditors : LET e == audit[a] IN
        /\ e.at = "idle" => e.keys = {}
        /\ e.at \in {"sized", "timed", "hashed"} =>
              e.file \in Roms /\ (e.file \in e.touched \/ e.size = Size(rom[e.file].of))
        /\ e.at = "timed" => e.file \in blurred \/ e.mtime <= rom[e.file].mtime
        /\ e.at = "hashed" =>
              /\ e.of \in Contents /\ IsOf(e.file, e.mtime, e.of)
              /\ e.file \in e.touched \/ e.of = rom[e.file].of
        /\ \A k \in e.keys : k[1] \in blurred \union e.touched \/ k[2].hash \in {0, rom[k[1]].of}

AuditInv == AuditTypes /\ TimesInv /\ RowsInv /\ ReadInv

\* A file whose row would be used is what was hashed.
LEMMA RowsAreRight ==
    ASSUME AuditInv, NEW f \in Roms \ blurred,
           Audit!Cached(hashes[f], Size(rom[f].of), rom[f].mtime)
    PROVE  hashes[f].of = rom[f].of
BY DEF AuditInv, AuditTypes, RowsInv, IsOf, Audit!Cached, Row

\* When a file is written, everything that was hashed before is older than it.
LEMMA WriteStep ==
    ASSUME AuditInv, NEW f \in Roms, Audit!Write(f)
    PROVE  AuditInv'
<1> USE DEF AuditInv
<1>1. PICK c \in Contents \ {rom[f].of}, m \in {0, auditNow} :
           /\ rom' = [rom EXCEPT ![f] = [of |-> c, mtime |-> m]]
           /\ blurred' = IF m = auditNow /\ rom[f].mtime # auditNow THEN blurred
                         ELSE blurred \union {f}
  BY DEF Audit!Write
<1>2. /\ auditWrites < MaxWrites /\ auditWrites' = auditWrites + 1
      /\ audit' = [a \in Auditors |->
                      IF audit[a].at = "idle" THEN audit[a]
                      ELSE [audit[a] EXCEPT !.touched = @ \union {f}]]
      /\ UNCHANGED <<auditNow, hashes>>
  BY DEF Audit!Write
<1>3. auditNow \in 1..MaxTime /\ m \in 0..MaxTime /\ m <= auditNow /\ auditWrites' \in 0..MaxWrites
  BY <1>2, CopiesAssumption DEF AuditTypes
<1>4. AuditTypes'
  <2>1. rom' \in [Roms -> [of : Contents, mtime : 0..MaxTime]]
    BY <1>1, <1>3 DEF AuditTypes
  <2>2. audit' \in [Auditors -> Entry]
    <3>1. ASSUME NEW a \in Auditors PROVE audit'[a] \in Entry
      <4>1. audit[a] \in Entry
        BY DEF AuditTypes
      <4>2. [audit[a] EXCEPT !.touched = @ \union {f}] \in Entry
        BY <4>1 DEF Entry
      <4> QED
        BY <1>2, <4>1, <4>2
    <3> QED
      BY <1>2, <3>1 DEF AuditTypes
  <2> QED
    BY <1>1, <1>2, <1>3, <2>1, <2>2 DEF AuditTypes
<1>5. /\ \A g \in Roms : g # f => rom'[g] = rom[g]
      /\ rom'[f].mtime = m /\ blurred \subseteq blurred'
      /\ f \in blurred' \/ rom[f].mtime < m
  <2>1. rom[f] \in [of : Contents, mtime : 0..MaxTime] /\ rom[f].mtime <= auditNow
    BY DEF AuditTypes, TimesInv
  <2>2. f \in blurred' \/ rom[f].mtime < m
    BY <1>1, <1>3, <2>1
  <2> QED
    BY <1>1, <2>2 DEF AuditTypes
<1>6. TimesInv'
  BY <1>2, <1>3, <1>5 DEF TimesInv
<1>7. ASSUME NEW g \in Roms, NEW t \in 0..MaxTime, NEW of, IsOf(g, t, of)
      PROVE  IsOf(g, t, of)'
  BY <1>3, <1>5, <1>7 DEF IsOf, AuditTypes
<1>8. RowsInv'
  BY <1>2, <1>7 DEF RowsInv, AuditTypes, Row
<1>9. ReadInv'
  <2>1. ASSUME NEW a \in Auditors, audit[a].at # "idle"
        PROVE  /\ audit'[a].touched = audit[a].touched \union {f}
               /\ audit'[a].at = audit[a].at /\ audit'[a].file = audit[a].file
               /\ audit'[a].size = audit[a].size /\ audit'[a].mtime = audit[a].mtime
               /\ audit'[a].of = audit[a].of /\ audit'[a].keys = audit[a].keys
    BY <1>2, <2>1 DEF AuditTypes, Entry
  <2>2. ASSUME NEW a \in Auditors, audit[a].at = "idle" PROVE audit'[a] = audit[a]
    BY <1>2, <2>2
  <2>3. ASSUME NEW a \in Auditors, audit[a].at = "timed"
        PROVE  audit[a].file \in blurred' \/ audit[a].mtime <= rom'[audit[a].file].mtime
    BY <1>3, <1>5, <2>3 DEF ReadInv, AuditTypes, Entry
  <2>4. ASSUME NEW a \in Auditors, audit[a].at = "hashed"
        PROVE  IsOf(audit[a].file, audit[a].mtime, audit[a].of)'
    <3>1. audit[a].file \in Roms /\ audit[a].mtime \in 0..MaxTime
      BY <2>4 DEF ReadInv, AuditTypes, Entry
    <3>2. IsOf(audit[a].file, audit[a].mtime, audit[a].of)
      BY <2>4 DEF ReadInv
    <3> QED
      BY <1>7, <2>1, <2>4, <3>1, <3>2
  <2> QED
    BY <1>5, <2>1, <2>2, <2>3, <2>4 DEF ReadInv, AuditTypes, Entry, Keys
<1> QED
  BY <1>4, <1>6, <1>8, <1>9

\* A process that takes a step has a whole entry again.
LEMMA StepTypes ==
    ASSUME AuditInv, NEW a \in Auditors, NEW e \in Entry, audit' = [audit EXCEPT ![a] = e],
           UNCHANGED <<auditNow, rom, hashes, auditWrites, blurred>>
    PROVE  AuditTypes' /\ TimesInv' /\ RowsInv'
BY DEF AuditInv, AuditTypes, TimesInv, RowsInv, IsOf

\* What is read of one file leaves what other processes have read alone.
LEMMA OthersKeep ==
    ASSUME AuditInv, NEW a \in Auditors, NEW e \in Entry, audit' = [audit EXCEPT ![a] = e],
           UNCHANGED <<rom, blurred>>,
           e.at = "idle" => e.keys = {},
           e.at \in {"sized", "timed", "hashed"} =>
              e.file \in Roms /\ (e.file \in e.touched \/ e.size = Size(rom[e.file].of)),
           e.at = "timed" => e.file \in blurred \/ e.mtime <= rom[e.file].mtime,
           e.at = "hashed" =>
              /\ e.of \in Contents /\ IsOf(e.file, e.mtime, e.of)
              /\ e.file \in e.touched \/ e.of = rom[e.file].of,
           \A k \in e.keys : k[1] \in blurred \union e.touched \/ k[2].hash \in {0, rom[k[1]].of}
    PROVE  ReadInv'
<1>1. audit'[a] = e /\ \A b \in Auditors : b # a => audit'[b] = audit[b]
  BY DEF AuditInv, AuditTypes
<1>2. \A f, t, of : IsOf(f, t, of)' <=> IsOf(f, t, of)
  BY DEF IsOf
<1> QED
  BY <1>1, <1>2 DEF AuditInv, ReadInv

\* A file's key joins the others.
LEMMA KeyJoins ==
    ASSUME NEW e \in Entry, e.file \in Roms, NEW key \in Key
    PROVE  /\ Audit!Keyed(e, key) \in Entry /\ Audit!Keyed(e, key).at = "next"
           /\ Audit!Keyed(e, key).keys = e.keys \union {<<e.file, key>>}
           /\ Audit!Keyed(e, key).touched = e.touched
<1>1. <<e.file, key>> \in Keys /\ 0 \in 0..MaxTime /\ 0 \in Sizes
  BY CopiesAssumption DEF Keys, Sizes
<1> QED
  BY <1>1 DEF Entry, Audit!Keyed

\* A key is a hash, or a name and a size.
LEMMA KeyIs ==
    /\ \A c \in Contents : Audit!HashKey(c) \in Key /\ Audit!HashKey(c).hash = c
    /\ \A f \in Roms, n \in Sizes : Audit!NameKey(f, n) \in Key /\ Audit!NameKey(f, n).hash = 0
BY DEF Audit!HashKey, Audit!NameKey, Key, Names, Sizes

LEMMA AuditStep ==
    ASSUME AuditInv, Audit!Next
    PROVE  AuditInv'
<1> USE DEF AuditInv
<1>1. CASE Audit!Tick
  <2>1. auditNow' \in 1..MaxTime /\ auditNow < auditNow'
    BY <1>1, CopiesAssumption DEF Audit!Tick, AuditTypes
  <2>2. UNCHANGED <<rom, hashes, audit, auditWrites, blurred>>
    BY <1>1 DEF Audit!Tick
  <2>3. TimesInv'
    BY <2>1, <2>2 DEF TimesInv, AuditTypes
  <2> QED
    BY <2>1, <2>2, <2>3 DEF AuditTypes, RowsInv, ReadInv, IsOf
<1>2. CASE \E f \in Roms : Audit!Write(f)
  BY <1>2, WriteStep
<1>3. ASSUME NEW a \in Auditors, Audit!Begin(a) \/ Audit!End(a)
      PROVE  AuditInv'
  <2>1. Audit!Idle \in Entry /\ [Audit!Idle EXCEPT !.at = "next", !.todo = Roms] \in Entry
    <3>1. 0 \in 0..MaxTime /\ 0 \in Sizes
      BY CopiesAssumption DEF Sizes
    <3> QED
      BY <3>1 DEF Entry, Audit!Idle
  <2>2. PICK e \in Entry : audit' = [audit EXCEPT ![a] = e] /\ e.keys = {}
                           /\ e.at \in {"idle", "next"}
    BY <1>3, <2>1 DEF Audit!Begin, Audit!End, Audit!Idle
  <2>3. UNCHANGED <<auditNow, rom, hashes, auditWrites, blurred>>
    BY <1>3 DEF Audit!Begin, Audit!End
  <2> QED
    BY <2>2, <2>3, StepTypes, OthersKeep
<1>4. ASSUME NEW a \in Auditors, NEW f \in Roms, Audit!StatSize(a, f)
      PROVE  AuditInv'
  <2> DEFINE e == [audit[a] EXCEPT !.at = "sized", !.todo = @ \ {f}, !.file = f,
                                   !.size = Size(rom[f].of)]
  <2>1. audit' = [audit EXCEPT ![a] = e] \/ audit' = [audit EXCEPT ![a].todo = @ \ {f}]
    BY <1>4 DEF Audit!StatSize, AuditTypes
  <2>2. /\ e \in Entry /\ e.at = "sized" /\ e.file = f /\ e.size = Size(rom[f].of)
        /\ e.keys = audit[a].keys /\ e.touched = audit[a].touched
    BY DEF AuditTypes, Entry, Sizes
  <2>3. UNCHANGED <<auditNow, rom, hashes, auditWrites, blurred>>
    BY <1>4 DEF Audit!StatSize
  <2> HIDE DEF e
  <2>4. \A k \in e.keys : k[1] \in blurred \union e.touched \/ k[2].hash \in {0, rom[k[1]].of}
    BY <2>2 DEF ReadInv
  <2>5. CASE audit' = [audit EXCEPT ![a] = e]
    BY <2>2, <2>3, <2>4, <2>5, StepTypes, OthersKeep
  <2>6. CASE audit' = [audit EXCEPT ![a].todo = @ \ {f}]
    <3> DEFINE d == [audit[a] EXCEPT !.todo = @ \ {f}]
    <3>1. audit' = [audit EXCEPT ![a] = d]
      BY <2>6 DEF AuditTypes
    <3>2. /\ d \in Entry /\ d.at = "next" /\ d.keys = audit[a].keys
          /\ d.touched = audit[a].touched
      BY <1>4 DEF Audit!StatSize, AuditTypes, Entry
    <3> HIDE DEF d
    <3>3. \A k \in d.keys : k[1] \in blurred \union d.touched \/ k[2].hash \in {0, rom[k[1]].of}
      BY <3>2 DEF ReadInv
    <3> QED
      BY <2>3, <3>1, <3>2, <3>3, StepTypes, OthersKeep
  <2> QED
    BY <2>1, <2>5, <2>6
<1>5. ASSUME NEW a \in Auditors, Audit!Lookup(a) PROVE AuditInv'
  <2> DEFINE f == audit[a].file
  <2>1. /\ f \in Roms /\ (f \in audit[a].touched \/ audit[a].size = Size(rom[f].of))
        /\ audit[a] \in Entry /\ rom[f].mtime \in 0..MaxTime /\ hashes[f] \in Row
    BY <1>5 DEF Audit!Lookup, ReadInv, AuditTypes
  <2>2. UNCHANGED <<auditNow, rom, hashes, auditWrites, blurred>>
    BY <1>5 DEF Audit!Lookup
  <2> DEFINE key == Audit!HashKey(hashes[f].of)
             known == Audit!Keyed(audit[a], key)
             timed == [audit[a] EXCEPT !.at = "timed", !.mtime = rom[f].mtime]
  <2>3. CASE Audit!Cached(hashes[f], audit[a].size, rom[f].mtime)
             /\ audit' = [audit EXCEPT ![a] = known]
    <3> DEFINE e == known
    <3>1. audit' = [audit EXCEPT ![a] = e]
      BY <2>3
    <3>2. hashes[f] # Audit!None /\ hashes[f].of \in Contents
      BY <2>1, <2>3 DEF Audit!Cached, RowsInv
    <3>3. f \in blurred \union audit[a].touched \/ rom[f].of = hashes[f].of
      BY <2>1, <2>3, RowsAreRight
    <3>4. /\ key \in Key /\ key.hash = hashes[f].of
          /\ e \in Entry /\ e.at = "next" /\ e.keys = audit[a].keys \union {<<f, key>>}
          /\ e.touched = audit[a].touched
      BY <2>1, <3>2, KeyIs, KeyJoins
    <3> HIDE DEF e, known, key
    <3>5. \A k \in e.keys : k[1] \in blurred \union e.touched \/ k[2].hash \in {0, rom[k[1]].of}
      BY <3>3, <3>4 DEF ReadInv
    <3> QED
      BY <2>2, <3>1, <3>4, <3>5, StepTypes, OthersKeep
  <2>4. CASE audit' = [audit EXCEPT ![a] = timed]
    <3> DEFINE e == timed
    <3>1. audit' = [audit EXCEPT ![a] = e]
      BY <2>4
    <3>2. /\ e \in Entry /\ e.at = "timed" /\ e.file = f /\ e.size = audit[a].size
          /\ e.mtime = rom[f].mtime /\ e.keys = audit[a].keys /\ e.touched = audit[a].touched
      BY <2>1 DEF Entry
    <3> HIDE DEF e, timed
    <3>3. \A k \in e.keys : k[1] \in blurred \union e.touched \/ k[2].hash \in {0, rom[k[1]].of}
      BY <3>2 DEF ReadInv
    <3>4. e.mtime <= rom[e.file].mtime
      BY <2>1, <3>2
    <3>5. e.file \in Roms /\ (e.file \in e.touched \/ e.size = Size(rom[e.file].of))
      BY <2>1, <3>2
    <3>6. ReadInv'
      BY <2>2, <3>1, <3>2, <3>3, <3>4, <3>5, OthersKeep
    <3> QED
      BY <2>2, <3>1, <3>2, <3>6, StepTypes
  <2>5. \/ Audit!Cached(hashes[f], audit[a].size, rom[f].mtime)
           /\ audit' = [audit EXCEPT ![a] = known]
        \/ audit' = [audit EXCEPT ![a] = timed]
    BY <1>5 DEF Audit!Lookup, AuditTypes
  <2> QED
    BY <2>3, <2>4, <2>5
<1>6. ASSUME NEW a \in Auditors, Audit!ReadFile(a) PROVE AuditInv'
  <2> DEFINE f == audit[a].file
  <2>1. /\ f \in Roms /\ (f \in audit[a].touched \/ audit[a].size = Size(rom[f].of))
        /\ f \in blurred \/ audit[a].mtime <= rom[f].mtime
        /\ audit[a] \in Entry /\ rom[f].mtime \in 0..MaxTime /\ rom[f].of \in Contents
    BY <1>6 DEF Audit!ReadFile, ReadInv, AuditTypes
  <2>2. UNCHANGED <<auditNow, rom, hashes, auditWrites, blurred>>
    BY <1>6 DEF Audit!ReadFile
  <2> DEFINE e == [audit[a] EXCEPT !.at = "hashed", !.of = rom[f].of]
  <2>3. CASE audit' = [audit EXCEPT ![a] = e]
    <3>1. /\ e \in Entry /\ e.at = "hashed" /\ e.file = f /\ e.size = audit[a].size
          /\ e.of = rom[f].of /\ e.mtime = audit[a].mtime /\ e.mtime \in 0..MaxTime
          /\ e.keys = audit[a].keys /\ e.touched = audit[a].touched
      BY <2>1 DEF Entry
    <3> HIDE DEF e
    <3>2. \A k \in e.keys : k[1] \in blurred \union e.touched \/ k[2].hash \in {0, rom[k[1]].of}
      BY <3>1 DEF ReadInv
    <3>3. IsOf(f, e.mtime, e.of)
      BY <2>1, <3>1 DEF IsOf
    <3> QED
      BY <2>1, <2>2, <2>3, <3>1, <3>2, <3>3, StepTypes, OthersKeep
  <2> DEFINE key == Audit!NameKey(f, audit[a].size)
             d == Audit!Keyed(audit[a], key)
  <2>4. CASE audit' = [audit EXCEPT ![a] = d]
    <3>1. audit[a].size \in Sizes
      BY <2>1 DEF Entry
    <3>2. key \in Key /\ key.hash = 0
      BY <2>1, <3>1, KeyIs
    <3>3. /\ d \in Entry /\ d.at = "next" /\ d.keys = audit[a].keys \union {<<f, key>>}
          /\ d.touched = audit[a].touched
      BY <2>1, <3>2, KeyJoins
    <3> HIDE DEF d, key
    <3>4. \A k \in d.keys : k[1] \in blurred \union d.touched \/ k[2].hash \in {0, rom[k[1]].of}
      BY <3>2, <3>3 DEF ReadInv
    <3> QED
      BY <2>2, <2>4, <3>3, <3>4, StepTypes, OthersKeep
  <2>5. audit' = [audit EXCEPT ![a] = e] \/ audit' = [audit EXCEPT ![a] = d]
    BY <1>6 DEF Audit!ReadFile, AuditTypes
  <2> QED
    BY <2>3, <2>4, <2>5
<1>7. ASSUME NEW a \in Auditors, Audit!Store(a) PROVE AuditInv'
  <2> DEFINE f == audit[a].file
             c == audit[a].of
             key == Audit!HashKey(c)
             e == Audit!Keyed(audit[a], key)
             row == [size |-> audit[a].size, mtime |-> audit[a].mtime, of |-> c]
  <2>1. /\ f \in Roms /\ audit[a] \in Entry /\ c \in Contents /\ IsOf(f, audit[a].mtime, c)
        /\ f \in audit[a].touched \/ c = rom[f].of
    BY <1>7 DEF Audit!Store, ReadInv, AuditTypes
  <2>2. /\ audit' = [audit EXCEPT ![a] = e]
        /\ hashes' \in {hashes, [hashes EXCEPT ![f] = row]}
        /\ UNCHANGED <<auditNow, rom, auditWrites, blurred>>
    BY <1>7 DEF Audit!Store, Audit!Stamp
  <2>3. /\ key.hash = c
        /\ e \in Entry /\ e.at = "next" /\ e.keys = audit[a].keys \union {<<f, key>>}
        /\ e.touched = audit[a].touched
    BY <2>1, KeyIs, KeyJoins
  <2>4. row \in Row /\ row.of = c /\ row.mtime = audit[a].mtime
    BY <2>1 DEF Row, Entry
  <2> HIDE DEF e, row, key
  <2>5. AuditTypes' /\ TimesInv'
    BY <2>2, <2>3, <2>4 DEF AuditTypes, TimesInv
  <2>6. RowsInv'
    BY <2>1, <2>2, <2>4 DEF RowsInv, AuditTypes, IsOf
  <2>7. \A k \in e.keys : k[1] \in blurred \union e.touched \/ k[2].hash \in {0, rom[k[1]].of}
    BY <2>1, <2>3 DEF ReadInv
  <2>8. ReadInv'
    BY <2>2, <2>3, <2>7, OthersKeep
  <2> QED
    BY <2>5, <2>6, <2>8
<1> QED
  BY <1>1, <1>2, <1>3, <1>4, <1>5, <1>6, <1>7 DEF Audit!Next

\* From the start, and to what is promised.
LEMMA AuditStart == Audit!Init => AuditInv
<1> SUFFICES ASSUME Audit!Init PROVE AuditInv
  OBVIOUS
<1>1. Audit!Idle \in Entry /\ Audit!None \in Row
  BY CopiesAssumption DEF Entry, Audit!Idle, Sizes, Audit!None, Row
<1>2. AuditTypes
  BY <1>1, CopiesAssumption DEF Audit!Init, AuditTypes
<1> QED
  BY <1>2 DEF Audit!Init, AuditInv, TimesInv, RowsInv, ReadInv, Audit!Idle

LEMMA AuditAgrees ==
    AuditInv => Audit!TypeOK /\ Audit!CacheIsRight /\ Audit!DuplicatesAreReal
<1> SUFFICES ASSUME AuditInv
             PROVE  Audit!TypeOK /\ Audit!CacheIsRight /\ Audit!DuplicatesAreReal
  OBVIOUS
<1>1. Audit!TypeOK
  BY DEF AuditInv, AuditTypes, RowsInv, Entry, Audit!TypeOK
<1>2. Audit!CacheIsRight
  BY RowsAreRight DEF Audit!CacheIsRight
<1>3. Audit!DuplicatesAreReal
  <2>1. \A a \in Auditors : \A k \in audit[a].keys :
            k[1] \in blurred \union audit[a].touched \/ k[2].hash \in {0, rom[k[1]].of}
    BY DEF AuditInv, ReadInv
  <2> QED
    BY <2>1 DEF Audit!DuplicatesAreReal
<1> QED
  BY <1>1, <1>2, <1>3

-----------------------------------------------------------------------------
(* Installs of a port (portmaster.rs)                                      *)

Inst == [at : {"idle", "got", "load", "unpack", "copy", "ok"}, release : Releases \union {0},
         inode : Inodes \union {0}, next : Nat \ {0}, alone : BOOLEAN]

PortTypes ==
    /\ part \in Inodes \union {0} /\ installs \in 0..MaxInstalls
    /\ chunks \in [Inodes -> [Entries -> Releases \union {0}]]
    /\ installed \in [Entries -> Releases \union {Port!None, Port!NotWhole}]
    /\ inst \in [Installers -> Inst]
    /\ \A i \in Installers :
          /\ inst[i].at # "idle" => inst[i].release \in Releases
          /\ inst[i].at = "load" => inst[i].inode \in Inodes
          /\ inst[i].at = "copy" => inst[i].next <= Port!Last
          /\ inst[i].at = "ok" => inst[i].next > Port!Last

\* Nobody else unpacks while a process is alone, and what it is past is of its release.
AloneInv ==
    \A i \in Installers : inst[i].at \in {"unpack", "copy", "ok"} /\ inst[i].alone =>
        /\ \A j \in Installers \ {i} : ~Port!Unpacking(j)
        /\ \A e \in Entries : e < inst[i].next => installed[e] = inst[i].release

PortInv == PortTypes /\ AloneInv

\* The last entry of a zip has its number.
LEMMA LastEntry ==
    /\ Port!Last \in Nat \ {0} /\ Entries = 1..Port!Last
<1>1. Cardinality(Entries) \in Nat \ {0} /\ Entries = 1..Cardinality(Entries)
  BY CopiesAssumption, FS_CardinalityType, FS_EmptySet
<1>2. Port!Cardinality(Entries) = Cardinality(Entries)
  BY DEF Cardinality, Port!Cardinality
<1> QED
  BY <1>1, <1>2 DEF Port!Last

\* A process that takes a step by itself has a whole entry again.
LEMMA InstallerMoves ==
    ASSUME PortInv, NEW i \in Installers, NEW e \in Inst, inst' = [inst EXCEPT ![i] = e],
           UNCHANGED installed, part' \in Inodes \union {0}, installs' \in 0..MaxInstalls,
           chunks' \in [Inodes -> [Entries -> Releases \union {0}]],
           e.at # "idle" => e.release \in Releases,
           e.at = "load" => e.inode \in Inodes,
           e.at = "copy" => e.next <= Port!Last,
           e.at = "ok" => e.next > Port!Last,
           e.at \in {"unpack", "copy", "ok"} =>
              /\ Port!Unpacking(i) /\ e.release = inst[i].release
              /\ e.next = inst[i].next /\ e.alone = inst[i].alone
    PROVE  PortInv'
<1>1. inst'[i] = e /\ \A j \in Installers : j # i => inst'[j] = inst[j]
  BY DEF PortInv, PortTypes
<1>2. PortTypes'
  BY <1>1 DEF PortInv, PortTypes
<1>3. \A j \in Installers : Port!Unpacking(j)' => Port!Unpacking(j)
  BY <1>1 DEF Port!Unpacking
<1>4. AloneInv'
  BY <1>1, <1>3 DEF PortInv, AloneInv, Port!Unpacking
<1> QED
  BY <1>2, <1>4 DEF PortInv

\* The entry of a process that has opened the file.
Opened(r, n, k, l, b) ==
    [r EXCEPT !.at = "unpack", !.inode = n, !.next = k, !.release = l, !.alone = b]

LEMMA OpenedIs ==
    ASSUME NEW r \in Inst, NEW b \in BOOLEAN, NEW l \in Releases, NEW n \in Inodes,
           NEW k \in Nat \ {0}
    PROVE  /\ Opened(r, n, k, l, b) \in Inst /\ Opened(r, n, k, l, b).at = "unpack"
           /\ Opened(r, n, k, l, b).next = k /\ Opened(r, n, k, l, b).release = l
           /\ Opened(r, n, k, l, b).alone = b
<1> DEFINE c == [r EXCEPT !.at = "unpack", !.inode = n]
           d == [c EXCEPT !.next = k, !.release = l]
           e == Opened(r, n, k, l, b)
<1>1. c \in Inst
  BY DEF Inst
<1>2. e = [d EXCEPT !.alone = b]
  BY DEF Inst, Opened
<1>3. c.at = "unpack"
  BY DEF Inst
<1> HIDE DEF c, e
<1>4. d \in Inst
  BY <1>1 DEF Inst
<1>5. d.at = "unpack" /\ d.next = k /\ d.release = l
  BY <1>1, <1>3 DEF Inst
<1> HIDE DEF d
<1>6. ASSUME NEW v
      PROVE  [d EXCEPT !.alone = v] = [at |-> d.at, release |-> d.release, inode |-> d.inode,
                                       next |-> d.next, alone |-> v]
  BY <1>4 DEF Inst
<1>7. e = [at |-> d.at, release |-> d.release, inode |-> d.inode, next |-> d.next, alone |-> b]
  BY <1>2, <1>6
<1>8. e \in Inst
  BY <1>4, <1>7 DEF Inst
<1>9. e.at = "unpack" /\ e.next = k /\ e.release = l /\ e.alone = b
  BY <1>5, <1>7
<1> QED
  BY <1>8, <1>9 DEF e

LEMMA PortStep ==
    ASSUME PortInv, Port!Next
    PROVE  PortInv'
<1> USE LastEntry DEF PortInv
<1>1. Port!Idle \in Inst /\ Port!Idle.at = "idle"
  BY DEF Inst, Port!Idle
<1>2. ASSUME NEW i \in Installers, Port!Get(i) PROVE PortInv'
  <2>1. PICK r \in Releases : inst' = [inst EXCEPT ![i] = [Port!Idle EXCEPT !.at = "got", !.release = r]]
    BY <1>2 DEF Port!Get
  <2> DEFINE e == [Port!Idle EXCEPT !.at = "got", !.release = r]
  <2>2. e \in Inst /\ e.at = "got" /\ e.release = r
    BY <1>1 DEF Inst, Port!Idle
  <2>3. /\ UNCHANGED <<part, chunks, installed>> /\ installs' \in 0..MaxInstalls
    BY <1>2, CopiesAssumption DEF Port!Get, PortTypes
  <2> HIDE DEF e
  <2> QED
    BY <2>1, <2>2, <2>3, InstallerMoves DEF e, PortTypes
<1>3. ASSUME NEW i \in Installers, Port!Create(i) PROVE PortInv'
  <2>1. inst[i].at = "got" /\ UNCHANGED <<installed, installs>> /\ inst[i] \in Inst
    BY <1>3 DEF Port!Create, PortTypes
  <2>2. PICK n \in Inodes :
             /\ part' = n /\ chunks' = [chunks EXCEPT ![n] = Port!Blank]
             /\ inst' = [inst EXCEPT ![i].at = "load", ![i].inode = n]
    BY <1>3 DEF Port!Create, PortTypes
  <2> DEFINE e == [inst[i] EXCEPT !.at = "load", !.inode = n]
  <2>3. /\ e \in Inst /\ e.at = "load" /\ e.inode = n /\ e.release \in Releases
        /\ inst' = [inst EXCEPT ![i] = e]
    BY <2>1, <2>2 DEF Inst, PortTypes
  <2>4. chunks' \in [Inodes -> [Entries -> Releases \union {0}]]
    BY <2>2 DEF PortTypes, Port!Blank
  <2> HIDE DEF e
  <2> QED
    BY <2>1, <2>2, <2>3, <2>4, InstallerMoves DEF PortTypes
<1>4. ASSUME NEW i \in Installers, Port!Load(i) PROVE PortInv'
  <2>1. /\ inst[i].at = "load" /\ inst[i].next <= Port!Last
        /\ UNCHANGED <<part, installed, installs>> /\ inst[i] \in Inst
        /\ inst[i].inode \in Inodes /\ inst[i].release \in Releases
        /\ chunks' = [chunks EXCEPT ![inst[i].inode][inst[i].next] = inst[i].release]
    BY <1>4 DEF Port!Load, PortTypes
  <2> DEFINE e == [inst[i] EXCEPT !.next = @ + 1]
  <2>4. inst[i].next + 1 \in Nat \ {0}
    BY <2>1 DEF Inst
  <2>5. inst' = [inst EXCEPT ![i] = e]
    BY <1>4 DEF Port!Load
  <2>2. /\ e \in Inst /\ e.at = "load" /\ e.inode \in Inodes /\ e.release \in Releases
        /\ inst' = [inst EXCEPT ![i] = e]
    BY <2>1, <2>4, <2>5 DEF Inst
  <2>3. chunks' \in [Inodes -> [Entries -> Releases \union {0}]]
    BY <2>1 DEF PortTypes
  <2> HIDE DEF e
  <2> QED
    BY <2>1, <2>2, <2>3, InstallerMoves DEF PortTypes
<1>5. ASSUME NEW i \in Installers, Port!Fail(i) PROVE PortInv'
  BY <1>1, <1>5, InstallerMoves DEF Port!Fail, PortTypes
<1>6. ASSUME NEW i \in Installers, Port!Open(i) PROVE PortInv'
  <2>1. UNCHANGED <<part, chunks, installed, installs>>
    BY <1>6 DEF Port!Open
  <2>2. ASSUME NEW j \in Installers, j # i
        PROVE  /\ inst'[j] \in Inst /\ inst'[j].at = inst[j].at
               /\ inst'[j].release = inst[j].release /\ inst'[j].inode = inst[j].inode
               /\ inst'[j].next = inst[j].next
               /\ inst'[j].alone => inst[j].at \notin {"unpack", "copy", "ok"}
    BY <1>6, <2>2 DEF Port!Open, PortTypes, Inst
  <2>5. inst' = [j \in Installers |-> inst'[j]]
    BY <1>6 DEF Port!Open
  <2>6. ASSUME inst'[i] \in Inst, inst'[i].at = "idle" \/ inst'[i].release \in Releases,
               inst'[i].at \in {"idle", "unpack"}
        PROVE  PortTypes'
    <3>1. inst' \in [Installers -> Inst]
      BY <2>2, <2>5, <2>6
    <3>2. \A j \in Installers :
             /\ inst'[j].at # "idle" => inst'[j].release \in Releases
             /\ inst'[j].at = "load" => inst'[j].inode \in Inodes
             /\ inst'[j].at = "copy" => inst'[j].next <= Port!Last
             /\ inst'[j].at = "ok" => inst'[j].next > Port!Last
      BY <2>2, <2>6 DEF PortTypes
    <3> QED
      BY <2>1, <3>1, <3>2 DEF PortTypes
  <2>3. CASE part = 0 \/ chunks[part][Port!Last] = 0
    <3>1. inst'[i] = Port!Idle
      BY <1>6, <2>3 DEF Port!Open
    <3>2. PortTypes'
      BY <1>1, <2>6, <3>1
    <3>3. AloneInv'
      BY <1>1, <2>2, <3>1 DEF AloneInv
    <3> QED
      BY <3>2, <3>3
  <2>4. CASE ~(part = 0 \/ chunks[part][Port!Last] = 0)
    <3> DEFINE q == \A k \in Installers \ {i} : ~Port!Unpacking(k)
               e == Opened(inst[i], part, 1, chunks[part][Port!Last], q)
    <3>1. inst'[i] = e
      BY <1>6, <2>4 DEF Port!Open, Opened
    <3>2. chunks[part][Port!Last] \in Releases /\ part \in Inodes
      BY <2>4 DEF PortTypes
    <3>0. q \in BOOLEAN
      OBVIOUS
    <3>7. inst[i] \in Inst /\ 1 \in Nat \ {0}
      BY DEF PortTypes
    <3> HIDE DEF q
    <3>8. /\ e \in Inst /\ e.at = "unpack" /\ e.next = 1
          /\ e.release = chunks[part][Port!Last] /\ e.alone = q
      BY <3>0, <3>2, <3>7, OpenedIs
    <3>3. /\ e \in Inst /\ e.at = "unpack" /\ e.next = 1 /\ e.release \in Releases
          /\ e.alone => \A k \in Installers \ {i} : ~Port!Unpacking(k)
      BY <3>2, <3>8 DEF q
    <3> HIDE DEF e
    <3>4. PortTypes'
      BY <2>6, <3>1, <3>3
    <3>5. \A k \in Installers \ {i} : Port!Unpacking(k)' = Port!Unpacking(k)
      BY <2>2 DEF Port!Unpacking
    <3>6. AloneInv'
      BY <2>2, <3>1, <3>3, <3>5 DEF AloneInv
    <3> QED
      BY <3>4, <3>6
  <2> QED
    BY <2>3, <2>4
<1>7. ASSUME NEW i \in Installers, Port!Begin(i) PROVE PortInv'
  <2> DEFINE e == [inst[i] EXCEPT !.at = "copy"]
  <2>1. /\ inst[i].at = "unpack" /\ inst[i].next <= Port!Last /\ inst[i] \in Inst
        /\ UNCHANGED <<part, chunks, installs>> /\ inst' = [inst EXCEPT ![i] = e]
        /\ installed' = [installed EXCEPT ![inst[i].next] = Port!NotWhole]
    BY <1>7 DEF Port!Begin, PortTypes
  <2>2. /\ e \in Inst /\ e.at = "copy" /\ e.release = inst[i].release /\ e.inode = inst[i].inode
        /\ e.next = inst[i].next /\ e.alone = inst[i].alone
    BY <2>1 DEF Inst
  <2> HIDE DEF e
  <2>3. inst'[i] = e /\ \A j \in Installers : j # i => inst'[j] = inst[j]
    BY <2>1 DEF PortTypes
  <2>4. PortTypes'
    BY <2>1, <2>2, <2>3 DEF PortTypes
  <2>5. Port!Unpacking(i) /\ \A j \in Installers : Port!Unpacking(j)' = Port!Unpacking(j)
    BY <2>1, <2>2, <2>3 DEF Port!Unpacking
  <2>6. AloneInv'
    BY <2>1, <2>2, <2>3, <2>5 DEF AloneInv, PortTypes
  <2> QED
    BY <2>4, <2>6
<1>8. ASSUME NEW i \in Installers, Port!Copy(i) PROVE PortInv'
  <2>1. /\ inst[i].at = "copy" /\ inst[i].next <= Port!Last /\ inst[i] \in Inst
        /\ inst[i].release \in Releases /\ UNCHANGED <<part, chunks, installs>>
    BY <1>8 DEF Port!Copy, PortTypes
  <2>2. CASE Port!Sound(i)
    <3> DEFINE e == [inst[i] EXCEPT !.at = "unpack", !.next = @ + 1]
    <3>1. inst' = [inst EXCEPT ![i] = e]
      BY <1>8, <2>2 DEF Port!Copy, PortTypes
    <3>2. PICK r \in {inst[i].release} \union (IF inst[i].alone THEN {} ELSE {Port!NotWhole}) :
               installed' = [installed EXCEPT ![inst[i].next] = r]
      BY <1>8, <2>2 DEF Port!Copy
    <3>9. inst[i].next + 1 \in Nat \ {0}
      BY <2>1 DEF Inst
    <3>3. /\ e \in Inst /\ e.at = "unpack" /\ e.release = inst[i].release
          /\ e.next = inst[i].next + 1 /\ e.alone = inst[i].alone
      BY <2>1, <3>9 DEF Inst
    <3> HIDE DEF e
    <3>4. inst'[i] = e /\ \A j \in Installers : j # i => inst'[j] = inst[j]
      BY <3>1 DEF PortTypes
    <3>5. PortTypes'
      BY <2>1, <3>1, <3>2, <3>3, <3>4 DEF PortTypes
    <3>6. Port!Unpacking(i) /\ \A j \in Installers : Port!Unpacking(j)' = Port!Unpacking(j)
      BY <2>1, <3>3, <3>4 DEF Port!Unpacking
    <3>7. ASSUME inst[i].alone, NEW d \in Entries, d < inst[i].next + 1
          PROVE  installed'[d] = inst[i].release
      BY <2>1, <3>2, <3>7 DEF AloneInv, PortTypes, Inst
    <3>8. AloneInv'
      BY <2>1, <3>3, <3>4, <3>6, <3>7 DEF AloneInv, PortTypes
    <3> QED
      BY <3>5, <3>8
  <2>3. CASE ~Port!Sound(i)
    <3>1. UNCHANGED installed /\ inst' = [inst EXCEPT ![i] = Port!Idle]
      BY <1>8, <2>3 DEF Port!Copy, Port!Stopped
    <3> QED
      BY <1>1, <2>1, <3>1, InstallerMoves DEF PortTypes
  <2> QED
    BY <2>2, <2>3
<1>9. ASSUME NEW i \in Installers, Port!Finish(i) PROVE PortInv'
  <2> DEFINE e == [inst[i] EXCEPT !.at = "ok", !.inode = 0]
  <2>1. /\ inst[i].at = "unpack" /\ inst[i].next > Port!Last /\ inst[i] \in Inst
        /\ inst[i].release \in Releases
        /\ part' = 0 /\ UNCHANGED <<chunks, installed, installs>>
        /\ inst' = [inst EXCEPT ![i] = e]
    BY <1>9 DEF Port!Finish, PortTypes
  <2>2. /\ e \in Inst /\ e.at = "ok" /\ e.release = inst[i].release
        /\ e.next = inst[i].next /\ e.alone = inst[i].alone
    BY <2>1 DEF Inst
  <2> HIDE DEF e
  <2> QED
    BY <2>1, <2>2, InstallerMoves DEF PortTypes, Port!Unpacking
<1> QED
  BY <1>2, <1>3, <1>4, <1>5, <1>6, <1>7, <1>8, <1>9 DEF Port!Next

LEMMA PortStart == Port!Init => PortInv
<1> SUFFICES ASSUME Port!Init PROVE PortInv
  OBVIOUS
<1>1. Port!Idle \in Inst /\ Port!Idle.at = "idle"
  BY DEF Inst, Port!Idle
<1> QED
  BY <1>1, CopiesAssumption DEF Port!Init, PortInv, PortTypes, AloneInv, Port!Blank

LEMMA PortAgrees == PortInv => Port!TypeOK /\ Port!SuccessIsWhole
<1> SUFFICES ASSUME PortInv PROVE Port!TypeOK /\ Port!SuccessIsWhole
  OBVIOUS
<1>1. Port!TypeOK
  BY DEF PortInv, PortTypes, Inst, Port!TypeOK
<1>2. \A i \in Installers : inst[i].at = "ok" => \A e \in Entries : e < inst[i].next
  BY LastEntry DEF PortInv, PortTypes, Inst
<1> QED
  BY <1>1, <1>2 DEF PortInv, AloneInv, Port!SuccessIsWhole

-----------------------------------------------------------------------------
(* Archives of the saves (saves.rs, and saves_upload of routes.rs)         *)

Packed  == [save : Saves, header : 0..MaxLength, data : 0..MaxLength, before : SUBSET Saves]
Archive == [there : BOOLEAN, entries : SUBSET Packed, whole : BOOLEAN, mixed : BOOLEAN,
            second : 0..MaxTime, listed : SUBSET Saves, written : SUBSET Saves]
Packing == [at : {"idle", "next", "open", "packed", "sent", "received", "answered"},
            second : 0..MaxTime, todo : SUBSET Saves, open : Saves \union {0},
            header : 0..MaxLength, name : 0..MaxTime, listed : SUBSET Saves,
            written : SUBSET Saves, body : Archive]

\* A process that is at something has a second of its own, and what it works on.
AtWork(e) ==
    /\ e.at # "idle" => e.second # 0
    /\ e.at = "open" => e.open \in Saves
    /\ e.at = "received" => e.name # 0

PackTypes ==
    /\ packNow \in 1..MaxTime /\ save \in [Saves -> 0..MaxLength]
    /\ packWrites \in 0..MaxWrites /\ packs \in 0..MaxPacks
    /\ temp \in [1..MaxTime -> Archive]
    /\ packer \in [Packers -> Packing] /\ \A p \in Packers : AtWork(packer[p])

\* An archive has what it should have, unless two wrote it: a header that is wrong is that
\* of a save a game wrote.
Sound(f) ==
    ~f.mixed =>
        /\ f.whole
        /\ {e.save : e \in f.entries} = f.listed
        /\ \A e \in f.entries : e.header = e.data \/ e.save \in f.written

\* What a process has packed, what it is at and what it has to do is all it listed.
Packs(e, f) ==
    f.there /\ ~f.mixed =>
        /\ {x.save : x \in f.entries} \union e.todo
              \union (IF e.at = "open" THEN {e.open} ELSE {}) = e.listed
        /\ \A x \in f.entries : x.header = x.data \/ x.save \in e.written
        /\ e.at = "open" => e.header = save[e.open] \/ e.open \in e.written
        /\ e.at = "packed" => e.todo = {} /\ f.whole

\* Two processes of one second know it from the file, or have none.
OneInv ==
    \A p, q \in Packers : p # q /\ packer[p].second = packer[q].second =>
        packer[p].second = 0 \/ ~temp[packer[p].second].there \/ temp[packer[p].second].mixed

WorkInv ==
    \A p \in Packers : packer[p].at \in {"next", "open", "packed"} =>
        Packs(packer[p], temp[packer[p].second])

BodyInv ==
    \A p \in Packers : packer[p].at \in {"sent", "received", "answered"} =>
        Sound(packer[p].body)

PackerInv == PackTypes /\ OneInv /\ WorkInv /\ BodyInv

StoreTypes ==
    /\ stored \in [1..MaxTime -> Archive] /\ twice \subseteq 1..MaxTime
    /\ kept \subseteq [name : 1..MaxTime, body : Archive]

\* An archive in the server's directory has the name of its second; a second one for the
\* name is known to be one before it is written.
KeptInv ==
    /\ \A k \in kept :
          /\ Sound(k.body) /\ stored[k.name].second = k.name
          /\ k.name \in twice \/ stored[k.name].entries = k.body.entries
    /\ \A p \in Packers : packer[p].at = "received" =>
          /\ stored[packer[p].name].second = packer[p].name
          /\ \A k \in kept : k.name = packer[p].name => k.name \in twice
          /\ \A q \in Packers \ {p} :
                packer[q].at = "received" /\ packer[q].name = packer[p].name =>
                    packer[p].name \in twice

StoreInv == StoreTypes /\ KeptInv

PackInv == PackerInv /\ StoreInv

\* A process takes a step: only its own entry changes, and the file of its second, which
\* is its own if it is to be right.
LEMMA PackerMoves ==
    ASSUME PackerInv, NEW p \in Packers, NEW e \in Packing, NEW s \in 1..MaxTime,
           packer' = [packer EXCEPT ![p] = e], UNCHANGED <<packNow, save, packWrites>>,
           packs' \in 0..MaxPacks, temp' \in [1..MaxTime -> Archive],
           \A t \in 1..MaxTime \ {s} : temp'[t] = temp[t],
           temp'[s].there /\ ~temp'[s].mixed =>
              \A q \in Packers \ {p} : packer[q].second # s,
           e.second \in {0, s}, AtWork(e),
           e.at \in {"next", "open", "packed"} => Packs(e, temp'[s]),
           e.at \in {"sent", "received", "answered"} => Sound(e.body)
    PROVE  PackerInv'
<1> USE DEF PackerInv
<1>1. packer'[p] = e /\ \A q \in Packers : q # p => packer'[q] = packer[q]
  BY DEF PackTypes
<1>2. PackTypes'
  BY <1>1 DEF PackTypes
<1>3. ASSUME NEW q \in Packers, q # p, packer[q].second # 0
      PROVE  \/ temp'[packer[q].second] = temp[packer[q].second] /\ packer[q].second # s
             \/ /\ packer[q].second = s
                /\ ~temp'[packer[q].second].there \/ temp'[packer[q].second].mixed
  <2>1. packer[q].second \in 1..MaxTime
    BY <1>3 DEF PackTypes, Packing
  <2> QED
    BY <1>3, <2>1
<1>4. OneInv'
  <2>1. ASSUME NEW q \in Packers, q # p, packer[q].second = e.second
        PROVE  \/ e.second = 0
               \/ ~temp'[e.second].there \/ temp'[e.second].mixed
    BY <1>3, <2>1
  <2>2. ASSUME NEW q \in Packers, NEW r \in Packers, q # r, q # p, r # p,
               packer[q].second = packer[r].second, packer[q].second # 0
        PROVE  ~temp'[packer[q].second].there \/ temp'[packer[q].second].mixed
    BY <1>3, <2>2 DEF OneInv
  <2> QED
    BY <1>1, <2>1, <2>2 DEF OneInv
<1>5. WorkInv'
  <2>1. ASSUME NEW q \in Packers, q # p, packer[q].at \in {"next", "open", "packed"}
        PROVE  Packs(packer[q], temp'[packer[q].second])
    <3>1. packer[q].second # 0 /\ Packs(packer[q], temp[packer[q].second])
      BY <2>1 DEF WorkInv, PackTypes, AtWork
    <3> QED
      BY <1>3, <2>1, <3>1 DEF Packs
  <2>2. ASSUME e.at \in {"next", "open", "packed"} PROVE Packs(e, temp'[e.second])
    BY <2>2 DEF AtWork
  <2>3. ASSUME NEW q \in Packers, packer'[q].at \in {"next", "open", "packed"}
        PROVE  Packs(packer'[q], temp'[packer'[q].second])
    BY <1>1, <2>1, <2>2, <2>3
  <2> QED
    BY <2>3 DEF WorkInv, Packs
<1>6. BodyInv'
  BY <1>1 DEF BodyInv, Sound
<1> QED
  BY <1>2, <1>4, <1>5, <1>6

\* A step that leaves the server alone and does not reach it.
LEMMA StoreKeeps ==
    ASSUME StoreInv, NEW p \in Packers, NEW e, packer \in [Packers -> Packing],
           packer' = [packer EXCEPT ![p] = e], e.at # "received",
           UNCHANGED <<stored, kept, twice>>
    PROVE  StoreInv'
<1>1. packer'[p] = e /\ \A q \in Packers : q # p => packer'[q] = packer[q]
  OBVIOUS
<1>2. StoreTypes'
  BY DEF StoreInv, StoreTypes
<1> QED
  BY <1>1, <1>2 DEF StoreInv, KeptInv, Sound

LEMMA ArchiveFacts ==
    /\ Pack!Absent \in Archive /\ ~Pack!Absent.there
    /\ Pack!Idle \in Packing /\ Pack!Idle.at = "idle" /\ Pack!Idle.second = 0
<1>1. Pack!Absent \in Archive /\ ~Pack!Absent.there
  BY CopiesAssumption DEF Archive, Pack!Absent
<1>2. Pack!Idle \in Packing /\ Pack!Idle.at = "idle" /\ Pack!Idle.second = 0
  BY <1>1, CopiesAssumption DEF Packing, Pack!Idle
<1> QED
  BY <1>1, <1>2

\* A process that gives up has no file of its own any more.
LEMMA GivesUp ==
    ASSUME PackInv, NEW p \in Packers, packer[p].at # "idle",
           packer' = [packer EXCEPT ![p] = Pack!Idle],
           UNCHANGED <<packNow, save, temp, stored, packWrites, packs, kept, twice>>
    PROVE  PackInv'
<1> DEFINE e == Pack!Idle
           s == packer[p].second
<1>1. e \in Packing /\ e.at = "idle" /\ e.second = 0
  BY ArchiveFacts
<1>2. s \in 1..MaxTime
  BY DEF PackInv, PackerInv, PackTypes, Packing, AtWork
<1>3. temp[s].there /\ ~temp[s].mixed => \A q \in Packers \ {p} : packer[q].second # s
  BY <1>2 DEF PackInv, PackerInv, OneInv
<1>4. AtWork(e)
  BY <1>1 DEF AtWork
<1> HIDE DEF e, s
<1>5. PackerInv'
  BY <1>1, <1>2, <1>3, <1>4, PackerMoves DEF PackInv, PackerInv, PackTypes, e
<1>6. StoreInv'
  BY <1>1, StoreKeeps DEF PackInv, PackerInv, PackTypes, e
<1> QED
  BY <1>5, <1>6 DEF PackInv

\* A file that is right is its process's own.
LEMMA OwnFile ==
    ASSUME PackInv, NEW p \in Packers, packer[p].at # "idle"
    PROVE  /\ packer[p].second \in 1..MaxTime
           /\ temp[packer[p].second] \in Archive
           /\ temp[packer[p].second].there /\ ~temp[packer[p].second].mixed =>
                 \A q \in Packers \ {p} : packer[q].second # packer[p].second
<1>1. packer[p].second \in 1..MaxTime
  BY DEF PackInv, PackerInv, PackTypes, Packing, AtWork
<1> QED
  BY <1>1 DEF PackInv, PackerInv, PackTypes, OneInv

LEMMA PackPlay ==
    ASSUME PackInv, NEW f \in Saves, Pack!Play(f)
    PROVE  PackInv'
<1> USE DEF PackInv, PackerInv
<1>1. PICK n \in (0..MaxLength) \ {save[f]} : save' = [save EXCEPT ![f] = n]
  BY DEF Pack!Play
<1>2. /\ packWrites' \in 0..MaxWrites
      /\ packer' = [p \in Packers |->
                       IF packer[p].at = "idle" THEN packer[p]
                       ELSE [packer[p] EXCEPT !.written = @ \union {f}]]
      /\ UNCHANGED <<packNow, temp, stored, packs, kept, twice>>
  BY CopiesAssumption DEF Pack!Play, PackTypes
<1>3. ASSUME NEW p \in Packers
      PROVE  /\ packer'[p] \in Packing /\ packer'[p].at = packer[p].at
             /\ packer'[p].second = packer[p].second /\ packer'[p].todo = packer[p].todo
             /\ packer'[p].open = packer[p].open /\ packer'[p].header = packer[p].header
             /\ packer'[p].name = packer[p].name /\ packer'[p].listed = packer[p].listed
             /\ packer'[p].body = packer[p].body
             /\ packer[p].at # "idle" => packer'[p].written = packer[p].written \union {f}
  <2>1. packer[p] \in Packing
    BY DEF PackTypes
  <2>2. [packer[p] EXCEPT !.written = @ \union {f}] \in Packing
    BY <2>1 DEF Packing
  <2> QED
    BY <1>2, <2>1, <2>2 DEF Packing
<1>4. PackTypes'
  BY <1>1, <1>2, <1>3 DEF PackTypes, AtWork
<1>5. OneInv' /\ BodyInv'
  BY <1>2, <1>3 DEF OneInv, BodyInv, Sound
<1>6. WorkInv'
  <2>1. ASSUME NEW p \in Packers, packer[p].at \in {"next", "open", "packed"}
        PROVE  Packs(packer[p], temp[packer[p].second])
    BY <2>1 DEF WorkInv
  <2>2. ASSUME NEW p \in Packers, packer[p].at = "open"
        PROVE  packer[p].open \in Saves
    BY <2>2 DEF PackTypes, AtWork
  <2>3. \A g \in Saves : g # f => save'[g] = save[g]
    BY <1>1 DEF PackTypes
  <2>4. ASSUME NEW p \in Packers, packer[p].at \in {"next", "open", "packed"}
        PROVE  Packs(packer[p], temp[packer[p].second])'
    BY <1>2, <1>3, <2>1, <2>2, <2>3, <2>4 DEF Packs
  <2> QED
    BY <1>3, <2>4 DEF WorkInv
<1>7. StoreInv'
  BY <1>2, <1>3 DEF StoreInv, StoreTypes, KeptInv, Sound
<1> QED
  BY <1>4, <1>5, <1>6, <1>7

LEMMA PackStart ==
    ASSUME PackInv, NEW p \in Packers, Pack!Start(p)
    PROVE  PackInv'
<1> DEFINE listed == {f \in Saves : save[f] > 0}
           e == [Pack!Idle EXCEPT !.at = "next", !.second = packNow,
                                  !.todo = listed, !.listed = listed]
           shared == \E q \in Packers \ {p} : packer[q].second = packNow
           archive == [Pack!Created EXCEPT !.mixed = shared]
<1>1. /\ packs' \in 0..MaxPacks /\ packer' = [packer EXCEPT ![p] = e]
      /\ temp' = [temp EXCEPT ![packNow] = archive]
      /\ UNCHANGED <<packNow, save, stored, packWrites, kept, twice>>
  BY CopiesAssumption DEF Pack!Start, Pack!Shared, PackInv, PackerInv, PackTypes
<1>2. packNow \in 1..MaxTime /\ packNow \in 0..MaxTime
  BY DEF PackInv, PackerInv, PackTypes
<1>3. /\ e \in Packing /\ e.at = "next" /\ e.second = packNow /\ e.todo = listed
      /\ e.listed = listed
  <2> DEFINE begun == [Pack!Idle EXCEPT !.at = "next", !.second = packNow]
             full == [begun EXCEPT !.todo = listed, !.listed = listed]
  <2>1. /\ begun \in Packing /\ begun.at = "next" /\ begun.second = packNow
    BY <1>2, ArchiveFacts DEF Packing
  <2>2. listed \subseteq Saves
    OBVIOUS
  <2>3. e = full
    BY <2>2, ArchiveFacts DEF Packing
  <2> HIDE DEF e, begun, listed
  <2>4. full \in Packing /\ full.at = "next" /\ full.second = packNow /\ full.todo = listed
        /\ full.listed = listed
    BY <2>1, <2>2 DEF Packing
  <2> QED
    BY <2>3, <2>4
<1>4. shared \in BOOLEAN
  OBVIOUS
<1>5. /\ Pack!Created \in Archive /\ Pack!Created.there /\ Pack!Created.entries = {}
  <2>1. ASSUME NEW b \in BOOLEAN, NEW f \in Archive, NEW t \in 0..MaxTime
        PROVE  /\ [f EXCEPT !.there = TRUE, !.second = t] \in Archive
               /\ [f EXCEPT !.there = TRUE, !.second = t].there
               /\ [f EXCEPT !.there = TRUE, !.second = t].entries = f.entries
    BY DEF Archive
  <2>2. Pack!Absent.entries = {}
    BY DEF Pack!Absent
  <2> QED
    BY <1>2, <2>1, <2>2, ArchiveFacts DEF Pack!Created
<1> HIDE DEF shared
<1>6. archive = [there |-> Pack!Created.there, entries |-> Pack!Created.entries,
              whole |-> Pack!Created.whole, mixed |-> shared, second |-> Pack!Created.second,
              listed |-> Pack!Created.listed, written |-> Pack!Created.written]
  <2>1. ASSUME NEW f \in Archive, NEW b
        PROVE  [f EXCEPT !.mixed = b]
                  = [there |-> f.there, entries |-> f.entries, whole |-> f.whole, mixed |-> b,
                     second |-> f.second, listed |-> f.listed, written |-> f.written]
    BY DEF Archive
  <2> QED
    BY <1>5, <2>1
<1> HIDE DEF archive
<1>7. archive \in Archive /\ archive.entries = {} /\ archive.mixed = shared
  BY <1>4, <1>5, <1>6 DEF Archive
<1> HIDE DEF e, listed
<1>8. /\ temp' \in [1..MaxTime -> Archive] /\ temp'[packNow] = archive
      /\ \A t \in 1..MaxTime \ {packNow} : temp'[t] = temp[t]
  BY <1>1, <1>2, <1>7 DEF PackInv, PackerInv, PackTypes
<1>9. archive.there /\ ~archive.mixed => \A q \in Packers \ {p} : packer[q].second # packNow
  BY <1>7 DEF shared
<1>10. AtWork(e) /\ Packs(e, archive)
  BY <1>2, <1>3, <1>7 DEF AtWork, Packs
<1>11. PackerInv'
  BY <1>1, <1>2, <1>3, <1>8, <1>9, <1>10, PackerMoves DEF PackInv
<1>12. StoreInv'
  BY <1>1, <1>3, StoreKeeps DEF PackInv, PackerInv, PackTypes
<1> QED
  BY <1>11, <1>12 DEF PackInv

LEMMA PackOpen ==
    ASSUME PackInv, NEW p \in Packers, NEW f \in Saves, Pack!OpenSave(p, f)
    PROVE  PackInv'
<1>1. /\ packer[p].at = "next" /\ f \in packer[p].todo /\ packer[p] \in Packing
      /\ UNCHANGED <<packNow, save, temp, stored, packWrites, packs, kept, twice>>
  BY DEF Pack!OpenSave, PackInv, PackerInv, PackTypes
<1>2. CASE save[f] = 0
  BY <1>1, <1>2, GivesUp DEF Pack!OpenSave, Pack!AfterError, PackInv, PackerInv, PackTypes
<1>3. CASE save[f] # 0
  <2> DEFINE e == [packer[p] EXCEPT !.at = "open", !.open = f, !.header = save[f], !.todo = packer[p].todo \ {f}]
             s == packer[p].second
  <2>1. packer' = [packer EXCEPT ![p] = e]
    <3>1. packer' = [packer EXCEPT ![p] = IF save[f] = 0 THEN Pack!Idle ELSE e]
      BY DEF Pack!OpenSave, Pack!AfterError
    <3> HIDE DEF e
    <3> QED
      BY <1>3, <3>1
  <2>2. save[f] \in 0..MaxLength
    BY DEF PackInv, PackerInv, PackTypes
  <2>3. e \in Packing
    BY <1>1, <2>2 DEF Packing
  <2>4. /\ e.at = "open" /\ e.open = f /\ e.header = save[f] /\ e.todo = packer[p].todo \ {f}
        /\ e.second = s /\ e.listed = packer[p].listed /\ e.written = packer[p].written
    BY <1>1 DEF Packing
  <2>5. Packs(packer[p], temp[s])
    BY <1>1 DEF PackInv, PackerInv, WorkInv
  <2> HIDE DEF e
  <2>6. Packs(e, temp[s])
    BY <1>1, <2>4, <2>5 DEF Packs
  <2>7. /\ s \in 1..MaxTime
        /\ temp[s].there /\ ~temp[s].mixed => \A q \in Packers \ {p} : packer[q].second # s
    BY <1>1, OwnFile
  <2> HIDE DEF s
  <2>8. AtWork(e)
    BY <2>4, <2>7 DEF AtWork
  <2>9. PackerInv'
    BY <1>1, <2>1, <2>3, <2>4, <2>6, <2>7, <2>8, PackerMoves DEF PackInv, PackerInv, PackTypes
  <2>10. StoreInv'
    BY <1>1, <2>1, <2>4, StoreKeeps DEF PackInv, PackerInv, PackTypes
  <2> QED
    BY <2>9, <2>10 DEF PackInv
<1> QED
  BY <1>2, <1>3

LEMMA PackAppend ==
    ASSUME PackInv, NEW p \in Packers, Pack!Append(p)
    PROVE  PackInv'
<1> DEFINE s == packer[p].second
           x == [save |-> packer[p].open, header |-> packer[p].header,
                 data |-> save[packer[p].open], before |-> {y.save : y \in temp[s].entries}]
           e == [packer[p] EXCEPT !.at = "next"]
           f == IF temp[s].there THEN [temp[s] EXCEPT !.entries = temp[s].entries \union {x}]
                ELSE temp[s]
<1>1. /\ packer[p].at = "open" /\ packer[p] \in Packing /\ packer[p].open \in Saves
      /\ packer' = [packer EXCEPT ![p] = e] /\ temp' = [temp EXCEPT ![s] = f]
      /\ UNCHANGED <<packNow, save, stored, packWrites, packs, kept, twice>>
  BY DEF Pack!Append, PackInv, PackerInv, PackTypes, AtWork
<1>2. /\ s \in 1..MaxTime /\ temp[s] \in Archive
      /\ temp[s].there /\ ~temp[s].mixed => \A q \in Packers \ {p} : packer[q].second # s
  BY <1>1, OwnFile
<1>3. /\ e \in Packing /\ e.at = "next" /\ e.second = s /\ e.todo = packer[p].todo
      /\ e.listed = packer[p].listed /\ e.written = packer[p].written
  BY <1>1 DEF Packing
<1>4. x \in Packed /\ x.save = packer[p].open /\ x.header = packer[p].header
      /\ x.data = save[packer[p].open]
  <2>1. save[packer[p].open] \in 0..MaxLength /\ packer[p].header \in 0..MaxLength
    BY <1>1 DEF Packing, PackInv, PackerInv, PackTypes
  <2>2. {y.save : y \in temp[s].entries} \in SUBSET Saves
    BY <1>2 DEF Archive, Packed
  <2> QED
    BY <1>1, <2>1, <2>2 DEF Packed
<1>5. Packs(packer[p], temp[s])
  BY <1>1 DEF PackInv, PackerInv, WorkInv
<1> HIDE DEF e, x, s
<1>6. /\ f \in Archive /\ f.there = temp[s].there /\ f.mixed = temp[s].mixed
      /\ f.there => f.entries = temp[s].entries \union {x}
  <2>1. temp[s].entries \union {x} \in SUBSET Packed
    BY <1>2, <1>4 DEF Archive
  <2> QED
    BY <1>2, <2>1 DEF Archive
<1> HIDE DEF f
<1>7. Packs(e, f)
  <2> SUFFICES ASSUME f.there, ~f.mixed PROVE Packs(e, f)
    BY DEF Packs
  <2>1. {y.save : y \in f.entries} = {y.save : y \in temp[s].entries} \union {packer[p].open}
    BY <1>4, <1>6
  <2>2. \A y \in f.entries : y.header = y.data \/ y.save \in e.written
    BY <1>1, <1>3, <1>4, <1>5, <1>6 DEF Packs
  <2>3. /\ {y.save : y \in temp[s].entries} \union packer[p].todo \union {packer[p].open}
              = packer[p].listed
    BY <1>1, <1>5, <1>6 DEF Packs
  <2>4. {y.save : y \in f.entries} \union e.todo = e.listed
    BY <1>3, <2>1, <2>3
  <2> QED
    BY <1>3, <2>2, <2>4 DEF Packs
<1>8. /\ temp' \in [1..MaxTime -> Archive] /\ temp'[s] = f
      /\ \A t \in 1..MaxTime \ {s} : temp'[t] = temp[t]
  BY <1>1, <1>2, <1>6 DEF PackInv, PackerInv, PackTypes
<1>9. AtWork(e)
  BY <1>2, <1>3 DEF AtWork
<1>10. PackerInv'
  BY <1>1, <1>2, <1>3, <1>6, <1>7, <1>8, <1>9, PackerMoves DEF PackInv, PackerInv, PackTypes
<1>11. StoreInv'
  BY <1>1, <1>3, StoreKeeps DEF PackInv, PackerInv, PackTypes
<1> QED
  BY <1>10, <1>11 DEF PackInv

LEMMA PackFinish ==
    ASSUME PackInv, NEW p \in Packers, Pack!Finish(p)
    PROVE  PackInv'
<1> DEFINE s == packer[p].second
           e == [packer[p] EXCEPT !.at = "packed"]
           f == [temp[s] EXCEPT !.whole = TRUE]
<1>1. /\ packer[p].at = "next" /\ packer[p] \in Packing /\ packer[p].todo = {}
      /\ UNCHANGED <<packNow, save, stored, packWrites, packs, kept, twice>>
  BY DEF Pack!Finish, PackInv, PackerInv, PackTypes
<1>2. /\ s \in 1..MaxTime /\ temp[s] \in Archive
      /\ temp[s].there /\ ~temp[s].mixed => \A q \in Packers \ {p} : packer[q].second # s
  BY <1>1, OwnFile
<1>3. CASE ~temp[s].there
  <2>1. packer' = [packer EXCEPT ![p] = Pack!Idle] /\ UNCHANGED temp
    BY <1>2, <1>3 DEF Pack!Finish, PackInv, PackerInv, PackTypes
  <2> QED
    BY <1>1, <2>1, GivesUp
<1>4. CASE temp[s].there
  <2>1. packer' = [packer EXCEPT ![p] = e] /\ temp' = [temp EXCEPT ![s] = f]
    BY <1>4 DEF Pack!Finish
  <2>2. /\ e \in Packing /\ e.at = "packed" /\ e.second = s /\ e.todo = packer[p].todo
        /\ e.listed = packer[p].listed /\ e.written = packer[p].written
    BY <1>1 DEF Packing
  <2>3. Packs(packer[p], temp[s])
    BY <1>1 DEF PackInv, PackerInv, WorkInv
  <2> HIDE DEF e, s
  <2>4. /\ f \in Archive /\ f.there = temp[s].there /\ f.mixed = temp[s].mixed
        /\ f.entries = temp[s].entries /\ f.whole
    BY <1>2 DEF Archive
  <2> HIDE DEF f
  <2>5. Packs(e, f)
    BY <1>1, <2>2, <2>3, <2>4 DEF Packs
  <2>6. /\ temp' \in [1..MaxTime -> Archive] /\ temp'[s] = f
        /\ \A t \in 1..MaxTime \ {s} : temp'[t] = temp[t]
    BY <1>1, <1>2, <2>1, <2>4 DEF PackInv, PackerInv, PackTypes
  <2>7. AtWork(e)
    BY <1>2, <2>2 DEF AtWork
  <2>8. PackerInv'
    <3>1. PackerInv /\ packs' \in 0..MaxPacks
      BY <1>1 DEF PackInv, PackerInv, PackTypes
    <3>2. temp'[s].there /\ ~temp'[s].mixed => \A q \in Packers \ {p} : packer[q].second # s
      BY <1>2, <2>4, <2>6
    <3>3. Packs(e, temp'[s]) /\ e.at \notin {"sent", "received", "answered"}
      BY <2>2, <2>5, <2>6
    <3> QED
      BY <1>1, <1>2, <2>1, <2>2, <2>6, <2>7, <3>1, <3>2, <3>3, PackerMoves
  <2>9. StoreInv'
    BY <1>1, <2>1, <2>2, StoreKeeps DEF PackInv, PackerInv, PackTypes
  <2> QED
    BY <2>8, <2>9 DEF PackInv
<1> QED
  BY <1>3, <1>4

LEMMA PackSend ==
    ASSUME PackInv, NEW p \in Packers, Pack!Send(p)
    PROVE  PackInv'
<1> DEFINE s == packer[p].second
           f == [temp[s] EXCEPT !.listed = packer[p].listed, !.written = packer[p].written]
           e == [packer[p] EXCEPT !.at = "sent", !.body = f]
           fits == temp[s].there /\ Pack!Blocks(temp[s].entries) <= MaxBody
<1>1. /\ packer[p].at = "packed" /\ packer[p] \in Packing
      /\ packer' = [packer EXCEPT ![p] = IF fits THEN e ELSE Pack!Idle]
      /\ UNCHANGED <<packNow, save, temp, stored, packWrites, packs, kept, twice>>
  BY DEF Pack!Send, PackInv, PackerInv, PackTypes
<1>2. /\ s \in 1..MaxTime /\ temp[s] \in Archive
      /\ temp[s].there /\ ~temp[s].mixed => \A q \in Packers \ {p} : packer[q].second # s
  BY <1>1, OwnFile
<1>3. /\ packer[p].listed \in SUBSET Saves /\ packer[p].written \in SUBSET Saves
  BY <1>1 DEF Packing
<1>4. Packs(packer[p], temp[s])
  BY <1>1 DEF PackInv, PackerInv, WorkInv
<1>5. fits => temp[s].there
  OBVIOUS
<1> HIDE DEF fits
<1>6. CASE ~fits
  <2>1. packer' = [packer EXCEPT ![p] = Pack!Idle]
    BY <1>1, <1>6
  <2> QED
    BY <1>1, <2>1, GivesUp
<1>7. CASE fits
  <2>1. packer' = [packer EXCEPT ![p] = e]
    BY <1>1, <1>7
  <2>2. /\ f \in Archive /\ f.mixed = temp[s].mixed /\ f.entries = temp[s].entries
        /\ f.whole = temp[s].whole /\ f.listed = packer[p].listed
        /\ f.written = packer[p].written
    BY <1>2, <1>3 DEF Archive
  <2>3. Sound(f)
    BY <1>1, <1>4, <1>5, <1>7, <2>2 DEF Packs, Sound
  <2> HIDE DEF f
  <2>4. e \in Packing /\ e.at = "sent" /\ e.second = s /\ e.body = f
    BY <1>1, <2>2 DEF Packing
  <2> HIDE DEF e, s
  <2>5. AtWork(e)
    BY <1>2, <2>4 DEF AtWork
  <2>6. PackerInv'
    BY <1>1, <1>2, <2>1, <2>3, <2>4, <2>5, PackerMoves DEF PackInv, PackerInv, PackTypes
  <2>7. StoreInv'
    BY <1>1, <2>1, <2>4, StoreKeeps DEF PackInv, PackerInv, PackTypes
  <2> QED
    BY <2>6, <2>7 DEF PackInv
<1> QED
  BY <1>6, <1>7

\* The file is emptied: what it held was of this second too, if the server held any.
LEMMA PackReceive ==
    ASSUME PackInv, NEW p \in Packers, Pack!Receive(p)
    PROVE  PackInv'
<1> DEFINE e == [packer[p] EXCEPT !.at = "received", !.name = packNow]
           s == packer[p].second
<1>1. /\ packer[p].at = "sent" /\ packer[p] \in Packing
      /\ UNCHANGED <<packNow, save, temp, packWrites, packs, kept>>
      /\ stored' = [stored EXCEPT ![packNow] = Pack!Created]
      /\ twice' = IF stored[packNow].second = packNow THEN twice \union {packNow} ELSE twice
  BY DEF Pack!Receive, Pack!NameFor, PackInv, PackerInv, PackTypes
<1>2. packer' = [packer EXCEPT ![p] = e]
  BY DEF Pack!Receive, Pack!NameFor
<1>3. packNow \in 1..MaxTime /\ packNow \in 0..MaxTime
  BY DEF PackInv, PackerInv, PackTypes
<1>4. /\ e \in Packing /\ e.at = "received" /\ e.second = s /\ e.body = packer[p].body
      /\ e.name = packNow
  BY <1>1, <1>3 DEF Packing
<1>5. /\ s \in 1..MaxTime /\ temp[s] \in Archive
      /\ temp[s].there /\ ~temp[s].mixed => \A q \in Packers \ {p} : packer[q].second # s
  BY <1>1, OwnFile
<1> HIDE DEF e, s
<1>6. Sound(e.body)
  BY <1>1, <1>4 DEF PackInv, PackerInv, BodyInv
<1>7. AtWork(e)
  BY <1>3, <1>4, <1>5 DEF AtWork
<1>8. PackerInv'
  BY <1>1, <1>2, <1>4, <1>5, <1>6, <1>7, PackerMoves DEF PackInv, PackerInv, PackTypes
<1>9. Pack!Created \in Archive /\ Pack!Created.second = packNow
  <2>1. ASSUME NEW f \in Archive, NEW t \in 0..MaxTime
        PROVE  /\ [f EXCEPT !.there = TRUE, !.second = t] \in Archive
               /\ [f EXCEPT !.there = TRUE, !.second = t].second = t
    BY DEF Archive
  <2> QED
    BY <1>3, <2>1, ArchiveFacts DEF Pack!Created
<1>10. StoreTypes'
  BY <1>1, <1>3, <1>9 DEF PackInv, StoreInv, StoreTypes
<1>11. /\ stored'[packNow].second = packNow
       /\ \A t \in 1..MaxTime : t # packNow => stored'[t] = stored[t]
       /\ twice \subseteq twice'
       /\ stored[packNow].second = packNow => packNow \in twice'
  BY <1>1, <1>3, <1>9 DEF PackInv, StoreInv, StoreTypes
<1>12. packer'[p] = e /\ \A q \in Packers : q # p => packer'[q] = packer[q]
  BY <1>2 DEF PackInv, PackerInv, PackTypes
<1>13. ASSUME NEW k \in kept
       PROVE  /\ Sound(k.body) /\ stored'[k.name].second = k.name
              /\ k.name \in twice' \/ stored'[k.name].entries = k.body.entries
              /\ k.name = packNow => k.name \in twice'
  <2>1. k.name \in 1..MaxTime
    BY DEF PackInv, StoreInv, StoreTypes
  <2>2. /\ Sound(k.body) /\ stored[k.name].second = k.name
        /\ k.name \in twice \/ stored[k.name].entries = k.body.entries
    BY DEF PackInv, StoreInv, KeptInv
  <2> QED
    BY <1>11, <2>1, <2>2
<1>14. ASSUME NEW q \in Packers, q # p, packer[q].at = "received"
       PROVE  /\ packer[q].name \in 1..MaxTime
              /\ stored[packer[q].name].second = packer[q].name
              /\ stored'[packer[q].name].second = packer[q].name
              /\ packer[q].name = packNow => packNow \in twice'
  <2>1. packer[q].name \in 1..MaxTime
    BY <1>14 DEF PackInv, PackerInv, PackTypes, Packing, AtWork
  <2>2. stored[packer[q].name].second = packer[q].name
    BY <1>14 DEF PackInv, StoreInv, KeptInv
  <2> QED
    BY <1>11, <2>1, <2>2
<1>15. ASSUME NEW q \in Packers, q # p, packer[q].at = "received"
       PROVE  /\ \A k \in kept : k.name = packer[q].name => k.name \in twice'
              /\ \A r \in Packers \ {q} :
                    packer'[r].at = "received" /\ packer'[r].name = packer[q].name =>
                        packer[q].name \in twice'
  <2>1. /\ \A k \in kept : k.name = packer[q].name => k.name \in twice
        /\ \A r \in Packers \ {q} :
              packer[r].at = "received" /\ packer[r].name = packer[q].name =>
                  packer[q].name \in twice
    BY <1>15 DEF PackInv, StoreInv, KeptInv
  <2> QED
    BY <1>4, <1>11, <1>12, <1>14, <1>15, <2>1
<1>16. \A q \in Packers \ {p} :
           packer'[q].at = "received" /\ packer'[q].name = packNow => packNow \in twice'
  BY <1>12, <1>14
<1>17. KeptInv'
  <2>1. \A k \in kept' :
           /\ Sound(k.body) /\ stored'[k.name].second = k.name
           /\ k.name \in twice' \/ stored'[k.name].entries = k.body.entries
    BY <1>1, <1>13
  <2>2. ASSUME NEW q \in Packers, packer'[q].at = "received"
        PROVE  /\ stored'[packer'[q].name].second = packer'[q].name
               /\ \A k \in kept' : k.name = packer'[q].name => k.name \in twice'
               /\ \A r \in Packers \ {q} :
                     packer'[r].at = "received" /\ packer'[r].name = packer'[q].name =>
                         packer'[q].name \in twice'
    BY <1>1, <1>4, <1>11, <1>12, <1>13, <1>14, <1>15, <1>16, <2>2
  <2> QED
    BY <2>1, <2>2 DEF KeptInv, Sound
<1> QED
  BY <1>8, <1>10, <1>17 DEF PackInv, StoreInv

LEMMA PackKeep ==
    ASSUME PackInv, NEW p \in Packers, Pack!Keep(p)
    PROVE  PackInv'
<1> DEFINE e == [packer[p] EXCEPT !.at = "answered"]
           s == packer[p].second
           n == packer[p].name
           f == [packer[p].body EXCEPT !.second = stored[n].second]
           k == [name |-> n, body |-> packer[p].body]
<1>1. /\ packer[p].at = "received" /\ packer[p] \in Packing /\ packer' = [packer EXCEPT ![p] = e]
      /\ UNCHANGED <<packNow, save, temp, packWrites, packs, twice>>
      /\ stored' = [stored EXCEPT ![n] = f]
      /\ kept' = kept \union {k}
  BY DEF Pack!Keep, PackInv, PackerInv, PackTypes
<1>2. /\ e \in Packing /\ e.at = "answered" /\ e.second = s /\ e.body = packer[p].body
  BY <1>1 DEF Packing
<1>3. /\ s \in 1..MaxTime /\ temp[s] \in Archive
      /\ temp[s].there /\ ~temp[s].mixed => \A q \in Packers \ {p} : packer[q].second # s
  BY <1>1, OwnFile
<1>4. n \in 1..MaxTime
  BY <1>1 DEF PackInv, PackerInv, PackTypes, Packing, AtWork
<1>5. packer[p].body \in Archive /\ Sound(packer[p].body)
  BY <1>1 DEF PackInv, PackerInv, BodyInv, Packing
<1>6. stored[n].second \in 0..MaxTime /\ stored[n].second = n
  BY <1>1, <1>4 DEF PackInv, StoreInv, StoreTypes, KeptInv, Archive
<1>7. f \in Archive /\ f.second = n /\ f.entries = packer[p].body.entries
  BY <1>5, <1>6 DEF Archive
<1> HIDE DEF e, s, f
<1>8. AtWork(e)
  BY <1>2, <1>3 DEF AtWork
<1>9. PackerInv'
  BY <1>1, <1>2, <1>3, <1>5, <1>8, PackerMoves DEF PackInv, PackerInv, PackTypes
<1>10. k \in [name : 1..MaxTime, body : Archive] /\ k.name = n /\ k.body = packer[p].body
  BY <1>4, <1>5
<1> HIDE DEF k
<1>11. StoreTypes'
  BY <1>1, <1>4, <1>7, <1>10 DEF PackInv, StoreInv, StoreTypes
<1>12. /\ stored'[n] = f
       /\ \A t \in 1..MaxTime : t # n => stored'[t] = stored[t]
  BY <1>1, <1>4 DEF PackInv, StoreInv, StoreTypes
<1>13. packer'[p] = e /\ \A q \in Packers : q # p => packer'[q] = packer[q]
  BY <1>1 DEF PackInv, PackerInv, PackTypes
<1>14. ASSUME NEW o \in kept
       PROVE  /\ Sound(o.body) /\ stored'[o.name].second = o.name
              /\ o.name \in twice \/ stored'[o.name].entries = o.body.entries
  <2>1. o.name \in 1..MaxTime
    BY DEF PackInv, StoreInv, StoreTypes
  <2>2. /\ Sound(o.body) /\ stored[o.name].second = o.name
        /\ o.name \in twice \/ stored[o.name].entries = o.body.entries
        /\ o.name = n => o.name \in twice
    BY <1>1 DEF PackInv, StoreInv, KeptInv
  <2> QED
    BY <1>7, <1>12, <2>1, <2>2
<1>15. ASSUME NEW q \in Packers, q # p, packer[q].at = "received"
       PROVE  /\ stored'[packer[q].name].second = packer[q].name
              /\ \A o \in kept : o.name = packer[q].name => o.name \in twice
              /\ packer[q].name = n => n \in twice
              /\ \A r \in Packers \ {q} :
                    packer[r].at = "received" /\ packer[r].name = packer[q].name =>
                        packer[q].name \in twice
  <2>1. packer[q].name \in 1..MaxTime
    BY <1>15 DEF PackInv, PackerInv, PackTypes, Packing, AtWork
  <2>2. /\ stored[packer[q].name].second = packer[q].name
        /\ \A o \in kept : o.name = packer[q].name => o.name \in twice
        /\ \A r \in Packers \ {q} :
              packer[r].at = "received" /\ packer[r].name = packer[q].name =>
                  packer[q].name \in twice
    BY <1>15 DEF PackInv, StoreInv, KeptInv
  <2> QED
    BY <1>1, <1>7, <1>12, <1>15, <2>1, <2>2
<1>16. KeptInv'
  <2>1. \A o \in kept' :
           /\ Sound(o.body) /\ stored'[o.name].second = o.name
           /\ o.name \in twice' \/ stored'[o.name].entries = o.body.entries
    BY <1>1, <1>5, <1>7, <1>10, <1>12, <1>14
  <2>2. ASSUME NEW q \in Packers, packer'[q].at = "received"
        PROVE  /\ q # p /\ packer'[q] = packer[q] /\ packer[q].at = "received"
    BY <1>2, <1>13, <2>2
  <2>3. ASSUME NEW q \in Packers, packer'[q].at = "received"
        PROVE  /\ stored'[packer'[q].name].second = packer'[q].name
               /\ \A o \in kept' : o.name = packer'[q].name => o.name \in twice'
               /\ \A r \in Packers \ {q} :
                     packer'[r].at = "received" /\ packer'[r].name = packer'[q].name =>
                         packer'[q].name \in twice'
    BY <1>1, <1>10, <1>15, <2>2, <2>3
  <2> QED
    BY <2>1, <2>3 DEF KeptInv, Sound
<1> QED
  BY <1>9, <1>11, <1>16 DEF PackInv, StoreInv

LEMMA PackAnswer ==
    ASSUME PackInv, NEW p \in Packers, Pack!Answer(p)
    PROVE  PackInv'
<1> DEFINE s == packer[p].second
           e == Pack!Idle
<1>1. /\ packer[p].at = "answered" /\ packer' = [packer EXCEPT ![p] = e]
      /\ temp' \in {temp, [temp EXCEPT ![s] = Pack!Absent]}
      /\ UNCHANGED <<packNow, save, stored, packWrites, packs, kept, twice>>
  BY DEF Pack!Answer
<1>2. CASE temp' = temp
  BY <1>1, <1>2, GivesUp
<1>3. CASE temp' = [temp EXCEPT ![s] = Pack!Absent]
  <2>1. s \in 1..MaxTime
    BY <1>1, OwnFile
  <2>2. e \in Packing /\ e.at = "idle" /\ e.second = 0
    BY ArchiveFacts
  <2>3. AtWork(e)
    BY <2>2 DEF AtWork
  <2> HIDE DEF e, s
  <2>4. /\ temp' \in [1..MaxTime -> Archive] /\ ~temp'[s].there
        /\ \A t \in 1..MaxTime \ {s} : temp'[t] = temp[t]
    BY <1>3, <2>1, ArchiveFacts DEF PackInv, PackerInv, PackTypes
  <2>5. PackerInv'
    BY <1>1, <2>1, <2>2, <2>3, <2>4, PackerMoves DEF PackInv, PackerInv, PackTypes
  <2>6. StoreInv'
    BY <1>1, <2>2, StoreKeeps DEF PackInv, PackerInv, PackTypes
  <2> QED
    BY <2>5, <2>6 DEF PackInv
<1> QED
  BY <1>1, <1>2, <1>3

LEMMA PackStep ==
    ASSUME PackInv, Pack!Next
    PROVE  PackInv'
<1>1. CASE Pack!Tick
  <2>1. /\ packNow' \in 1..MaxTime
        /\ UNCHANGED <<save, temp, stored, packer, packWrites, packs, kept, twice>>
    BY <1>1, CopiesAssumption DEF Pack!Tick, PackInv, PackerInv, PackTypes
  <2>2. PackTypes'
    BY <2>1 DEF PackInv, PackerInv, PackTypes
  <2>3. OneInv' /\ WorkInv' /\ BodyInv'
    BY <2>1 DEF PackInv, PackerInv, OneInv, WorkInv, BodyInv, Packs, Sound
  <2>4. StoreInv'
    BY <2>1 DEF PackInv, StoreInv, StoreTypes, KeptInv, Sound
  <2> QED
    BY <2>2, <2>3, <2>4 DEF PackInv, PackerInv
<1> QED
  BY <1>1, PackPlay, PackStart, PackOpen, PackAppend, PackFinish, PackSend, PackReceive,
     PackKeep, PackAnswer DEF Pack!Next

\* From the start, and to what is promised.
LEMMA PackStarts == Pack!Init => PackInv
<1> SUFFICES ASSUME Pack!Init PROVE PackInv
  OBVIOUS
<1>1. PackTypes
  BY ArchiveFacts, CopiesAssumption DEF Pack!Init, Pack!Seconds, PackTypes, AtWork
<1>2. OneInv /\ WorkInv /\ BodyInv
  BY ArchiveFacts DEF Pack!Init, OneInv, WorkInv, BodyInv
<1>3. StoreTypes /\ KeptInv
  BY ArchiveFacts DEF Pack!Init, Pack!Seconds, StoreTypes, KeptInv
<1> QED
  BY <1>1, <1>2, <1>3 DEF PackInv, PackerInv, StoreInv

LEMMA PackAgrees ==
    PackInv => Pack!TypeOK /\ Pack!ArchiveIsSound /\ Pack!KeptStays
<1> SUFFICES ASSUME PackInv
             PROVE  Pack!TypeOK /\ Pack!ArchiveIsSound /\ Pack!KeptStays
  OBVIOUS
<1>1. Pack!TypeOK
  BY DEF PackInv, PackerInv, PackTypes, StoreInv, StoreTypes, Packing, Archive, Pack!TypeOK,
         Pack!Seconds
<1>2. Pack!ArchiveIsSound
  <2> SUFFICES ASSUME NEW k \in kept, ~k.body.mixed, NEW e \in k.body.entries,
                      ~Pack!Unpacks(k.body.entries, e)
               PROVE  ({e.save} \union e.before) \intersect k.body.written # {}
    BY DEF PackInv, StoreInv, KeptInv, Sound, Pack!ArchiveIsSound
  <2>1. \A x \in k.body.entries : x.header = x.data \/ x.save \in k.body.written
    BY DEF PackInv, StoreInv, KeptInv, Sound
  <2>2. CASE e.header # e.data
    BY <2>1, <2>2
  <2>3. ASSUME NEW x \in k.body.entries, x.save \in e.before, x.header # x.data
        PROVE  ({e.save} \union e.before) \intersect k.body.written # {}
    BY <2>1, <2>3
  <2> QED
    BY <2>2, <2>3 DEF Pack!Unpacks
<1>3. Pack!KeptStays
  BY DEF PackInv, StoreInv, KeptInv, Pack!KeptStays
<1> QED
  BY <1>1, <1>2, <1>3

-----------------------------------------------------------------------------
(* Counting up, and filtering as iter().enumerate().filter() does          *)

LEMMA Upwards ==
    ASSUME NEW N \in Nat, NEW S, 0 \in S, \A n \in 1..N : n - 1 \in S => n \in S
    PROVE  0..N \subseteq S
<1> DEFINE missed == (0..N) \ S
<1>1. SUFFICES ASSUME missed # {} PROVE FALSE
  OBVIOUS
<1>2. missed \subseteq Nat
  OBVIOUS
<1>3. PICK m \in missed : \A n \in missed : ~ (<<n, m>> \in OpToRel(<, Nat))
  <2> HIDE DEF missed
  <2>1. IsWellFoundedOn(OpToRel(<, Nat), Nat)
    BY NatLessThanWellFounded
  <2> QED
    BY <1>1, <1>2, <2>1, WFMin
<1>4. m \in 1..N /\ m - 1 \in 0..N
  OBVIOUS
<1>5. <<m - 1, m>> \in OpToRel(<, Nat)
  <2>1. m \in Nat /\ m - 1 \in Nat /\ m - 1 < m
    BY <1>4
  <2> QED
    BY <2>1 DEF OpToRel
<1>6. m - 1 \notin missed
  BY <1>3, <1>5, Zenon
<1> QED
  BY <1>4, <1>6

\* Of item[1] to item[N], those at the places of K are kept, in their order.
Filters(f, N, K, item) ==
    /\ DOMAIN f = 0..N /\ f = [n \in DOMAIN f |-> f[n]]
    /\ f[0] = <<>>
    /\ \A n \in 1..N : f[n] = IF n \in K THEN Append(f[n - 1], item[n]) ELSE f[n - 1]

LEMMA FilterExists ==
    ASSUME NEW N \in Nat, NEW K, NEW item
    PROVE  \E f : Filters(f, N, K, item)
<1> DEFINE Has(m) == \E f : Filters(f, m, K, item)
           S == {m \in 0..N : Has(m)}
<1>1. 0 \in S
  <2> DEFINE f == [n \in 0..0 |-> <<>>]
  <2>1. Filters(f, 0, K, item)
    BY DEF Filters
  <2>2. Has(0)
    BY <2>1
  <2> HIDE DEF Has
  <2> QED
    BY <2>2
<1>2. ASSUME NEW m \in 1..N, m - 1 \in S PROVE m \in S
  <2>1. PICK f : Filters(f, m - 1, K, item)
    <3>1. Has(m - 1)
      <4> HIDE DEF Has
      <4> QED
        BY <1>2
    <3> QED
      BY <3>1
  <2> DEFINE g == [n \in 0..m |-> IF n < m THEN f[n]
                                  ELSE IF m \in K THEN Append(f[m - 1], item[m])
                                  ELSE f[m - 1]]
  <2>2. ASSUME NEW n \in 1..m
        PROVE  g[n] = IF n \in K THEN Append(g[n - 1], item[n]) ELSE g[n - 1]
    <3>1. g[n - 1] = f[n - 1]
      OBVIOUS
    <3>2. CASE n = m
      BY <3>1, <3>2
    <3>3. CASE n < m
      <4>1. n \in 1..m - 1 /\ g[n] = f[n]
        BY <3>3
      <4> QED
        BY <2>1, <3>1, <4>1 DEF Filters
    <3> QED
      BY <3>2, <3>3
  <2>3. DOMAIN g = 0..m /\ g = [n \in DOMAIN g |-> g[n]]
    OBVIOUS
  <2>4. g[0] = <<>>
    BY <2>1 DEF Filters
  <2>5. Has(m)
    <3> HIDE DEF g
    <3> QED
      BY <2>2, <2>3, <2>4 DEF Filters
  <2> HIDE DEF Has
  <2> QED
    BY <2>5
<1>3. N \in S
  <2> HIDE DEF S
  <2>1. 0..N \subseteq S
    BY <1>1, <1>2, Upwards
  <2> QED
    BY <2>1
<1>4. Has(N)
  <2> HIDE DEF Has
  <2> QED
    BY <1>3
<1> QED
  BY <1>4

LEMMA FilterKeeps ==
    ASSUME NEW N \in Nat, NEW K, NEW item, NEW T, \A n \in 1..N : item[n] \in T,
           NEW f, Filters(f, N, K, item)
    PROVE  f[N] \in Seq(T) /\ Len(f[N]) <= N
<1> DEFINE S == {n \in 0..N : f[n] \in Seq(T) /\ Len(f[n]) <= n}
<1>1. 0 \in S
  <2>1. f[0] = <<>>
    BY DEF Filters
  <2>2. <<>> \in Seq(T) /\ Len(<<>>) <= 0
    OBVIOUS
  <2>3. f[0] \in Seq(T) /\ Len(f[0]) <= 0
    BY <2>1, <2>2, Zenon
  <2> QED
    BY <2>3
<1>2. ASSUME NEW n \in 1..N, n - 1 \in S PROVE n \in S
  <2> DEFINE before == f[n - 1]
  <2>1. before \in Seq(T) /\ Len(before) <= n - 1
    BY <1>2
  <2>2. f[n] = IF n \in K THEN Append(before, item[n]) ELSE before
    BY DEF Filters
  <2> HIDE DEF before, S
  <2>3. Append(before, item[n]) \in Seq(T) /\ Len(Append(before, item[n])) = Len(before) + 1
    BY <2>1
  <2>4. Len(Append(before, item[n])) <= n /\ Len(before) <= n
    BY <2>1, <2>3
  <2>5. f[n] \in Seq(T) /\ Len(f[n]) <= n
    BY <2>1, <2>2, <2>3, <2>4, Zenon
  <2> QED
    BY <2>5 DEF S
<1>3. 0..N \subseteq S
  <2> HIDE DEF S
  <2> QED
    BY <1>1, <1>2, Upwards
<1> QED
  BY <1>3

LEMMA ItemIs ==
    ASSUME NEW T, NEW s \in Seq(T), NEW k \in 1..Len(s)
    PROVE  s[k] \in T
OBVIOUS

LEMMA RemainderIs ==
    ASSUME NEW a \in Nat, NEW b \in Nat, b # 0
    PROVE  a % b \in 0..b - 1
OBVIOUS

-----------------------------------------------------------------------------
(* The viewer (viewer.rs)                                                  *)

ViewFlags == typing \in BOOLEAN /\ drawn \in BOOLEAN

\* The page begins in the text or at its end, and matches are lines of the text.
PageInv ==
    /\ total \in 0..MaxTotal /\ height \in 0..MaxHeight /\ offset \in 0..total
    /\ matches \in Seq(0..total - 1) /\ Len(matches) <= total
    /\ cursor \in 0..MaxTotal + 1
    /\ matches # <<>> => cursor \in 0..Len(matches) - 1

\* The line jumped to is one of the first three of the page.
TargetInv ==
    \/ target = MaxTotal + 1
    \/ target \in 0..total - 1 /\ offset <= target /\ target <= offset + 2

\* What is on the screen was drawn from the state.
ScreenInv ==
    /\ shown \in 0..MaxHeight /\ long \in SUBSET Nat
    /\ drawn => View!Fit(shown)

ViewInv == ViewFlags /\ PageInv /\ TargetInv /\ ScreenInv

LEMMA ViewNumbers == MaxTotal \in Nat /\ MaxHeight \in Nat
BY Assumptions DEF View!ViewerAssumption

LEMMA FoundIs ==
    ASSUME total \in Nat
    PROVE  View!Found \in Seq(0..total - 1) /\ Len(View!Found) <= total
<1> DEFINE K == {n \in 1..total : n - 1 \in search}
           item == [n \in 1..total |-> n - 1]
           step(f) == [n \in 0..total |-> IF n = 0 THEN <<>>
                                          ELSE IF n - 1 \in search THEN Append(f[n - 1], n - 1)
                                          ELSE f[n - 1]]
           before == CHOOSE f : f = step(f)
<1>1. \A n \in 1..total : item[n] = n - 1 /\ (n \in K <=> n - 1 \in search)
  OBVIOUS
<1>2. ASSUME NEW f, Filters(f, total, K, item) PROVE f = step(f)
  <2> HIDE DEF K, item
  <2>1. ASSUME NEW n \in 0..total PROVE f[n] = step(f)[n]
    <3>1. CASE n = 0
      BY <1>2, <3>1 DEF Filters
    <3>2. CASE n # 0
      <4>1. n \in 1..total
        BY <3>2
      <4>2. f[n] = IF n \in K THEN Append(f[n - 1], item[n]) ELSE f[n - 1]
        BY <1>2, <4>1 DEF Filters
      <4>3. item[n] = n - 1 /\ (n \in K <=> n - 1 \in search)
        BY <1>1, <4>1
      <4> QED
        BY <3>2, <4>2, <4>3
    <3> QED
      BY <3>1, <3>2
  <2>2. DOMAIN step(f) = DOMAIN f /\ step(f) = [n \in DOMAIN step(f) |-> step(f)[n]]
    BY <1>2 DEF Filters
  <2> HIDE DEF step
  <2> QED
    BY <1>2, <2>1, <2>2 DEF Filters
<1>3. ASSUME NEW f, f = step(f) PROVE Filters(f, total, K, item)
  <2> HIDE DEF K, item
  <2> DEFINE g == step(f)
  <2>1. DOMAIN g = 0..total /\ g = [n \in DOMAIN g |-> g[n]] /\ g[0] = <<>>
    OBVIOUS
  <2>2. \A n \in 1..total : g[n] = IF n \in K THEN Append(f[n - 1], item[n]) ELSE f[n - 1]
    BY <1>1
  <2> HIDE DEF step
  <2> QED
    BY <1>3, <2>1, <2>2 DEF Filters
<1>4. before = step(before)
  <2>1. \E f : f = step(f)
    <3> HIDE DEF K, item, step
    <3> QED
      BY <1>2, FilterExists
  <2> HIDE DEF step
  <2> QED
    BY <2>1
<1>5. View!Found = before[total]
  BY DEF View!Found
<1>6. \A n \in 1..total : item[n] \in 0..total - 1
  OBVIOUS
<1>7. before[total] \in Seq(0..total - 1) /\ Len(before[total]) <= total
  <2> HIDE DEF K, item, step, before
  <2>1. Filters(before, total, K, item)
    BY <1>3, <1>4
  <2> QED
    BY <1>6, <2>1, FilterKeeps
<1> QED
  BY <1>5, <1>7

\* Where a jump ends up.
LEMMA JumpIs ==
    ASSUME PageInv, NEW found \in Seq(0..total - 1), Len(found) <= total, NEW i \in Nat,
           View!Jumped(found, i), found # <<>>
    PROVE  /\ cursor' \in 0..Len(found) - 1 /\ found[cursor' + 1] \in 0..total - 1
           /\ offset' \in 0..total
           /\ target' = found[cursor' + 1] /\ target' \in 0..total - 1
           /\ offset' <= target' /\ target' <= offset' + 2
<1> DEFINE w == i % Len(found)
<1>1. Len(found) \in Nat /\ Len(found) # 0
  OBVIOUS
<1>2. w \in 0..Len(found) - 1
  BY <1>1, RemainderIs
<1>3. cursor' = w /\ target' = found[w + 1] /\ offset' = View!TopFor(found[w + 1])
  BY DEF View!Jumped
<1> HIDE DEF w
<1>4. w + 1 \in 1..Len(found)
  BY <1>1, <1>2
<1>5. found[w + 1] \in 0..total - 1
  BY <1>4, ItemIs
<1>6. total \in Nat
  BY ViewNumbers DEF PageInv
<1>7. PICK line \in 0..total - 1 : line = found[w + 1]
  BY <1>5
<1>8. /\ View!TopFor(line) \in 0..total
      /\ View!TopFor(line) <= line /\ line <= View!TopFor(line) + 2
  BY <1>6, <1>7 DEF View!TopFor, View!Minus
<1> QED
  BY <1>2, <1>3, <1>7, <1>8

LEMMA SearchStep ==
    ASSUME ViewInv, View!Confirm \/ View!Forward \/ View!Backward
    PROVE  PageInv' /\ TargetInv'
<1> USE ViewNumbers
<1> DEFINE Jump(found) == \E i \in Nat : View!Jumped(found, i)
<1>1. total \in Nat /\ PageInv /\ TargetInv
  BY DEF ViewInv, PageInv
<1>2. CASE View!Confirm
  <2>1. View!Jumped(View!Found, 0) /\ matches' = View!Found /\ UNCHANGED <<total, height>>
    BY <1>2 DEF View!Confirm
  <2>2. View!Found \in Seq(0..total - 1) /\ Len(View!Found) <= total
    BY <1>1, FoundIs
  <2> DEFINE found == View!Found
  <2> HIDE DEF found
  <2>3. CASE found = <<>>
    BY <1>1, <2>1, <2>2, <2>3 DEF found, View!Jumped, PageInv, TargetInv
  <2>4. CASE found # <<>>
    <3>1. /\ cursor' \in 0..Len(found) - 1 /\ offset' \in 0..total
          /\ target' \in 0..total - 1 /\ offset' <= target' /\ target' <= offset' + 2
      BY <1>1, <2>1, <2>2, <2>4, JumpIs DEF found
    <3>2. PageInv'
      BY <1>1, <2>1, <2>2, <3>1 DEF found, PageInv
    <3> QED
      BY <2>1, <3>1, <3>2 DEF TargetInv
  <2> QED
    BY <2>3, <2>4
<1>3. ASSUME View!Forward \/ View!Backward
      PROVE  \/ \E i \in Nat : View!Jumped(matches, i)
             \/ UNCHANGED <<offset, cursor, target>> /\ cursor = View!NoCursor
  BY <1>1, <1>3 DEF View!Forward, View!Backward, View!NextMatch, View!Minus, PageInv
<1>4. CASE View!Forward \/ View!Backward
  <2>1. UNCHANGED <<total, height, matches>>
    BY <1>4 DEF View!Forward, View!Backward
  <2>2. CASE matches = <<>>
    <3>1. UNCHANGED <<offset, cursor, target>>
      BY <1>3, <1>4, <2>2 DEF View!Jumped
    <3> QED
      BY <1>1, <2>1, <2>2, <3>1 DEF PageInv, TargetInv
  <2>3. CASE matches # <<>>
    <3>1. cursor # View!NoCursor
      BY <1>1, <2>3 DEF PageInv, View!NoCursor
    <3>2. PICK i \in Nat : View!Jumped(matches, i)
      BY <1>3, <1>4, <3>1
    <3>3. /\ cursor' \in 0..Len(matches) - 1 /\ offset' \in 0..total
          /\ target' \in 0..total - 1 /\ offset' <= target' /\ target' <= offset' + 2
      <4>1. matches \in Seq(0..total - 1) /\ Len(matches) <= total
        BY <1>1 DEF PageInv
      <4> QED
        BY <1>1, <2>3, <3>2, <4>1, JumpIs
    <3>4. PageInv'
      BY <1>1, <2>1, <3>3 DEF PageInv
    <3> QED
      BY <2>1, <3>3, <3>4 DEF TargetInv
  <2> QED
    BY <2>2, <2>3
<1> QED
  BY <1>2, <1>4

LEMMA PageStep ==
    ASSUME ViewInv, View!Next
    PROVE  PageInv' /\ TargetInv'
<1> USE ViewNumbers
<1>1. PageInv /\ TargetInv
  BY DEF ViewInv
<1>2. CASE View!Draw
  BY <1>1, <1>2 DEF View!Draw, PageInv, TargetInv
<1>3. ASSUME NEW to \in 0..total, View!Scroll(to) PROVE PageInv' /\ TargetInv'
  BY <1>1, <1>3 DEF View!Scroll, View!NoTarget, PageInv, TargetInv
<1>4. CASE View!Down
  <2>1. (IF View!MoreBelow THEN offset + 1 ELSE offset) \in 0..total
    BY <1>1 DEF View!MoreBelow, PageInv
  <2> QED
    BY <1>3, <1>4, <2>1 DEF View!Down
<1>5. CASE View!Up \/ View!PageUp
  <2>1. View!Minus(offset, 1) \in 0..total /\ View!Minus(offset, View!Step) \in 0..total
    BY <1>1 DEF View!Minus, View!Step, View!AtLeastOne, PageInv
  <2> QED
    BY <1>3, <1>5, <2>1 DEF View!Up, View!PageUp
<1>6. CASE View!PageDown
  <2>1. View!Least(offset + View!Step, View!Minus(total, View!Step)) \in 0..total
    BY <1>1 DEF View!Least, View!Minus, View!Step, View!AtLeastOne, PageInv
  <2> QED
    BY <1>3, <1>6, <2>1 DEF View!PageDown
<1>7. CASE View!Home \/ View!End
  <2>1. 0 \in 0..total /\ View!Minus(total, View!Step) \in 0..total
    BY <1>1 DEF View!Minus, View!Step, View!AtLeastOne, PageInv
  <2> QED
    BY <1>3, <1>7, <2>1 DEF View!Home, View!End
<1>8. CASE View!Slash \/ View!Type \/ View!Snapshot
  <2>1. UNCHANGED <<total, offset, height, matches, cursor, target>>
    BY <1>8 DEF View!Slash, View!Type, View!Snapshot
  <2> QED
    BY <1>1, <2>1 DEF PageInv, TargetInv
<1>9. CASE View!Cancel
  <2>1. /\ matches' = <<>> /\ cursor' = MaxTotal + 1
        /\ UNCHANGED <<total, offset, height, target>>
    BY <1>9 DEF View!Cancel, View!NoCursor
  <2>2. <<>> \in Seq(0..total - 1) /\ Len(<<>>) = 0
    OBVIOUS
  <2> QED
    BY <1>1, <2>1, <2>2 DEF PageInv, TargetInv
<1>10. CASE View!Confirm \/ View!Forward \/ View!Backward
  BY <1>10, SearchStep
<1> QED
  BY <1>2, <1>4, <1>5, <1>6, <1>7, <1>8, <1>9, <1>10 DEF View!Next

LEMMA ViewStep ==
    ASSUME ViewInv, View!Next
    PROVE  ViewInv'
<1>1. ViewFlags'
  BY DEF ViewInv, ViewFlags, View!Next, View!Key, View!Draw, View!Scroll, View!Down, View!Up,
         View!PageDown, View!PageUp, View!Home, View!End, View!Slash, View!Type, View!Cancel,
         View!Confirm, View!Forward, View!Backward, View!Snapshot
<1>2. CASE View!Draw
  <2>1. /\ height' \in 0..MaxHeight /\ long' \in Wraps /\ drawn' = TRUE
        /\ shown' \in 0..(View!PageEnd' - offset) /\ View!Fit(shown)'
        /\ UNCHANGED <<total, offset>>
    BY <1>2 DEF View!Draw
  <2>2. shown' \in 0..MaxHeight
    <3>1. View!PageEnd' = IF offset + height' < total THEN offset + height' ELSE total
      BY <2>1 DEF View!PageEnd, View!Least
    <3>2. offset \in Nat /\ total \in Nat /\ height' \in Nat
      BY <2>1, ViewNumbers DEF ViewInv, PageInv
    <3>3. ASSUME NEW o \in Nat, NEW n \in Nat, NEW h \in Nat, NEW e,
                 e = IF o + h < n THEN o + h ELSE n
          PROVE  e - o \in Int /\ e - o <= h
      BY <3>3
    <3>4. View!PageEnd' - offset \in Int /\ View!PageEnd' - offset <= height'
      BY <3>1, <3>2, <3>3
    <3> QED
      BY <2>1, <3>2, <3>4, ViewNumbers
  <2>3. long' \in SUBSET Nat
    BY <2>1, Assumptions DEF View!ViewerAssumption
  <2> QED
    BY <1>1, <2>1, <2>2, <2>3, PageStep DEF ViewInv, ScreenInv
<1>3. CASE ~View!Draw
  <2>1. View!Key
    BY <1>3 DEF View!Next, View!Scroll, View!Down, View!Up, View!PageDown, View!PageUp, View!Home,
                View!End, View!Slash, View!Type, View!Cancel, View!Confirm, View!Forward,
                View!Backward, View!Snapshot
  <2>2. drawn' = FALSE /\ UNCHANGED <<long, shown>>
    BY <2>1 DEF View!Key
  <2> QED
    BY <1>1, <2>2, PageStep DEF ViewInv, ScreenInv
<1> QED
  BY <1>2, <1>3

LEMMA ViewStart == View!Init => ViewInv
<1> SUFFICES ASSUME View!Init PROVE ViewInv
  OBVIOUS
<1>1. ViewFlags
  BY DEF View!Init, ViewFlags
<1>2. <<>> \in Seq(0..total - 1) /\ Len(<<>>) = 0
  OBVIOUS
<1>3. PageInv
  BY <1>2, ViewNumbers DEF View!Init, View!NoCursor, PageInv
<1>4. TargetInv /\ ScreenInv
  BY ViewNumbers DEF View!Init, View!NoTarget, TargetInv, ScreenInv
<1> QED
  BY <1>1, <1>3, <1>4 DEF ViewInv

\* The line jumped to is in the slice, so that only a wrapped line keeps it off the screen.
LEMMA MatchIsShown == ViewInv => View!MatchShown
<1> SUFFICES ASSUME ViewInv, drawn, target # MaxTotal + 1, height >= 3
             PROVE  /\ offset <= target
                    /\ target < offset + shown \/ (offset..target) \intersect long # {}
  BY DEF View!MatchShown, View!NoTarget
<1>1. /\ target \in 0..total - 1 /\ offset <= target /\ target <= offset + 2
      /\ total \in Nat /\ offset \in Nat /\ height \in Nat
  BY ViewNumbers DEF ViewInv, TargetInv, PageInv
<1>2. target \in offset..(View!PageEnd - 1)
  BY <1>1 DEF View!PageEnd, View!Least
<1>3. View!Fit(shown)
  BY DEF ViewInv, ScreenInv
<1> QED
  BY <1>1, <1>2, <1>3 DEF View!Fit

LEMMA ViewAgrees == ViewInv => View!TypeOK /\ View!NeverPanics /\ View!MatchShown
<1> SUFFICES ASSUME ViewInv PROVE View!TypeOK /\ View!NeverPanics
  BY MatchIsShown
<1> USE ViewNumbers
<1>1. PageInv /\ ViewFlags
  BY DEF ViewInv
<1>2. View!ToSet(matches) \subseteq 0..MaxTotal
  BY <1>1 DEF PageInv, View!ToSet
<1>3. View!NeverPanics
  BY <1>1 DEF PageInv, View!NeverPanics, View!PageEnd, View!Least
<1>4. total \in 0..MaxTotal /\ height \in 0..MaxHeight /\ offset \in Nat
  BY <1>1 DEF PageInv
<1>5. cursor \in 0..MaxTotal + 1 /\ (matches # <<>> => cursor \in 0..(Len(matches) - 1))
  BY <1>1 DEF PageInv
<1>6. target \in 0..MaxTotal + 1 /\ shown \in 0..MaxHeight /\ long \subseteq Nat
  BY <1>1 DEF ViewInv, TargetInv, ScreenInv, PageInv
<1> QED
  BY <1>1, <1>2, <1>3, <1>4, <1>5, <1>6 DEF View!TypeOK, ViewFlags

LEMMA PageIsNext == ViewInv => View!PageFollows
<1> SUFFICES ASSUME ViewInv, View!PageDown, height > 0
             PROVE  /\ \/ offset' <= offset + shown
                       \/ (offset..(View!PageEnd - 1)) \intersect long # {}
                    /\ offset' > offset \/ View!PageEnd = total
  BY DEF View!PageFollows
<1>1. offset \in Nat /\ height \in Nat /\ total \in Nat /\ offset <= total
  BY DEF ViewInv, PageInv
<1>2. offset' = View!Least(offset + height, View!Minus(total, height))
  BY <1>1 DEF View!PageDown, View!Scroll, View!Step, View!AtLeastOne
<1>3. offset' <= View!PageEnd /\ (offset' > offset \/ View!PageEnd = total)
  BY <1>1, <1>2 DEF View!PageEnd, View!Least, View!Minus
<1>4. View!Fit(shown) /\ shown \in Nat
  BY ViewNumbers DEF View!PageDown, View!Scroll, View!Key, ViewInv, ScreenInv
<1>5. ASSUME (offset..(View!PageEnd - 1)) \intersect long = {}, View!PageEnd > offset
      PROVE  View!PageEnd <= offset + shown
  <2> DEFINE last == View!PageEnd - 1
  <2>1. View!PageEnd \in Nat
    BY <1>1 DEF View!PageEnd, View!Least
  <2>2. last \in offset..last /\ (offset..last) \intersect long = {}
    BY <1>1, <1>5, <2>1
  <2>3. last < offset + shown
    BY <1>4, <2>2 DEF View!Fit
  <2> QED
    BY <1>1, <1>4, <2>1, <2>3
<1>6. View!PageEnd \in Nat
  BY <1>1 DEF View!PageEnd, View!Least
<1>7. offset' \in Nat
  BY <1>1, <1>2 DEF View!Least, View!Minus
<1> QED
  BY <1>1, <1>3, <1>4, <1>5, <1>6, <1>7

-----------------------------------------------------------------------------
(* The menu (tui.rs)                                                       *)

MenuTypes ==
    /\ screen \in {"main", "ports", "update"} /\ channel \in {"stable", "beta"}
    /\ running \in BOOLEAN /\ fetched \in BOOLEAN /\ ready \in BOOLEAN

MenuRows == main \in 0..4 /\ pm \in Nat /\ chosen \in Nat

\* The ports on the screen are those of the catalog that the filter lets through.
PortsInv ==
    /\ catalog \in Catalogs \union {<<>>}
    /\ IF screen = "ports" THEN fetched /\ ports = Menu!Listed(catalog, ready)
       ELSE ports = <<>>

MenuInv == MenuTypes /\ MenuRows /\ PortsInv

LEMMA ListedIs ==
    ASSUME NEW c \in Seq(BOOLEAN), NEW t
    PROVE  Menu!Listed(c, t) \in Seq(DOMAIN c)
<1> DEFINE N == Len(c)
           K == {i \in 1..N : ~t \/ c[i]}
           item == [i \in 1..N |-> i]
           step(f) == [i \in 0..N |-> IF i = 0 THEN <<>>
                                      ELSE IF ~t \/ c[i] THEN Append(f[i - 1], i)
                                      ELSE f[i - 1]]
           upTo == CHOOSE f : f = step(f)
<1>0. N \in Nat /\ DOMAIN c = 1..N
  OBVIOUS
<1>1. \A i \in 1..N : item[i] = i /\ (i \in K <=> ~t \/ c[i])
  OBVIOUS
<1> HIDE DEF N
<1>2. ASSUME NEW f, Filters(f, N, K, item) PROVE f = step(f)
  <2> HIDE DEF K, item
  <2>1. ASSUME NEW i \in 0..N PROVE f[i] = step(f)[i]
    <3>1. CASE i = 0
      BY <1>2, <3>1 DEF Filters
    <3>2. CASE i # 0
      <4>1. i \in 1..N
        BY <1>0, <3>2
      <4>2. f[i] = IF i \in K THEN Append(f[i - 1], item[i]) ELSE f[i - 1]
        BY <1>2, <4>1 DEF Filters
      <4>3. item[i] = i /\ (i \in K <=> ~t \/ c[i])
        BY <1>1, <4>1
      <4>4. step(f)[i] = IF ~t \/ c[i] THEN Append(f[i - 1], i) ELSE f[i - 1]
        BY <3>2
      <4> QED
        BY <4>2, <4>3, <4>4, Zenon
    <3> QED
      BY <3>1, <3>2
  <2>2. DOMAIN step(f) = DOMAIN f /\ step(f) = [i \in DOMAIN step(f) |-> step(f)[i]]
    BY <1>2 DEF Filters
  <2> HIDE DEF step
  <2> QED
    BY <1>2, <2>1, <2>2 DEF Filters
<1>3. ASSUME NEW f, f = step(f) PROVE Filters(f, N, K, item)
  <2> HIDE DEF K, item
  <2> DEFINE g == step(f)
  <2>1. DOMAIN g = 0..N /\ g = [i \in DOMAIN g |-> g[i]] /\ g[0] = <<>>
    BY <1>0
  <2>2. ASSUME NEW i \in 1..N
        PROVE  g[i] = IF i \in K THEN Append(f[i - 1], item[i]) ELSE f[i - 1]
    <3>1. g[i] = IF ~t \/ c[i] THEN Append(f[i - 1], i) ELSE f[i - 1]
      BY <1>0
    <3>2. item[i] = i /\ (i \in K <=> ~t \/ c[i])
      BY <1>1
    <3> QED
      BY <3>1, <3>2, Zenon
  <2> HIDE DEF step
  <2> QED
    BY <1>3, <2>1, <2>2 DEF Filters
<1>4. upTo = step(upTo)
  <2>1. \E f : f = step(f)
    <3> HIDE DEF K, item, step
    <3> QED
      BY <1>0, <1>2, FilterExists
  <2> HIDE DEF step
  <2> QED
    BY <2>1
<1>5. Menu!Listed(c, t) = upTo[N]
  BY DEF Menu!Listed, N
<1>6. \A i \in 1..N : item[i] \in 1..N
  OBVIOUS
<1>7. upTo[N] \in Seq(1..N)
  <2> HIDE DEF K, item, step, upTo
  <2>1. Filters(upTo, N, K, item)
    BY <1>3, <1>4
  <2> QED
    BY <1>0, <1>6, <2>1, FilterKeeps
<1> QED
  BY <1>0, <1>5, <1>7

LEMMA CatalogIs ==
    ASSUME NEW c \in Catalogs \union {<<>>}
    PROVE  c \in Seq(BOOLEAN)
<1>1. Catalogs \subseteq Seq(BOOLEAN)
  BY Assumptions, Zenon DEF Menu!MenuAssumption
<1>2. <<>> \in Seq(BOOLEAN)
  OBVIOUS
<1> QED
  BY <1>1, <1>2, Zenon

\* A redraw shows what the catalog and the filter are now.
LEMMA DrawIs ==
    ASSUME NEW s \in {"main", "ports", "update"}, NEW m \in 0..4, NEW p \in Nat,
           NEW c \in Catalogs \union {<<>>}, NEW t, Menu!Draw(s, m, p, c, t),
           s = "ports" => fetched', chosen' \in Nat
    PROVE  MenuRows' /\ PortsInv'
<1>1. Menu!Listed(c, t) \in Seq(DOMAIN c)
  BY CatalogIs, ListedIs
<1>2. Len(Menu!Listed(c, t)) \in Nat
  BY <1>1
<1>3. PortsInv'
  BY DEF Menu!Draw, PortsInv
<1>4. main' \in 0..4
  <2>1. Menu!Cut(m, 4) \in 0..4 /\ Menu!Cut(m, 3) \in 0..4
    BY DEF Menu!Cut, Menu!Least
  <2>2. CASE s = "main"
    BY <2>1, <2>2 DEF Menu!Draw
  <2>3. CASE s = "update"
    BY <2>1, <2>3 DEF Menu!Draw
  <2>4. CASE s = "ports"
    BY <2>4 DEF Menu!Draw
  <2> QED
    BY <2>2, <2>3, <2>4
<1>5. pm' \in Nat
  <2>1. Menu!Cut(p, Len(Menu!Listed(c, t))) \in Nat
    BY <1>2 DEF Menu!Cut, Menu!Least
  <2> QED
    BY <2>1 DEF Menu!Draw
<1> QED
  BY <1>3, <1>4, <1>5 DEF MenuRows

LEMMA MenuStep ==
    ASSUME MenuInv, Menu!Next
    PROVE  MenuInv'
<1>1. MenuTypes /\ MenuRows /\ PortsInv
  BY DEF MenuInv
<1>2. MenuTypes'
  BY <1>1 DEF MenuTypes, Menu!Next, Menu!Draw, Menu!On, Menu!MainKey, Menu!OpenPorts,
              Menu!ScreenFor, Menu!OpenUpdate, Menu!Quit, Menu!PortsKey, Menu!Filter,
              Menu!Install, Menu!LeavePorts, Menu!SwitchChannel, Menu!UpdateKey,
              Menu!LeaveUpdate
<1>3. /\ main \in 0..4 /\ pm \in Nat /\ chosen \in Nat
      /\ catalog \in Catalogs \union {<<>>} /\ catalog \in Seq(BOOLEAN)
  BY <1>1, CatalogIs DEF MenuRows, PortsInv
<1>4. /\ Menu!After(main, 4) \in 0..4 /\ Menu!After(main, 3) \in 0..4 /\ Menu!Before(main) \in 0..4
      /\ Menu!Before(pm) \in Nat
  BY <1>3 DEF Menu!After, Menu!Before, Menu!Row, Menu!Least
<1>5. Menu!Listed(catalog, ready) \in Seq(DOMAIN catalog)
  BY <1>3, ListedIs
<1>6. Menu!After(pm, Len(Menu!Listed(catalog, ready))) \in Nat
  <2>1. Len(Menu!Listed(catalog, ready)) \in Nat
    BY <1>5
  <2> QED
    BY <1>3, <2>1 DEF Menu!After, Menu!Row, Menu!Least
<1>7. Menu!On("ports") => fetched
  BY <1>1 DEF PortsInv, Menu!On
<1>8. CASE Menu!Quit
  BY <1>1, <1>2, <1>8 DEF MenuInv, MenuRows, PortsInv, Menu!Quit
<1>9. CASE Menu!MainKey
  BY <1>2, <1>3, <1>4, <1>9, DrawIs DEF MenuInv, Menu!MainKey
<1>10. CASE Menu!OpenPorts
  <2>1. PICK ok \in BOOLEAN, c \in Catalogs :
           /\ fetched' = (fetched \/ ok)
           /\ Menu!Draw(Menu!ScreenFor(ok), main, pm, IF ok THEN c ELSE catalog, ready)
    BY <1>10 DEF Menu!OpenPorts
  <2>2. chosen' = chosen
    BY <1>10 DEF Menu!OpenPorts
  <2>3. CASE ok
    BY <1>2, <1>3, <2>1, <2>2, <2>3, DrawIs DEF MenuInv, Menu!ScreenFor
  <2>4. CASE ~ok
    BY <1>2, <1>3, <2>1, <2>2, <2>4, DrawIs DEF MenuInv, Menu!ScreenFor
  <2> QED
    BY <2>3, <2>4
<1>11. CASE Menu!OpenUpdate
  BY <1>2, <1>3, <1>11, DrawIs DEF MenuInv, Menu!OpenUpdate
<1>12. CASE Menu!PortsKey
  <2>1. fetched' /\ chosen' = chosen
    BY <1>7, <1>12 DEF Menu!PortsKey
  <2> QED
    BY <1>2, <1>3, <1>4, <1>6, <1>12, <2>1, DrawIs DEF MenuInv, Menu!PortsKey
<1>13. CASE Menu!Filter
  <2>1. fetched' /\ chosen' = chosen
    BY <1>7, <1>13 DEF Menu!Filter
  <2> QED
    BY <1>2, <1>3, <1>13, <2>1, DrawIs DEF MenuInv, Menu!Filter
<1>14. CASE Menu!Install
  <2>1. fetched'
    BY <1>7, <1>14 DEF Menu!Install
  <2>2. chosen' \in Nat
    <3> DEFINE listed == Menu!Listed(catalog, ready)
    <3>1. chosen' = IF pm \in DOMAIN listed THEN listed[pm] ELSE 0
      BY <1>14 DEF Menu!Install, Menu!Rows
    <3> HIDE DEF listed
    <3>2. DOMAIN listed = 1..Len(listed) /\ DOMAIN catalog \subseteq Nat
      BY <1>3, <1>5 DEF listed
    <3>3. pm \in DOMAIN listed => listed[pm] \in DOMAIN catalog
      BY <1>5, <3>2, ItemIs DEF listed
    <3> QED
      BY <3>1, <3>2, <3>3
  <2> QED
    BY <1>2, <1>3, <1>14, <2>1, <2>2, DrawIs DEF MenuInv, Menu!Install
<1>15. CASE Menu!LeavePorts
  BY <1>2, <1>3, <1>15, DrawIs DEF MenuInv, Menu!LeavePorts
<1>16. CASE Menu!SwitchChannel
  BY <1>2, <1>3, <1>16, DrawIs DEF MenuInv, Menu!SwitchChannel
<1>17. CASE Menu!UpdateKey
  BY <1>2, <1>3, <1>4, <1>17, DrawIs DEF MenuInv, Menu!UpdateKey
<1>18. CASE Menu!LeaveUpdate
  <2>1. 1 \in 0..4 /\ chosen' = chosen /\ Menu!Draw("main", 1, pm, catalog, ready)
    BY <1>18 DEF Menu!LeaveUpdate
  <2> QED
    BY <1>2, <1>3, <2>1, DrawIs DEF MenuInv
<1> QED
  BY <1>8, <1>9, <1>10, <1>11, <1>12, <1>13, <1>14, <1>15, <1>16, <1>17, <1>18 DEF Menu!Next

LEMMA MenuStart == Menu!Init => MenuInv
<1> SUFFICES ASSUME Menu!Init PROVE MenuInv
  OBVIOUS
<1>1. MenuTypes
  BY DEF Menu!Init, MenuTypes
<1>2. MenuRows
  BY DEF Menu!Init, MenuRows
<1>3. PortsInv
  BY Zenon DEF Menu!Init, PortsInv
<1> QED
  BY <1>1, <1>2, <1>3 DEF MenuInv

LEMMA MenuAgrees == MenuInv => Menu!TypeOK /\ Menu!MenuNeverPanics /\ Menu!InstallShown
<1> SUFFICES ASSUME MenuInv PROVE Menu!TypeOK /\ Menu!MenuNeverPanics /\ Menu!InstallShown
  OBVIOUS
<1>1. MenuTypes /\ MenuRows /\ PortsInv
  BY DEF MenuInv
<1>2. Menu!MenuNeverPanics
  BY <1>1 DEF PortsInv, Menu!MenuNeverPanics
<1>3. Menu!InstallShown
  BY <1>1 DEF PortsInv, Menu!InstallShown, Menu!Install, Menu!Rows, Menu!On
<1>4. Menu!Range(ports) \subseteq DOMAIN catalog
  <2>1. ports \in Seq(DOMAIN catalog)
    <3>1. CASE screen = "ports"
      BY <1>1, <3>1, CatalogIs, ListedIs DEF PortsInv
    <3>2. CASE screen # "ports"
      BY <1>1, <3>2 DEF PortsInv
    <3> QED
      BY <3>1, <3>2
  <2> QED
    BY <2>1 DEF Menu!Range
<1>5. main \in 0..Len(<<"ports", "update", "other", "quit">>)
  BY <1>1 DEF MenuRows
<1> QED
  BY <1>1, <1>2, <1>3, <1>4, <1>5 DEF MenuTypes, MenuRows, PortsInv, Menu!TypeOK

-----------------------------------------------------------------------------
(* The three of them                                                       *)

CopiesInv ==
    /\ which = "audit" => AuditInv
    /\ which = "saves" => PackInv
    /\ which = "ports" => PortInv

LEMMA CopiesStep ==
    ASSUME CopiesInv, [Next]_all
    PROVE  CopiesInv'
<1>1. CASE which = "audit"
  <2>1. CASE Audit!Next /\ which' = which
    BY <1>1, <2>1, AuditStep DEF CopiesInv
  <2>2. CASE UNCHANGED <<which, AuditVars>>
    <3>1. AuditInv
      BY <1>1 DEF CopiesInv
    <3>2. AuditInv'
      BY <2>2, <3>1 DEF AuditVars, AuditInv, AuditTypes, TimesInv, RowsInv, ReadInv, IsOf
    <3> QED
      BY <1>1, <2>2, <3>2 DEF CopiesInv
  <2> QED
    BY <1>1, <2>1, <2>2 DEF Next, OnlyThis, all
<1>2. CASE which = "saves"
  <2>1. CASE Pack!Next /\ which' = which
    BY <1>2, <2>1, PackStep DEF CopiesInv
  <2>2. CASE UNCHANGED <<which, PackVars>>
    <3>1. PackInv
      BY <1>2 DEF CopiesInv
    <3>2. PackerInv'
      BY <2>2, <3>1 DEF PackVars, PackInv, PackerInv, PackTypes, OneInv, WorkInv, BodyInv,
                        Packs, Sound
    <3>3. StoreInv'
      BY <2>2, <3>1 DEF PackVars, PackInv, StoreInv, StoreTypes, KeptInv, Sound
    <3> QED
      BY <1>2, <2>2, <3>2, <3>3 DEF CopiesInv, PackInv
  <2> QED
    BY <1>2, <2>1, <2>2 DEF Next, OnlyThis, all
<1>3. CASE which = "ports"
  <2>1. CASE Port!Next /\ which' = which
    BY <1>3, <2>1, PortStep DEF CopiesInv
  <2>2. CASE UNCHANGED <<which, PortVars>>
    <3>1. PortInv
      BY <1>3 DEF CopiesInv
    <3>2. PortInv'
      BY <2>2, <3>1 DEF PortVars, PortInv, PortTypes, AloneInv, Port!Unpacking
    <3> QED
      BY <1>3, <2>2, <3>2 DEF CopiesInv
  <2> QED
    BY <1>3, <2>1, <2>2 DEF Next, OnlyThis, all
<1>4. CASE which \notin {"audit", "saves", "ports"}
  <2>1. which' = which
    BY DEF Next, OnlyThis, all
  <2> QED
    BY <1>4, <2>1 DEF CopiesInv
<1> QED
  BY <1>1, <1>2, <1>3, <1>4

\* What was made from files agrees with them.  audit.rs: a hash in the cache that would be
\* used is the file's, and ROMs reported as duplicates under a hash hold the same content,
\* unless a file was written twice within one time stamp or during the audit.  saves.rs: an
\* archive the server holds has its end and every save that was there, each to be got out of
\* it whole unless it, or one packed before it, was written during the pack; routes.rs: an
\* archive that was answered for stays unless a second one comes that second.
\* portmaster.rs: an install that reports success left every file of one release.
THEOREM CopiesHold == Spec => []CopiesAgree
<1>1. Init => CopiesInv
  BY AuditStart, PackStarts, PortStart DEF Init, CopiesInv
<1>2. CopiesInv /\ [Next]_all => CopiesInv'
  BY CopiesStep
<1>3. CopiesInv => CopiesAgree
  BY AuditAgrees, PackAgrees, PortAgrees DEF CopiesInv, CopiesAgree
<1> QED
  BY <1>1, <1>2, <1>3, PTL DEF Spec

-----------------------------------------------------------------------------
(* The scheduler (sync.rs)                                                 *)

LEMMA DayFacts ==
    ASSUME NEW h \in Nat \ {0}, NEW a \in Nat, NEW b \in Nat, a <= b
    PROVE  a \div h \in Nat /\ a \div h <= b \div h /\ a \div h <= a
OBVIOUS

SchedTypes ==
    /\ time \in 0..MaxHours /\ read \in 0..time
    /\ phase \in {"polls", "tick", "job", "asleep", "down"}
    /\ index \in 1..Len(JobOrder) + 1
    /\ restarts \in 0..MaxRestarts /\ (phase = "down" => restarts # 0)
    /\ ticked \subseteq 0..MaxHours /\ late \subseteq Sched!Daily

Today == Sched!DayOf(read)

\* A job has had its run of the last day it is done for, and that day is not ahead.
DoneInv ==
    /\ lastDay \in [Sched!Daily -> Sched!Days \union {Sched!Never}]
    /\ fired \in [Sched!Daily -> [Sched!Days -> 0..1]]
    /\ \A j \in Sched!Daily : lastDay[j] # Sched!Never =>
          lastDay[j] \in Sched!Days /\ lastDay[j] <= Today /\ fired[j][lastDay[j]] = 1

\* Whatever was fired is done for that day, unless it is running.
FiredInv ==
    phase # "down" => \A j \in Sched!Daily, d \in Sched!Days :
        fired[j][d] = 1 => \/ lastDay[j] # Sched!Never /\ d <= lastDay[j]
                           \/ phase = "job" /\ j = Sched!Job /\ d = Today

\* The job that runs is due; a tick whose clock is old has run a job of its hour.
TickInv ==
    /\ phase = "job" => /\ index \in DOMAIN JobOrder /\ fired[Sched!Job][Today] = 1
                        /\ HourOf[Sched!Job] = Sched!Hour(read)
    /\ phase = "tick" /\ time # read =>
          \E k \in Sched!Daily : HourOf[k] = Sched!Hour(read) /\ lastDay[k] = Today
    /\ Sched!LateOnlyBehind

\* What the tick is past, of this hour, has been fired today.
ServedInv ==
    restarts = 0 =>
        /\ \A t \in ticked, j \in Sched!Daily :
              Sched!Hour(t) = HourOf[j] => fired[j][Sched!DayOf(t)] = 1
        /\ phase \in {"tick", "job"} => \A i \in 1..index - 1 :
              Sched!Hour(read) = HourOf[JobOrder[i]] => fired[JobOrder[i]][Today] = 1

SchedInv == SchedTypes /\ DoneInv /\ FiredInv /\ TickInv /\ ServedInv

LEMMA SchedNumbers ==
    /\ HoursADay \in Nat \ {0} /\ MaxHours \in Nat /\ MaxRestarts \in Nat
    /\ HoursADay <= MaxHours /\ JobOrder \in Seq(Sched!Daily)
    /\ Len(JobOrder) \in Nat /\ DOMAIN JobOrder = 1..Len(JobOrder)
    /\ Sched!Days \subseteq Nat /\ Sched!Never \in Nat /\ Sched!Never \notin Sched!Days
<1>1. /\ HoursADay \in Nat \ {0} /\ MaxHours \in Nat /\ MaxRestarts \in Nat
      /\ HoursADay <= MaxHours /\ JobOrder \in Seq(Sched!Daily)
  BY Assumptions DEF Sched!SchedulerAssumption
<1>2. Len(JobOrder) \in Nat /\ DOMAIN JobOrder = 1..Len(JobOrder)
  BY <1>1
<1>3. MaxHours \div HoursADay \in Nat /\ MaxHours \div HoursADay <= MaxHours
  BY <1>1, DayFacts
<1> QED
  BY <1>1, <1>2, <1>3 DEF Sched!Days, Sched!Never

LEMMA DayIs ==
    ASSUME NEW t \in 0..MaxHours
    PROVE  Sched!DayOf(t) \in Sched!Days /\ Sched!DayOf(t) \in Nat /\ Sched!DayOf(t) # Sched!Never
<1>1. t \div HoursADay \in Nat /\ t \div HoursADay <= MaxHours \div HoursADay
  BY SchedNumbers, DayFacts
<1>2. MaxHours \div HoursADay \in Nat
  BY SchedNumbers, DayFacts
<1>3. Sched!DayOf(t) \in Sched!Days
  BY <1>1, <1>2 DEF Sched!DayOf, Sched!Days
<1> QED
  BY <1>3, SchedNumbers

LEMMA TodayIs ==
    ASSUME SchedTypes
    PROVE  Today \in Sched!Days /\ Today \in Nat /\ Today # Sched!Never
<1>1. read \in 0..MaxHours
  BY SchedNumbers DEF SchedTypes
<1> QED
  BY <1>1, DayIs DEF Today

LEMMA JobIs ==
    ASSUME index \in DOMAIN JobOrder
    PROVE  Sched!Job \in Sched!Daily
BY DEF Sched!Job, Sched!Daily

\* Where neither what is fired nor what is done changes.
LEMMA QuietStep ==
    ASSUME SchedInv, UNCHANGED <<lastDay, fired, late>>, SchedTypes',
           phase # "down" \/ phase' = "down", phase' # "job" \/ UNCHANGED <<phase, index, read>>,
           phase = "job" => phase' \in {"job", "down"},
           read' >= read,
           phase' = "tick" /\ time' # read' => phase = "tick" /\ UNCHANGED <<time, read>>,
           ServedInv'
    PROVE  SchedInv'
<1>1. DoneInv'
  <2>1. Today \in Nat /\ Today' \in Nat /\ Today <= Today'
    <3>1. read \in Nat /\ read' \in Nat
      BY SchedNumbers DEF SchedInv, SchedTypes
    <3>2. read <= read' /\ HoursADay \in Nat \ {0}
      BY <3>1, SchedNumbers
    <3>3. Today = read \div HoursADay /\ Today' = read' \div HoursADay
      BY DEF Today, Sched!DayOf
    <3>4. PICK a \in Nat, b \in Nat : a = read /\ b = read'
      BY <3>1
    <3>5. a <= b
      BY <3>2, <3>4
    <3>6. a \div HoursADay \in Nat /\ a \div HoursADay <= b \div HoursADay
      BY <3>2, <3>5, DayFacts
    <3>7. b \div HoursADay \in Nat
      BY <3>2, DayFacts
    <3> QED
      BY <3>3, <3>4, <3>6, <3>7
  <2>2. ASSUME NEW j \in Sched!Daily, lastDay[j] # Sched!Never
        PROVE  lastDay[j] \in Sched!Days /\ lastDay[j] <= Today' /\ fired[j][lastDay[j]] = 1
    <3>1. lastDay[j] \in Sched!Days /\ lastDay[j] <= Today /\ fired[j][lastDay[j]] = 1
      BY <2>2 DEF SchedInv, DoneInv
    <3>2. lastDay[j] \in Nat
      BY <3>1, SchedNumbers
    <3>3. lastDay[j] <= Today'
      BY <2>1, <3>1, <3>2
    <3> QED
      BY <3>1, <3>3
  <2> QED
    BY <2>2 DEF SchedInv, DoneInv
<1>2. FiredInv'
  BY DEF SchedInv, FiredInv, Today, Sched!Job
<1>3. TickInv'
  BY DEF SchedInv, TickInv, Today, Sched!Job, Sched!LateOnlyBehind
<1> QED
  BY <1>1, <1>2, <1>3 DEF SchedInv

LEMMA FireStep ==
    ASSUME SchedInv, Sched!Fire
    PROVE  SchedInv'
<1> USE SchedNumbers
<1>1. PICK j \in Sched!Daily : j = Sched!Job
  BY JobIs DEF Sched!Fire
<1>2. PICK D \in Sched!Days : D = Today
  BY TodayIs DEF SchedInv
<1>3. /\ phase = "tick" /\ phase' = "job" /\ index \in DOMAIN JobOrder
      /\ HourOf[j] = Sched!Hour(read) /\ lastDay[j] # D
      /\ fired' = [fired EXCEPT ![j][D] = @ + 1]
      /\ late' = IF time = read THEN late ELSE late \union {j}
      /\ UNCHANGED <<time, index, read, lastDay, ticked, restarts>>
      /\ Sched!Job' = j /\ Today' = D
  BY <1>1, <1>2 DEF Sched!Fire, Sched!Due, Sched!Job, Today
<1>4. /\ lastDay \in [Sched!Daily -> Sched!Days \union {Sched!Never}]
      /\ fired \in [Sched!Daily -> [Sched!Days -> 0..1]]
  BY DEF SchedInv, DoneInv
<1>5. fired[j][D] = 0
  <2>1. fired[j][D] \in 0..1
    BY <1>4
  <2>2. fired[j][D] # 1
    <3>1. SUFFICES ASSUME fired[j][D] = 1 PROVE FALSE
      OBVIOUS
    <3>2. lastDay[j] # Sched!Never /\ D <= lastDay[j]
      BY <1>3, <3>1 DEF SchedInv, FiredInv
    <3>3. lastDay[j] \in Sched!Days /\ lastDay[j] <= D
      BY <1>2, <3>2 DEF SchedInv, DoneInv
    <3> QED
      BY <1>3, <3>2, <3>3
  <2> QED
    BY <2>1, <2>2
<1>6. /\ fired'[j][D] = 1
      /\ \A k \in Sched!Daily, d \in Sched!Days : k # j \/ d # D => fired'[k][d] = fired[k][d]
      /\ fired' \in [Sched!Daily -> [Sched!Days -> 0..1]]
  BY <1>3, <1>4, <1>5
<1>7. \A k \in Sched!Daily, d \in Sched!Days : fired[k][d] = 1 => fired'[k][d] = 1
  BY <1>5, <1>6
<1>8. SchedTypes'
  BY <1>3 DEF SchedInv, SchedTypes
<1>9. DoneInv'
  BY <1>2, <1>3, <1>4, <1>6, <1>7 DEF SchedInv, DoneInv
<1>10. FiredInv'
  BY <1>3, <1>6 DEF SchedInv, FiredInv
<1>11. TickInv'
  <2>1. Sched!LateOnlyBehind'
    <3>1. CASE time = read
      BY <1>3, <3>1 DEF SchedInv, TickInv, Sched!LateOnlyBehind
    <3>2. CASE time # read
      <4>1. PICK k \in Sched!Daily : HourOf[k] = Sched!Hour(read) /\ lastDay[k] = D
        BY <1>2, <1>3, <3>2 DEF SchedInv, TickInv
      <4>2. k # j /\ HourOf[k] = HourOf[j]
        BY <1>3, <4>1
      <4> QED
        BY <1>3, <3>2, <4>2 DEF SchedInv, TickInv, Sched!LateOnlyBehind
    <3> QED
      BY <3>1, <3>2
  <2> QED
    BY <1>3, <1>6, <2>1 DEF TickInv
<1>12. ServedInv'
  <2>1. SUFFICES ASSUME restarts = 0
        PROVE  /\ \A t \in ticked, k \in Sched!Daily :
                     Sched!Hour(t) = HourOf[k] => fired'[k][Sched!DayOf(t)] = 1
               /\ \A i \in 1..index - 1 :
                     Sched!Hour(read) = HourOf[JobOrder[i]] => fired'[JobOrder[i]][D] = 1
    BY <1>3 DEF ServedInv
  <2>2. ASSUME NEW t \in ticked, NEW k \in Sched!Daily, Sched!Hour(t) = HourOf[k]
        PROVE  fired'[k][Sched!DayOf(t)] = 1
    <3>1. Sched!DayOf(t) \in Sched!Days
      BY DayIs DEF SchedInv, SchedTypes
    <3> QED
      BY <1>7, <2>1, <2>2, <3>1 DEF SchedInv, ServedInv
  <2>3. ASSUME NEW i \in 1..index - 1, Sched!Hour(read) = HourOf[JobOrder[i]]
        PROVE  fired'[JobOrder[i]][D] = 1
    <3>1. JobOrder[i] \in Sched!Daily
      BY DEF SchedInv, SchedTypes, Sched!Daily
    <3>2. fired[JobOrder[i]][D] = 1
      BY <1>2, <1>3, <2>1, <2>3 DEF SchedInv, ServedInv
    <3> QED
      BY <1>7, <3>1, <3>2
  <2> QED
    BY <2>2, <2>3
<1> QED
  BY <1>8, <1>9, <1>10, <1>11, <1>12 DEF SchedInv

LEMMA FinishedStep ==
    ASSUME SchedInv, Sched!Finished
    PROVE  SchedInv'
<1> USE SchedNumbers
<1>1. phase = "job" /\ index \in DOMAIN JobOrder
  BY DEF SchedInv, TickInv, Sched!Finished
<1>2. PICK j \in Sched!Daily : j = Sched!Job
  BY <1>1, JobIs
<1>3. PICK D \in Sched!Days : D = Today
  BY TodayIs DEF SchedInv
<1>4. /\ phase' = "tick" /\ index' = index + 1
      /\ lastDay' = [lastDay EXCEPT ![j] = D]
      /\ UNCHANGED <<time, read, fired, ticked, late, restarts>>
      /\ Today' = D
  BY <1>2, <1>3 DEF Sched!Finished, Today
<1>5. fired[j][D] = 1 /\ HourOf[j] = Sched!Hour(read) /\ j = JobOrder[index]
  BY <1>1, <1>2, <1>3 DEF SchedInv, TickInv, Sched!Job
<1>6. /\ lastDay \in [Sched!Daily -> Sched!Days \union {Sched!Never}]
      /\ lastDay'[j] = D /\ D # Sched!Never
      /\ \A k \in Sched!Daily : k # j => lastDay'[k] = lastDay[k]
  BY <1>3, <1>4 DEF SchedInv, DoneInv
<1>7. SchedTypes'
  BY <1>1, <1>4 DEF SchedInv, SchedTypes
<1>8. DoneInv'
  <2>1. lastDay' \in [Sched!Daily -> Sched!Days \union {Sched!Never}]
    BY <1>4, <1>6
  <2>2. ASSUME NEW k \in Sched!Daily, lastDay'[k] # Sched!Never
        PROVE  lastDay'[k] \in Sched!Days /\ lastDay'[k] <= D /\ fired[k][lastDay'[k]] = 1
    <3>1. CASE k = j
      BY <1>5, <1>6, <3>1
    <3>2. CASE k # j
      BY <1>3, <1>6, <2>2, <3>2 DEF SchedInv, DoneInv
    <3> QED
      BY <3>1, <3>2
  <2> QED
    BY <1>4, <2>1, <2>2 DEF SchedInv, DoneInv
<1>9. FiredInv'
  <2>1. ASSUME NEW k \in Sched!Daily, NEW d \in Sched!Days, fired[k][d] = 1
        PROVE  lastDay'[k] # Sched!Never /\ d <= lastDay'[k]
    <3>1. \/ lastDay[k] # Sched!Never /\ d <= lastDay[k]
          \/ k = j /\ d = D
      BY <1>1, <1>2, <1>3, <2>1 DEF SchedInv, FiredInv
    <3>2. lastDay[k] # Sched!Never => lastDay[k] \in Sched!Days /\ lastDay[k] <= D
      BY <1>3 DEF SchedInv, DoneInv
    <3>3. CASE k = j
      <4>1. d \in Nat /\ D \in Nat /\ (lastDay[k] \in Sched!Days => lastDay[k] \in Nat)
        OBVIOUS
      <4>2. d <= D
        <5>1. CASE lastDay[k] # Sched!Never
          BY <3>1, <3>2, <4>1, <5>1
        <5>2. CASE lastDay[k] = Sched!Never
          BY <3>1, <4>1, <5>2
        <5> QED
          BY <5>1, <5>2
      <4> QED
        BY <1>6, <3>3, <4>2
    <3>4. CASE k # j
      BY <1>6, <3>1, <3>4
    <3> QED
      BY <3>3, <3>4
  <2> QED
    BY <1>4, <2>1 DEF FiredInv
<1>10. TickInv'
  <2>1. Sched!LateOnlyBehind'
    BY <1>4 DEF SchedInv, TickInv, Sched!LateOnlyBehind
  <2> QED
    BY <1>4, <1>5, <1>6, <2>1 DEF TickInv
<1>11. ServedInv'
  <2>1. ASSUME restarts = 0, NEW i \in 1..index' - 1, Sched!Hour(read) = HourOf[JobOrder[i]]
        PROVE  fired[JobOrder[i]][D] = 1
    <3>1. CASE i = index
      BY <1>5, <3>1
    <3>2. CASE i # index
      <4>1. i \in 1..index - 1
        BY <1>1, <1>4, <3>2
      <4> QED
        BY <1>1, <1>3, <2>1, <4>1 DEF SchedInv, ServedInv
    <3> QED
      BY <3>1, <3>2
  <2> QED
    BY <1>4, <2>1 DEF SchedInv, ServedInv
<1> QED
  BY <1>7, <1>8, <1>9, <1>10, <1>11 DEF SchedInv

LEMMA SchedStep ==
    ASSUME SchedInv, Sched!Next
    PROVE  SchedInv'
<1> USE SchedNumbers
<1>1. SchedTypes
  BY DEF SchedInv
<1>2. time \in Nat /\ read \in Nat /\ read <= time
  BY <1>1 DEF SchedTypes
<1>3. CASE Sched!Advance
  <2>1. SchedTypes'
    BY <1>1, <1>3 DEF SchedTypes, Sched!Advance
  <2>2. ServedInv'
    BY <1>3 DEF SchedInv, ServedInv, Today, Sched!Advance
  <2>3. phase # "tick"
    BY <1>3 DEF Sched!Advance
  <2> QED
    BY <1>2, <1>3, <2>1, <2>2, <2>3, QuietStep DEF Sched!Advance
<1>4. CASE Sched!BeginTick
  <2>1. SchedTypes'
    BY <1>1, <1>4 DEF SchedTypes, Sched!BeginTick
  <2>2. ServedInv'
    <3>1. 1..index' - 1 = {}
      BY <1>4 DEF Sched!BeginTick
    <3> QED
      BY <1>4, <3>1 DEF SchedInv, ServedInv, Sched!BeginTick
  <2> QED
    BY <1>2, <1>4, <2>1, <2>2, QuietStep DEF Sched!BeginTick
<1>5. CASE Sched!NotDue
  <2>1. SchedTypes'
    BY <1>1, <1>5 DEF SchedTypes, Sched!NotDue
  <2>2. Sched!Hour(read) = HourOf[Sched!Job] => fired[Sched!Job][Today] = 1
    <3>1. Sched!Job \in Sched!Daily
      BY <1>5, JobIs DEF Sched!NotDue
    <3>2. Today # Sched!Never
      BY <1>1, TodayIs
    <3> QED
      BY <1>5, <3>1, <3>2 DEF SchedInv, DoneInv, Sched!NotDue, Sched!Due, Today
  <2>3. ServedInv'
    <3>1. ASSUME restarts = 0, NEW i \in 1..index' - 1, Sched!Hour(read) = HourOf[JobOrder[i]]
          PROVE  fired[JobOrder[i]][Today] = 1
      <4>1. CASE i = index
        BY <2>2, <3>1, <4>1 DEF Sched!Job
      <4>2. CASE i # index
        <5>1. i \in 1..index - 1
          BY <1>5, <4>2 DEF Sched!NotDue
        <5> QED
          BY <1>5, <3>1, <5>1 DEF SchedInv, ServedInv, Sched!NotDue
      <4> QED
        BY <4>1, <4>2
    <3> QED
      BY <1>5, <3>1 DEF SchedInv, ServedInv, Sched!NotDue, Today
  <2> QED
    BY <1>2, <1>5, <2>1, <2>3, QuietStep DEF Sched!NotDue
<1>6. CASE Sched!EndTick
  <2>1. SchedTypes'
    BY <1>1, <1>6 DEF SchedTypes, Sched!EndTick
  <2>2. ServedInv'
    <3>1. ASSUME restarts = 0, NEW j \in Sched!Daily, Sched!Hour(read) = HourOf[j]
          PROVE  fired[j][Today] = 1
      <4>1. PICK i \in DOMAIN JobOrder : JobOrder[i] = j
        BY DEF Sched!Daily
      <4>2. i \in 1..index - 1
        BY <1>1, <1>6, <4>1 DEF SchedTypes, Sched!EndTick
      <4> QED
        BY <1>6, <3>1, <4>1, <4>2 DEF SchedInv, ServedInv, Sched!EndTick
    <3> QED
      BY <1>6, <3>1 DEF SchedInv, ServedInv, Sched!EndTick, Today
  <2> QED
    BY <1>2, <1>6, <2>1, <2>2, QuietStep DEF Sched!EndTick
<1>7. CASE Sched!WakeUp
  <2>1. SchedTypes'
    BY <1>1, <1>7 DEF SchedTypes, Sched!WakeUp
  <2>2. ServedInv'
    BY <1>7 DEF SchedInv, ServedInv, Sched!WakeUp
  <2> QED
    BY <1>2, <1>7, <2>1, <2>2, QuietStep DEF Sched!WakeUp
<1>8. CASE Sched!Stop
  <2>1. SchedTypes'
    BY <1>1, <1>8 DEF SchedTypes, Sched!Stop
  <2>2. ServedInv'
    BY <1>1, <1>8 DEF SchedTypes, ServedInv, Sched!Stop
  <2> QED
    BY <1>2, <1>8, <2>1, <2>2, QuietStep DEF Sched!Stop
<1>9. CASE Sched!Start
  <2>1. SchedTypes'
    BY <1>1, <1>9 DEF SchedTypes, Sched!Start
  <2>2. /\ lastDay' = [j \in Sched!Daily |-> Sched!Never]
        /\ fired' = [j \in Sched!Daily |-> [d \in Sched!Days |-> 0]]
    BY <1>9 DEF Sched!Start, Sched!Fresh
  <2>3. DoneInv'
    BY <2>2 DEF DoneInv
  <2>4. FiredInv'
    BY <2>2 DEF FiredInv
  <2>5. TickInv'
    BY <1>9 DEF SchedInv, TickInv, Sched!Start, Sched!LateOnlyBehind
  <2>6. ServedInv'
    BY <1>1, <1>9 DEF SchedTypes, ServedInv, Sched!Start
  <2> QED
    BY <2>1, <2>3, <2>4, <2>5, <2>6 DEF SchedInv
<1> QED
  BY <1>3, <1>4, <1>5, <1>6, <1>7, <1>8, <1>9, FireStep, FinishedStep DEF Sched!Next

LEMMA SchedStart == Sched!Init => SchedInv
<1> SUFFICES ASSUME Sched!Init PROVE SchedInv
  OBVIOUS
<1> USE SchedNumbers
<1>1. SchedTypes
  BY DEF Sched!Init, SchedTypes
<1>2. /\ lastDay = [j \in Sched!Daily |-> Sched!Never]
      /\ fired = [j \in Sched!Daily |-> [d \in Sched!Days |-> 0]]
      /\ phase = "polls" /\ ticked = {} /\ late = {}
  BY DEF Sched!Init
<1>3. DoneInv
  BY <1>2 DEF DoneInv
<1>4. FiredInv
  BY <1>2 DEF FiredInv
<1>5. TickInv /\ ServedInv
  BY <1>2 DEF TickInv, ServedInv, Sched!LateOnlyBehind
<1> QED
  BY <1>1, <1>3, <1>4, <1>5 DEF SchedInv

LEMMA SchedAgrees ==
    SchedInv => Sched!TypeOK /\ Sched!OncePerDay /\ Sched!HourIsServed /\ Sched!LateOnlyBehind
<1> SUFFICES ASSUME SchedInv
             PROVE  Sched!TypeOK /\ Sched!OncePerDay /\ Sched!HourIsServed /\ Sched!LateOnlyBehind
  OBVIOUS
<1>1. fired \in [Sched!Daily -> [Sched!Days -> 0..1]]
  BY DEF SchedInv, DoneInv
<1>2. Sched!OncePerDay
  BY <1>1 DEF Sched!OncePerDay
<1>3. Sched!HourIsServed
  <2>1. ASSUME restarts = 0, NEW t \in ticked, NEW j \in Sched!Daily, Sched!Hour(t) = HourOf[j]
        PROVE  fired[j][Sched!DayOf(t)] = 1
    BY <2>1 DEF SchedInv, ServedInv
  <2> QED
    BY <2>1 DEF Sched!HourIsServed
<1>4. fired \in [Sched!Daily -> [Sched!Days -> Nat]]
  BY <1>1
<1> QED
  BY <1>2, <1>3, <1>4 DEF SchedInv, SchedTypes, DoneInv, TickInv, Sched!TypeOK


-----------------------------------------------------------------------------
(* Backup and restore (cloud.rs)                                           *)

Phase == [at : {"idle", "next", "copying"}, index : {1, 2},
          todo : SUBSET Mirror!Files, extra : SUBSET Mirror!Files]
Orphan == [of : Mirror!Jobs, index : {1, 2},
           todo : SUBSET Mirror!Files, extra : SUBSET Mirror!Files]

MirrorTypes ==
    /\ version \in 0..MaxVersion /\ jobs \in 0..MaxJobs /\ faults \in 0..MaxFaults
    /\ card \in [Mirror!Files -> 0..version]
    /\ cloud \in [Mirror!Files -> 0..version]
    /\ snap \in [Mirror!Files -> 0..version]

MirrorFlags == there \in BOOLEAN /\ paired \in BOOLEAN /\ claimed \in BOOLEAN /\ fresh \in BOOLEAN

FolderOf(i) == IF i = 1 THEN Savestates ELSE OwnFiles

JobsInv ==
    /\ job \in [Mirror!Jobs -> Phase]
    /\ \A k \in Mirror!Jobs : job[k].todo \union job[k].extra \subseteq FolderOf(job[k].index)

\* What is left of a snapshot is on the card.
SnapInv == \A f \in Mirror!Files : snap[f] = 0 \/ snap[f] = card[f]

\* There is no save without the folder of saves; as long as the card is fresh there is no
\* such folder, and no backup copies it.
CardInv ==
    /\ ~there => \A f \in Savestates : card[f] = 0
    /\ fresh => ~there
    /\ job["restore"].at = "copying" /\ job["restore"].index = 1 => there
    /\ fresh /\ job["backup"].at = "copying" => job["backup"].index = 2

\* Of what a backup found, the cloud has what it is done with; all of it once it is ok, but
\* for what an orphan removed.
BackupInv ==
    /\ claimed => /\ job["backup"].at = "idle"
                  /\ \A f \in Mirror!Files \ undone : snap[f] # 0 => cloud[f] = snap[f]
    /\ job["backup"].at # "idle" => \A f \in Mirror!Files \ undone : snap[f] # 0 =>
          \/ job["backup"].index = 2 /\ f \in Savestates /\ cloud[f] = snap[f]
          \/ /\ job["backup"].at = "copying" /\ f \in FolderOf(job["backup"].index)
             /\ f \in job["backup"].todo \/ cloud[f] = snap[f]
    /\ job["backup"].at = "copying" => \A f \in job["backup"].extra : snap[f] = 0

\* An rclone without its agent keeps to its folder; as long as the card is fresh, none backs
\* up the saves.
OrphanInv ==
    /\ orphans \in SUBSET Orphan /\ undone \in SUBSET Mirror!Files
    /\ \A o \in orphans :
          /\ o.todo \union o.extra \subseteq FolderOf(o.index)
          /\ o.of = "restore" /\ o.index = 1 => there
          /\ o.of = "backup" /\ fresh => o.index = 2

MirrorInv == MirrorTypes /\ MirrorFlags /\ JobsInv /\ SnapInv /\ CardInv /\ BackupInv /\ OrphanInv

LEMMA MirrorNumbers ==
    /\ MaxVersion \in Nat /\ MaxJobs \in Nat /\ MaxFaults \in Nat
    /\ Savestates \intersect OwnFiles = {} /\ Mirror!Files = Savestates \union OwnFiles
    /\ Mirror!Jobs = {"backup", "restore"}
BY Assumptions DEF Mirror!MirrorAssumption, Mirror!Files, Mirror!Jobs

LEMMA FolderIs ==
    ASSUME NEW i \in {1, 2}
    PROVE  Mirror!Folders[i] = FolderOf(i) /\ FolderOf(i) \subseteq Mirror!Files
BY MirrorNumbers DEF Mirror!Folders, FolderOf

IdlePhase == [at |-> "idle", index |-> 1, todo |-> {}, extra |-> {}]

LEMMA PhasesAre ==
    /\ Mirror!Idle = IdlePhase /\ IdlePhase \in Phase
    /\ [IdlePhase EXCEPT !.at = "next"] \in Phase
    /\ [IdlePhase EXCEPT !.at = "next"] = [at |-> "next", index |-> 1, todo |-> {}, extra |-> {}]
BY DEF Mirror!Idle, IdlePhase, Phase

\* What a job goes on with.
LEMMA FurtherIs ==
    ASSUME MirrorInv, NEW k \in Mirror!Jobs
    PROVE  /\ Mirror!Further(k) \in Phase
           /\ Mirror!Further(k).todo = {} /\ Mirror!Further(k).extra = {}
           /\ job[k].index = 1 => Mirror!Further(k).at = "next" /\ Mirror!Further(k).index = 2
           /\ job[k].index = 2 => Mirror!Further(k).at = "idle"
<1>1. job[k].index \in {1, 2}
  BY DEF MirrorInv, JobsInv, Phase
<1>2. Len(Mirror!Folders) = 2
  BY DEF Mirror!Folders
<1>3. CASE job[k].index = 1
  <2>1. Mirror!Further(k) = [at |-> "next", index |-> 2, todo |-> {}, extra |-> {}]
    <3>1. job[k].index < Len(Mirror!Folders)
      BY <1>2, <1>3
    <3> DEFINE q == [IdlePhase EXCEPT !.at = "next"]
    <3>2. Mirror!Further(k) = [q EXCEPT !.index = q.index + 1]
      BY <3>1, PhasesAre, Zenon DEF Mirror!Further
    <3>3. q = [at |-> "next", index |-> 1, todo |-> {}, extra |-> {}]
      BY PhasesAre
    <3> HIDE DEF q
    <3>4. q.index + 1 = 2
      BY <3>3
    <3>5. Mirror!Further(k) = [q EXCEPT !.index = 2]
      BY <3>2, <3>4, Zenon
    <3> QED
      BY <3>3, <3>5
  <2> QED
    BY <1>3, <2>1 DEF Phase
<1>4. CASE job[k].index = 2
  <2>1. Mirror!Further(k) = IdlePhase
    BY <1>2, <1>4, PhasesAre DEF Mirror!Further
  <2> QED
    BY <1>4, <2>1, PhasesAre DEF IdlePhase
<1> QED
  BY <1>1, <1>3, <1>4

\* A file that is put on the card: if it is another, the snapshot has it no more.
LEMMA PutIs ==
    ASSUME MirrorInv, NEW f \in Mirror!Files, NEW v \in 0..version', Mirror!Put(f, v),
           version' \in Nat, version <= version'
    PROVE  /\ card' \in [Mirror!Files -> 0..version']
           /\ snap' \in [Mirror!Files -> 0..version']
           /\ card'[f] = v /\ \A g \in Mirror!Files : g # f => card'[g] = card[g]
           /\ \A g \in Mirror!Files : snap'[g] = 0 \/ snap'[g] = snap[g]
           /\ SnapInv'
<1>1. /\ card' = [card EXCEPT ![f] = v]
      /\ snap' = IF v = card[f] THEN snap ELSE [snap EXCEPT ![f] = 0]
  BY DEF Mirror!Put, Mirror!Absent
<1>2. /\ card \in [Mirror!Files -> 0..version] /\ snap \in [Mirror!Files -> 0..version]
      /\ version \in Nat
  BY MirrorNumbers DEF MirrorInv, MirrorTypes
<1>3. 0..version \subseteq 0..version' /\ 0 \in 0..version'
  BY <1>2
<1>4. /\ card' \in [Mirror!Files -> 0..version']
      /\ card'[f] = v /\ \A g \in Mirror!Files : g # f => card'[g] = card[g]
  BY <1>1, <1>2, <1>3
<1>5. CASE v = card[f]
  <2>1. snap' = snap
    BY <1>1, <1>5
  <2> QED
    BY <1>2, <1>3, <1>4, <1>5, <2>1 DEF MirrorInv, SnapInv
<1>6. CASE v # card[f]
  <2>1. snap' = [snap EXCEPT ![f] = 0]
    BY <1>1, <1>6
  <2>2. snap'[f] = 0 /\ \A g \in Mirror!Files : g # f => snap'[g] = snap[g]
    BY <1>2, <2>1
  <2>3. snap' \in [Mirror!Files -> 0..version']
    BY <1>2, <1>3, <2>1
  <2> QED
    BY <1>4, <2>2, <2>3 DEF MirrorInv, SnapInv
<1> QED
  BY <1>5, <1>6

\* A backup is not disturbed when the snapshot gets smaller.
LEMMA BackupKeeps ==
    ASSUME MirrorInv, job'["backup"] = job["backup"], UNCHANGED <<cloud, undone>>,
           claimed' => claimed,
           \A g \in Mirror!Files : snap'[g] = 0 \/ snap'[g] = snap[g]
    PROVE  BackupInv'
<1>1. job["backup"].extra \subseteq Mirror!Files
  BY MirrorNumbers DEF MirrorInv, JobsInv, Phase
<1> QED
  BY <1>1 DEF MirrorInv, BackupInv

\* One job goes on, the other stays.
LEMMA JobMoves ==
    ASSUME MirrorInv, NEW k \in Mirror!Jobs, NEW p \in Phase,
           p.todo \union p.extra \subseteq FolderOf(p.index),
           job' = [job EXCEPT ![k] = p]
    PROVE  JobsInv' /\ job'[k] = p /\ \A l \in Mirror!Jobs : l # k => job'[l] = job[l]
BY DEF MirrorInv, JobsInv

\* A step that leaves the orphans alone
LEMMA OrphansStay ==
    ASSUME MirrorInv, orphans' = orphans, undone' \in {undone, {}},
           there => there', fresh' => fresh
    PROVE  OrphanInv'
BY DEF MirrorInv, OrphanInv

LEMMA CardChange ==
    ASSUME MirrorInv,
           (\E f \in Mirror!Files : Mirror!Write(f) \/ Mirror!Delete(f)) \/ Mirror!NewCard \/ Mirror!Setup
    PROVE  MirrorInv'
<1> USE MirrorNumbers
<1>1. version \in Nat /\ version <= MaxVersion /\ faults \in Nat
  BY DEF MirrorInv, MirrorTypes
<1>2. ASSUME NEW f \in Mirror!Files, Mirror!Write(f) PROVE MirrorInv'
  <2>1. /\ version < MaxVersion /\ version' = version + 1
        /\ Mirror!Put(f, version + 1)
        /\ there' = (there \/ f \in Savestates) /\ fresh' = (fresh /\ f \notin Savestates)
        /\ UNCHANGED <<cloud, paired, job, jobs, claimed, faults, orphans, undone>>
    BY <1>2 DEF Mirror!Write, Mirror!orphanVars
  <2>2. version' \in Nat /\ version <= version' /\ version + 1 \in 0..version'
    BY <1>1, <2>1
  <2>3. /\ card' \in [Mirror!Files -> 0..version'] /\ snap' \in [Mirror!Files -> 0..version']
        /\ \A g \in Mirror!Files : g # f => card'[g] = card[g]
        /\ \A g \in Mirror!Files : snap'[g] = 0 \/ snap'[g] = snap[g]
        /\ SnapInv'
    BY <2>1, <2>2, PutIs
  <2>4. cloud' \in [Mirror!Files -> 0..version']
    <3>1. 0..version \subseteq 0..version'
      BY <1>1, <2>2
    <3> QED
      BY <2>1, <3>1 DEF MirrorInv, MirrorTypes
  <2>5. MirrorTypes'
    BY <1>1, <2>1, <2>3, <2>4 DEF MirrorInv, MirrorTypes
  <2>6. MirrorFlags'
    BY <2>1 DEF MirrorInv, MirrorFlags
  <2>7. CardInv'
    BY <2>1, <2>3 DEF MirrorInv, CardInv
  <2>8. BackupInv'
    BY <2>1, <2>3, BackupKeeps
  <2>9. OrphanInv'
    BY <2>1, OrphansStay
  <2> QED
    BY <2>1, <2>3, <2>5, <2>6, <2>7, <2>8, <2>9 DEF MirrorInv, JobsInv
<1>3. ASSUME NEW f \in Mirror!Files, Mirror!Delete(f) PROVE MirrorInv'
  <2>1. /\ Mirror!Put(f, 0)
        /\ UNCHANGED <<cloud, there, paired, version, job, jobs, claimed, faults, fresh,
                       orphans, undone>>
    BY <1>3 DEF Mirror!Delete, Mirror!Absent, Mirror!orphanVars
  <2>2. version' \in Nat /\ version <= version' /\ 0 \in 0..version'
    BY <1>1, <2>1
  <2>3. /\ card' \in [Mirror!Files -> 0..version'] /\ snap' \in [Mirror!Files -> 0..version']
        /\ card'[f] = 0 /\ \A g \in Mirror!Files : g # f => card'[g] = card[g]
        /\ \A g \in Mirror!Files : snap'[g] = 0 \/ snap'[g] = snap[g]
        /\ SnapInv'
    BY <2>1, <2>2, PutIs
  <2>4. MirrorTypes' /\ MirrorFlags' /\ JobsInv'
    BY <2>1, <2>3 DEF MirrorInv, MirrorTypes, MirrorFlags, JobsInv
  <2>5. CardInv'
    BY <2>1, <2>3 DEF MirrorInv, CardInv
  <2>6. BackupInv'
    BY <2>1, <2>3, BackupKeeps
  <2>7. OrphanInv'
    BY <2>1, OrphansStay
  <2> QED
    BY <2>3, <2>4, <2>5, <2>6, <2>7 DEF MirrorInv
<1>4. CASE Mirror!NewCard
  <2>1. /\ faults < MaxFaults /\ faults' = faults + 1
        /\ card' = [f \in Mirror!Files |-> 0] /\ snap' = [f \in Mirror!Files |-> 0]
        /\ there' = FALSE /\ paired' = FALSE /\ fresh' = TRUE /\ claimed' = FALSE
        /\ job' = [k \in Mirror!Jobs |-> IdlePhase]
        /\ orphans' = {} /\ undone' = {}
        /\ UNCHANGED <<cloud, version, jobs>>
    BY <1>4, PhasesAre DEF Mirror!NewCard, Mirror!Nothing, Mirror!Absent
  <2>2. MirrorTypes'
    BY <1>1, <2>1 DEF MirrorInv, MirrorTypes
  <2>3. MirrorFlags'
    BY <2>1 DEF MirrorFlags
  <2>4. /\ job'["backup"] = IdlePhase /\ job'["restore"] = IdlePhase
        /\ job' \in [Mirror!Jobs -> Phase]
    BY <2>1, PhasesAre
  <2>5. JobsInv'
    BY <2>1, <2>4 DEF JobsInv, IdlePhase
  <2>6. SnapInv' /\ CardInv'
    BY <2>1, <2>4 DEF SnapInv, CardInv, IdlePhase
  <2>7. BackupInv'
    BY <2>1, <2>4 DEF BackupInv, IdlePhase
  <2>8. OrphanInv'
    BY <2>1 DEF OrphanInv
  <2> QED
    BY <2>2, <2>3, <2>5, <2>6, <2>7, <2>8 DEF MirrorInv
<1>5. CASE Mirror!Setup
  <2>1. /\ paired' = TRUE
        /\ UNCHANGED <<card, cloud, there, version, job, jobs, claimed, faults, snap, fresh,
                       orphans, undone>>
    BY <1>5 DEF Mirror!Setup, Mirror!orphanVars
  <2>2. MirrorFlags'
    BY <2>1 DEF MirrorInv, MirrorFlags
  <2> QED
    BY <2>1, <2>2 DEF MirrorInv, MirrorTypes, JobsInv, SnapInv, CardInv, BackupInv, OrphanInv
<1> QED
  BY <1>2, <1>3, <1>4, <1>5

LEMMA BeginStep ==
    ASSUME MirrorInv, NEW k \in Mirror!Jobs, Mirror!Begin(k)
    PROVE  MirrorInv'
<1> USE MirrorNumbers
<1> DEFINE p == [at |-> "next", index |-> 1, todo |-> {}, extra |-> {}]
<1>1. /\ job[k].at = "idle" /\ jobs < MaxJobs /\ jobs' = jobs + 1
      /\ job' = [job EXCEPT ![k] = p]
      /\ claimed' = (claimed /\ k # "backup")
      /\ snap' = IF k = "backup" THEN [f \in Mirror!Files |-> 0] ELSE snap
      /\ undone' = IF k = "backup" THEN {} ELSE undone
      /\ UNCHANGED <<card, cloud, there, paired, version, faults, fresh, orphans>>
  BY PhasesAre DEF Mirror!Begin, Mirror!Nothing, Mirror!Absent
<1>2. p \in Phase /\ p.todo \union p.extra \subseteq FolderOf(p.index)
  BY DEF Phase
<1> HIDE DEF p
<1>3. JobsInv' /\ job'[k] = p /\ \A l \in Mirror!Jobs : l # k => job'[l] = job[l]
  BY <1>1, <1>2, JobMoves
<1>4. p.at = "next"
  BY DEF p
<1>5. snap' \in [Mirror!Files -> 0..version]
  <2>1. 0 \in 0..version /\ snap \in [Mirror!Files -> 0..version]
    BY DEF MirrorInv, MirrorTypes
  <2>2. CASE k = "backup"
    BY <1>1, <2>1, <2>2
  <2>3. CASE k # "backup"
    BY <1>1, <2>1, <2>3
  <2> QED
    BY <2>2, <2>3
<1>6. MirrorTypes'
  BY <1>1, <1>5 DEF MirrorInv, MirrorTypes
<1>7. MirrorFlags'
  BY <1>1 DEF MirrorInv, MirrorFlags
<1>8. CardInv'
  BY <1>1, <1>3, <1>4 DEF MirrorInv, CardInv
<1>8a. OrphanInv'
  BY <1>1, OrphansStay
<1>9. CASE k = "backup"
  <2>1. \A f \in Mirror!Files : snap'[f] = 0
    BY <1>1, <1>9
  <2>2. SnapInv' /\ BackupInv'
    BY <1>1, <1>3, <1>4, <1>9, <2>1 DEF SnapInv, BackupInv
  <2> QED
    BY <1>3, <1>6, <1>7, <1>8, <1>8a, <2>2 DEF MirrorInv
<1>10. CASE k = "restore"
  <2>1. snap' = snap /\ undone' = undone /\ job'["backup"] = job["backup"]
    BY <1>1, <1>3, <1>10
  <2>2. SnapInv'
    BY <1>1, <2>1 DEF MirrorInv, SnapInv
  <2>3. BackupInv'
    BY <1>1, <2>1, BackupKeeps
  <2> QED
    BY <1>3, <1>6, <1>7, <1>8, <1>8a, <2>2, <2>3 DEF MirrorInv
<1> QED
  BY <1>9, <1>10

LEMMA RestoreStarts ==
    ASSUME MirrorInv, Mirror!Start("restore")
    PROVE  MirrorInv'
<1> USE MirrorNumbers
<1> DEFINE i == job["restore"].index
           from == Mirror!Present(cloud, FolderOf(i))
           p == [job["restore"] EXCEPT !.at = "copying", !.todo = from,
                                       !.extra = Mirror!Present(cloud, FolderOf(i)) \ from]
<1>1. i \in {1, 2} /\ job["restore"] \in Phase
  BY DEF MirrorInv, JobsInv, Phase
<1>2. Mirror!Folder("restore") = FolderOf(i) /\ FolderOf(i) \subseteq Mirror!Files
  BY <1>1, FolderIs DEF Mirror!Folder
<1>3. /\ job' = [job EXCEPT !["restore"] = p]
      /\ there' = (there \/ FolderOf(i) = Savestates)
      /\ fresh' = FALSE
      /\ UNCHANGED <<card, cloud, paired, version, jobs, claimed, faults, snap, orphans, undone>>
  BY <1>2 DEF Mirror!Start, Mirror!orphanVars
<1>4. /\ p \in Phase /\ p.at = "copying" /\ p.index = i
      /\ p.todo \union p.extra \subseteq FolderOf(i)
  BY <1>1, <1>2 DEF Phase, Mirror!Present
<1> HIDE DEF p
<1>5. JobsInv' /\ job'["restore"] = p /\ job'["backup"] = job["backup"]
  BY <1>3, <1>4, JobMoves
<1>6. MirrorTypes' /\ SnapInv'
  BY <1>3 DEF MirrorInv, MirrorTypes, SnapInv
<1>7. MirrorFlags'
  BY <1>3 DEF MirrorInv, MirrorFlags
<1>8. CardInv'
  <2>1. i = 1 => FolderOf(i) = Savestates
    BY DEF FolderOf
  <2> HIDE DEF i
  <2> QED
    BY <1>3, <1>4, <1>5, <2>1 DEF MirrorInv, CardInv
<1>9. BackupInv'
  BY <1>3, <1>5, BackupKeeps
<1>10. OrphanInv'
  BY <1>3, OrphansStay
<1> QED
  BY <1>5, <1>6, <1>7, <1>8, <1>9, <1>10 DEF MirrorInv

LEMMA BackupStarts ==
    ASSUME MirrorInv, Mirror!Start("backup")
    PROVE  MirrorInv'
<1> USE MirrorNumbers
<1>1. job["backup"] \in Phase /\ job["backup"].at = "next"
  BY DEF MirrorInv, JobsInv, Mirror!Start
<1>2. PICK i \in {1, 2} : i = job["backup"].index
  BY <1>1 DEF Phase
<1> DEFINE files == FolderOf(i)
           from == Mirror!Present(card, files)
           p == IF ~Mirror!SourceThere(files) THEN Mirror!Further("backup")
                ELSE [job["backup"] EXCEPT !.at = "copying", !.todo = from,
                                           !.extra = Mirror!Present(cloud, files) \ from]
<1>3. Mirror!Folder("backup") = files /\ files \subseteq Mirror!Files
  BY <1>2, FolderIs DEF Mirror!Folder
<1>4. /\ job' = [job EXCEPT !["backup"] = p]
      /\ snap' = [f \in Mirror!Files |-> IF f \in files THEN card[f] ELSE snap[f]]
      /\ there' = there /\ fresh' = fresh
      /\ UNCHANGED <<card, cloud, paired, version, jobs, claimed, faults, orphans, undone>>
  <2>1. there' = (there \/ FALSE) /\ fresh' = (fresh /\ TRUE)
    BY DEF Mirror!Start
  <2>2. there' = there /\ fresh' = fresh
    BY <2>1 DEF MirrorInv, MirrorFlags
  <2>3. /\ job' = [job EXCEPT !["backup"] = p]
        /\ snap' = [f \in Mirror!Files |-> IF f \in files THEN card[f] ELSE snap[f]]
        /\ UNCHANGED <<card, cloud, paired, version, jobs, claimed, faults, orphans, undone>>
    BY <1>3 DEF Mirror!Start, Mirror!orphanVars
  <2> QED
    BY <2>2, <2>3
<1>5. \A f \in Mirror!Files : snap'[f] = IF f \in files THEN card[f] ELSE snap[f]
  BY <1>4
<1>6. MirrorTypes' /\ SnapInv'
  <2>1. snap' \in [Mirror!Files -> 0..version]
    BY <1>4 DEF MirrorInv, MirrorTypes
  <2> QED
    BY <1>4, <1>5, <2>1 DEF MirrorInv, MirrorTypes, SnapInv
<1>7. MirrorFlags'
  BY <1>4 DEF MirrorInv, MirrorFlags
<1>8. ~claimed
  BY <1>1 DEF MirrorInv, BackupInv
<1>8a. OrphanInv'
  BY <1>4, OrphansStay
<1>9. \A f \in Mirror!Files \ (files \union undone) : snap[f] # 0 => i = 2 /\ f \in Savestates /\ cloud[f] = snap[f]
  BY <1>1, <1>2 DEF MirrorInv, BackupInv
<1> HIDE DEF files
<1>10. CASE Mirror!SourceThere(files)
  <2>1. /\ p \in Phase /\ p.at = "copying" /\ p.index = i /\ p.todo = from
        /\ p.extra = Mirror!Present(cloud, files) \ from
    BY <1>1, <1>2, <1>3, <1>10 DEF Phase, Mirror!Present
  <2>2. p.todo \union p.extra \subseteq files
    BY <2>1 DEF Mirror!Present
  <2> HIDE DEF p
  <2>3. JobsInv' /\ job'["backup"] = p /\ job'["restore"] = job["restore"]
    BY <1>4, <2>1, <2>2, JobMoves DEF files
  <2>4. CardInv'
    <3>1. fresh => i = 2
      <4>1. i = 1 => there
        BY <1>10 DEF Mirror!SourceThere, files, FolderOf
      <4> QED
        BY <4>1 DEF MirrorInv, CardInv
    <3> QED
      BY <1>4, <2>1, <2>3, <3>1 DEF MirrorInv, CardInv
  <2>5. BackupInv'
    <3>1. ASSUME NEW f \in Mirror!Files \ undone, snap'[f] # 0
          PROVE  \/ i = 2 /\ f \in Savestates /\ cloud[f] = snap'[f]
                 \/ f \in files /\ f \in from
      <4>1. CASE f \in files
        BY <1>5, <3>1, <4>1 DEF Mirror!Present, Mirror!Absent
      <4>2. CASE f \notin files
        BY <1>5, <1>9, <3>1, <4>2
      <4> QED
        BY <4>1, <4>2
    <3>2. ASSUME NEW f \in p.extra PROVE snap'[f] = 0
      BY <1>3, <1>5, <2>1 DEF Mirror!Present, Mirror!Absent
    <3>3. ~claimed' /\ cloud' = cloud /\ undone' = undone
      BY <1>4, <1>8
    <3>4. /\ job'["backup"].at = "copying" /\ job'["backup"].index = i
          /\ job'["backup"].todo = from /\ job'["backup"].extra = p.extra
      BY <2>1, <2>3
    <3>5. ASSUME NEW f \in Mirror!Files \ undone', snap'[f] # 0
          PROVE  \/ job'["backup"].index = 2 /\ f \in Savestates /\ cloud'[f] = snap'[f]
                 \/ /\ job'["backup"].at = "copying" /\ f \in FolderOf(job'["backup"].index)
                    /\ f \in job'["backup"].todo \/ cloud'[f] = snap'[f]
      <4>1. f \in Mirror!Files \ undone
        BY <3>3, <3>5
      <4>2. \/ i = 2 /\ f \in Savestates /\ cloud[f] = snap'[f]
            \/ f \in FolderOf(i) /\ f \in from
        BY <3>1, <3>5, <4>1 DEF files
      <4> QED
        BY <3>3, <3>4, <4>2
    <3> HIDE DEF files, from
    <3> QED
      BY <3>2, <3>3, <3>4, <3>5, Zenon DEF BackupInv
  <2> QED
    BY <1>6, <1>7, <1>8a, <2>3, <2>4, <2>5 DEF MirrorInv
<1>11. CASE ~Mirror!SourceThere(files)
  <2>1. ~there /\ files = Savestates
    BY <1>11 DEF Mirror!SourceThere
  <2>2. p = Mirror!Further("backup")
    BY <1>11
  <2>3. /\ p \in Phase /\ p.todo = {} /\ p.extra = {}
        /\ i = 1 => p.at = "next" /\ p.index = 2
        /\ i = 2 => p.at = "idle"
    BY <1>2, <2>2, FurtherIs
  <2> HIDE DEF p
  <2>4. JobsInv' /\ job'["backup"] = p /\ job'["restore"] = job["restore"]
    BY <1>4, <2>3, JobMoves
  <2>5. CardInv'
    BY <1>4, <2>3, <2>4 DEF MirrorInv, CardInv
  <2>6. BackupInv'
    <3>1. ASSUME NEW f \in Mirror!Files \ undone, snap'[f] # 0
          PROVE  i = 2 /\ f \in Savestates /\ cloud[f] = snap'[f]
      <4>1. f \notin files
        BY <1>5, <2>1, <3>1 DEF MirrorInv, CardInv
      <4> QED
        BY <1>5, <1>9, <3>1, <4>1
    <3> QED
      BY <1>4, <1>8, <2>3, <2>4, <3>1 DEF BackupInv
  <2> QED
    BY <1>6, <1>7, <1>8a, <2>4, <2>5, <2>6 DEF MirrorInv
<1> QED
  BY <1>10, <1>11

LEMMA CopyStep ==
    ASSUME MirrorInv, NEW k \in Mirror!Jobs, NEW f \in Mirror!Files, Mirror!Copy(k, f)
    PROVE  /\ MirrorInv'
           /\ fresh => \A g \in Savestates : cloud'[g] = cloud[g]
<1> USE MirrorNumbers
<1>1. /\ job[k] \in Phase /\ job[k].todo \union job[k].extra \subseteq FolderOf(job[k].index)
      /\ job[k].index \in {1, 2}
  BY DEF MirrorInv, JobsInv, Phase
<1> DEFINE p == [job[k] EXCEPT !.todo = @ \ {f}]
<1>2. /\ job[k].at = "copying" /\ f \in job[k].todo
      /\ job' = [job EXCEPT ![k] = p]
      /\ UNCHANGED <<there, paired, version, jobs, claimed, faults, fresh, orphans, undone>>
  BY DEF Mirror!Copy, Mirror!orphanVars
<1>3. /\ p \in Phase /\ p.at = "copying" /\ p.index = job[k].index
      /\ p.todo = job[k].todo \ {f} /\ p.extra = job[k].extra
  BY <1>1, <1>2 DEF Phase
<1> HIDE DEF p
<1>4. JobsInv' /\ job'[k] = p /\ \A l \in Mirror!Jobs : l # k => job'[l] = job[l]
  BY <1>1, <1>2, <1>3, JobMoves
<1>5. MirrorFlags'
  BY <1>2 DEF MirrorInv, MirrorFlags
<1>5a. OrphanInv'
  BY <1>2, OrphansStay
<1>6. CASE k = "backup"
  <2>1. card[f] # 0 /\ cloud' = [cloud EXCEPT ![f] = card[f]] /\ UNCHANGED <<card, snap>>
    BY <1>6 DEF Mirror!Copy, Mirror!Transfer, Mirror!Absent
  <2>2. /\ cloud' \in [Mirror!Files -> 0..version]
        /\ cloud'[f] = card[f] /\ \A g \in Mirror!Files : g # f => cloud'[g] = cloud[g]
    BY <2>1 DEF MirrorInv, MirrorTypes
  <2>3. MirrorTypes' /\ SnapInv'
    BY <1>2, <2>1, <2>2 DEF MirrorInv, MirrorTypes, SnapInv
  <2>4. CardInv'
    BY <1>2, <1>3, <1>4, <1>6, <2>1 DEF MirrorInv, CardInv
  <2>5. BackupInv'
    <3>1. ~claimed
      BY <1>2, <1>6 DEF MirrorInv, BackupInv
    <3>2. ASSUME NEW g \in Mirror!Files \ undone, snap[g] # 0
          PROVE  \/ p.index = 2 /\ g \in Savestates /\ cloud'[g] = snap[g]
                 \/ g \in FolderOf(p.index) /\ (g \in p.todo \/ cloud'[g] = snap[g])
      <4>1. CASE g = f
        <5>1. cloud'[g] = snap[g]
          BY <2>2, <3>2, <4>1 DEF MirrorInv, SnapInv
        <5>2. g \in FolderOf(p.index)
          BY <1>1, <1>2, <1>3, <4>1
        <5> QED
          BY <5>1, <5>2
      <4>2. CASE g # f
        <5>1. \/ job[k].index = 2 /\ g \in Savestates /\ cloud[g] = snap[g]
              \/ g \in FolderOf(job[k].index) /\ (g \in job[k].todo \/ cloud[g] = snap[g])
          BY <1>2, <1>6, <3>2 DEF MirrorInv, BackupInv
        <5> QED
          BY <1>3, <2>2, <4>2, <5>1
      <4> QED
        BY <4>1, <4>2
    <3>3. \A g \in p.extra : snap[g] = 0
      BY <1>2, <1>3, <1>6 DEF MirrorInv, BackupInv
    <3> QED
      BY <1>2, <1>3, <1>4, <1>6, <2>1, <3>1, <3>2, <3>3 DEF BackupInv
  <2>6. fresh => \A g \in Savestates : cloud'[g] = cloud[g]
    <3>1. fresh => job[k].index = 2
      BY <1>2, <1>6 DEF MirrorInv, CardInv
    <3>2. job[k].index = 2 => f \notin Savestates
      BY <1>1, <1>2 DEF FolderOf
    <3> QED
      BY <2>2, <3>1, <3>2
  <2> QED
    BY <1>4, <1>5, <1>5a, <2>3, <2>4, <2>5, <2>6 DEF MirrorInv
<1>7. CASE k = "restore"
  <2>1. Mirror!Put(f, cloud[f]) /\ UNCHANGED cloud
    BY <1>7 DEF Mirror!Copy, Mirror!Transfer
  <2>2. version' \in Nat /\ version <= version' /\ cloud[f] \in 0..version'
    BY <1>2 DEF MirrorInv, MirrorTypes
  <2>3. /\ card' \in [Mirror!Files -> 0..version'] /\ snap' \in [Mirror!Files -> 0..version']
        /\ \A g \in Mirror!Files : g # f => card'[g] = card[g]
        /\ \A g \in Mirror!Files : snap'[g] = 0 \/ snap'[g] = snap[g]
        /\ SnapInv'
    BY <2>1, <2>2, PutIs
  <2>4. MirrorTypes'
    BY <1>2, <2>1, <2>3 DEF MirrorInv, MirrorTypes
  <2>5. CardInv'
    <3>1. f \in Savestates => there
      BY <1>1, <1>2, <1>7 DEF MirrorInv, CardInv, FolderOf
    <3> QED
      BY <1>2, <1>3, <1>4, <1>7, <2>3, <3>1 DEF MirrorInv, CardInv
  <2>6. BackupInv'
    BY <1>2, <1>4, <1>7, <2>1, <2>3, BackupKeeps
  <2> QED
    BY <1>4, <1>5, <1>5a, <2>1, <2>3, <2>4, <2>5, <2>6 DEF MirrorInv
<1> QED
  BY <1>6, <1>7

\* A job that ends without a word, for whatever reason
LEMMA EndStep ==
    ASSUME MirrorInv, NEW k \in Mirror!Jobs, Mirror!CopyFails(k) \/ Mirror!Kill(k)
    PROVE  MirrorInv' /\ UNCHANGED cloud
<1> USE MirrorNumbers
<1>1. /\ job[k].at # "idle"
      /\ job' = [job EXCEPT ![k] = IdlePhase]
      /\ UNCHANGED <<card, cloud, there, paired, version, jobs, claimed, snap, fresh, undone>>
  BY PhasesAre DEF Mirror!CopyFails, Mirror!Kill, Mirror!Aborts, Mirror!orphanVars
<1>2. faults' \in 0..MaxFaults
  <2>1. faults \in 0..MaxFaults
    BY DEF MirrorInv, MirrorTypes
  <2>2. faults' = faults \/ (faults < MaxFaults /\ faults' = faults + 1)
    BY DEF Mirror!CopyFails, Mirror!Kill
  <2> QED
    BY <2>1, <2>2
<1>3. IdlePhase.todo \union IdlePhase.extra = {} /\ IdlePhase.at = "idle"
  BY DEF IdlePhase
<1>4. JobsInv' /\ job'[k] = IdlePhase /\ \A l \in Mirror!Jobs : l # k => job'[l] = job[l]
  BY <1>1, <1>3, JobMoves, PhasesAre
<1>5. MirrorTypes' /\ MirrorFlags' /\ SnapInv'
  BY <1>1, <1>2 DEF MirrorInv, MirrorTypes, MirrorFlags, SnapInv
<1>6. CardInv'
  BY <1>1, <1>3, <1>4 DEF MirrorInv, CardInv
<1>7. BackupInv'
  <2>1. CASE k = "backup"
    BY <1>1, <1>3, <1>4, <2>1 DEF MirrorInv, BackupInv
  <2>2. CASE k # "backup"
    BY <1>1, <1>4, <2>2, BackupKeeps
  <2> QED
    BY <2>1, <2>2
<1>8. OrphanInv'
  <2> DEFINE o == [of |-> k, index |-> job[k].index, todo |-> job[k].todo,
                   extra |-> job[k].extra]
  <2>1. \/ orphans' = orphans
        \/ job[k].at = "copying" /\ orphans' = orphans \union {o}
    BY DEF Mirror!CopyFails, Mirror!Kill, Mirror!orphanVars
  <2>2. o \in Orphan /\ o.todo \union o.extra \subseteq FolderOf(o.index)
    BY DEF Orphan, MirrorInv, JobsInv, Phase
  <2>3. job[k].at = "copying" =>
           /\ o.of = "restore" /\ o.index = 1 => there
           /\ o.of = "backup" /\ fresh => o.index = 2
    BY DEF MirrorInv, CardInv
  <2> HIDE DEF o
  <2> QED
    BY <1>1, <2>1, <2>2, <2>3 DEF MirrorInv, OrphanInv
<1> QED
  BY <1>1, <1>4, <1>5, <1>6, <1>7, <1>8 DEF MirrorInv

LEMMA CompleteStep ==
    ASSUME MirrorInv, NEW k \in Mirror!Jobs, Mirror!Complete(k)
    PROVE  /\ MirrorInv'
           /\ fresh => \A g \in Savestates : cloud'[g] = cloud[g]
<1> USE MirrorNumbers
<1>1. /\ job[k].todo \union job[k].extra \subseteq FolderOf(job[k].index)
      /\ job[k].index \in {1, 2} /\ job[k] \in Phase
  BY DEF MirrorInv, JobsInv, Phase
<1> DEFINE p == Mirror!Further(k)
<1>2. /\ p \in Phase /\ p.todo = {} /\ p.extra = {}
      /\ job[k].index = 1 => p.at = "next" /\ p.index = 2
      /\ job[k].index = 2 => p.at = "idle"
  BY FurtherIs
<1>3. /\ job[k].at = "copying" /\ job[k].todo = {}
      /\ job' = [job EXCEPT ![k] = p]
      /\ UNCHANGED <<card, there, paired, version, jobs, faults, snap, fresh, orphans, undone>>
  BY DEF Mirror!Complete, Mirror!orphanVars
<1> HIDE DEF p
<1>4. JobsInv' /\ job'[k] = p /\ \A l \in Mirror!Jobs : l # k => job'[l] = job[l]
  BY <1>2, <1>3, JobMoves
<1>5. p.at # "copying"
  BY <1>1, <1>2
<1>6. CardInv'
  BY <1>3, <1>4, <1>5 DEF MirrorInv, CardInv
<1>7. SnapInv'
  BY <1>3 DEF MirrorInv, SnapInv
<1>8. claimed' = (claimed \/ (k = "backup" /\ job[k].index = 2))
  <2>1. Len(Mirror!Folders) = 2
    BY DEF Mirror!Folders
  <2> QED
    BY <2>1 DEF Mirror!Complete
<1>9. MirrorFlags'
  BY <1>3, <1>8 DEF MirrorInv, MirrorFlags
<1>9a. OrphanInv'
  BY <1>3, OrphansStay
<1>10. CASE k = "backup"
  <2>1. cloud' = [f \in Mirror!Files |-> IF f \in job[k].extra THEN 0 ELSE cloud[f]]
    BY <1>10 DEF Mirror!Complete, Mirror!Without, Mirror!Absent
  <2>2. \A f \in Mirror!Files : cloud'[f] = IF f \in job[k].extra THEN 0 ELSE cloud[f]
    BY <2>1
  <2>3. MirrorTypes'
    <3>1. 0 \in 0..version
      BY DEF MirrorInv, MirrorTypes
    <3>2. cloud' \in [Mirror!Files -> 0..version]
      BY <2>1, <3>1 DEF MirrorInv, MirrorTypes
    <3> QED
      BY <1>3, <3>2 DEF MirrorInv, MirrorTypes
  <2>4. ASSUME NEW f \in Mirror!Files \ undone, snap[f] # 0
        PROVE  /\ (job[k].index = 2 /\ f \in Savestates) \/ f \in FolderOf(job[k].index)
               /\ cloud'[f] = snap[f]
    <3>1. /\ (job[k].index = 2 /\ f \in Savestates) \/ f \in FolderOf(job[k].index)
          /\ cloud[f] = snap[f]
      BY <1>3, <1>10, <2>4 DEF MirrorInv, BackupInv
    <3>2. f \notin job[k].extra
      BY <1>3, <1>10, <2>4 DEF MirrorInv, BackupInv
    <3> QED
      BY <2>2, <3>1, <3>2
  <2>5. BackupInv'
    <3>1. ~claimed
      BY <1>3, <1>10 DEF MirrorInv, BackupInv
    <3>2. CASE job[k].index = 1
      BY <1>2, <1>3, <1>4, <1>8, <1>10, <2>4, <3>1, <3>2 DEF BackupInv, FolderOf
    <3>3. CASE job[k].index = 2
      BY <1>2, <1>3, <1>4, <1>8, <1>10, <2>4, <3>3 DEF BackupInv
    <3> QED
      BY <1>1, <3>2, <3>3
  <2>6. fresh => \A g \in Savestates : cloud'[g] = cloud[g]
    <3>1. fresh => job[k].index = 2
      BY <1>3, <1>10 DEF MirrorInv, CardInv
    <3>2. job[k].index = 2 => \A g \in Savestates : g \notin job[k].extra
      BY <1>1 DEF FolderOf
    <3> QED
      BY <2>2, <3>1, <3>2
  <2> QED
    BY <1>4, <1>6, <1>7, <1>9, <1>9a, <2>3, <2>5, <2>6 DEF MirrorInv
<1>11. CASE k = "restore"
  <2>1. cloud' = cloud
    BY <1>11 DEF Mirror!Complete, Mirror!Without
  <2>2. MirrorTypes'
    BY <1>3, <2>1 DEF MirrorInv, MirrorTypes
  <2>3. BackupInv'
    BY <1>3, <1>4, <1>8, <1>11, <2>1, BackupKeeps
  <2> QED
    BY <1>4, <1>6, <1>7, <1>9, <1>9a, <2>1, <2>2, <2>3 DEF MirrorInv
<1> QED
  BY <1>10, <1>11

\* What an orphan does: it leaves the jobs alone, copies what is there, and removes at its
\* end what the next backup may have copied.
LEMMA OrphanStep ==
    ASSUME MirrorInv, NEW o \in orphans,
           \/ Mirror!OrphanCompletes(o) \/ Mirror!OrphanFails(o)
           \/ \E f \in Mirror!Files : Mirror!OrphanCopies(o, f)
    PROVE  /\ MirrorInv'
           /\ fresh => \A g \in Savestates : cloud'[g] = cloud[g]
<1> USE MirrorNumbers
<1>1. /\ o \in Orphan /\ o.todo \union o.extra \subseteq FolderOf(o.index)
      /\ o.of = "restore" /\ o.index = 1 => there
      /\ o.of = "backup" /\ fresh => o.index = 2
  BY DEF MirrorInv, OrphanInv
<1>2. o.of \in {"backup", "restore"} /\ o.index \in {1, 2}
  BY <1>1 DEF Orphan
<1>3. /\ UNCHANGED <<there, paired, version, job, jobs, claimed, faults, fresh>>
      /\ MirrorFlags' /\ JobsInv'
  <2>1. UNCHANGED <<there, paired, version, job, jobs, claimed, faults, fresh>>
    BY DEF Mirror!OrphanCompletes, Mirror!OrphanFails, Mirror!OrphanCopies
  <2> QED
    BY <2>1 DEF MirrorInv, MirrorFlags, JobsInv
<1>4. ASSUME undone' \in SUBSET Mirror!Files,
             \A q \in orphans' : q \in orphans \/ (q \in Orphan /\ q.of = o.of /\ q.index = o.index
                                    /\ q.todo \union q.extra \subseteq o.todo \union o.extra)
      PROVE  OrphanInv'
  BY <1>1, <1>3, <1>4 DEF MirrorInv, OrphanInv
<1>5. CASE Mirror!OrphanFails(o)
  <2>1. orphans' \subseteq orphans /\ UNCHANGED <<card, cloud, snap, undone>>
    BY <1>5 DEF Mirror!OrphanFails
  <2>2. OrphanInv'
    BY <1>4, <2>1 DEF MirrorInv, OrphanInv
  <2>3. MirrorTypes' /\ SnapInv' /\ CardInv' /\ BackupInv'
    BY <1>3, <2>1 DEF MirrorInv, MirrorTypes, SnapInv, CardInv, BackupInv
  <2> QED
    BY <1>3, <2>1, <2>2, <2>3 DEF MirrorInv
<1>6. CASE Mirror!OrphanCompletes(o)
  <2>1. /\ cloud' = Mirror!Without(o.of, o.extra) /\ orphans' \subseteq orphans
        /\ undone' = IF o.of = "backup" THEN undone \union o.extra ELSE undone
        /\ UNCHANGED <<card, snap>>
    BY <1>6 DEF Mirror!OrphanCompletes
  <2>2. o.extra \subseteq Mirror!Files
    BY <1>1 DEF Orphan
  <2>3. undone' \in SUBSET Mirror!Files /\ undone \subseteq undone'
    BY <2>1, <2>2 DEF MirrorInv, OrphanInv
  <2>4. OrphanInv'
    BY <1>4, <2>1, <2>3
  <2>5. cloud' \in [Mirror!Files -> 0..version]
    <3>1. 0 \in 0..version /\ cloud \in [Mirror!Files -> 0..version]
      BY DEF MirrorInv, MirrorTypes
    <3> QED
      BY <2>1, <3>1 DEF Mirror!Without, Mirror!Absent
  <2>6. \A g \in Mirror!Files \ undone' : cloud'[g] = cloud[g]
    BY <2>1 DEF Mirror!Without
  <2>7. MirrorTypes' /\ SnapInv' /\ CardInv'
    BY <1>3, <2>1, <2>5 DEF MirrorInv, MirrorTypes, SnapInv, CardInv
  <2>8. BackupInv'
    BY <1>3, <2>1, <2>3, <2>6 DEF MirrorInv, BackupInv
  <2>9. fresh => \A g \in Savestates : cloud'[g] = cloud[g]
    <3>1. o.index = 2 => \A g \in Savestates : g \notin o.extra
      BY <1>1 DEF FolderOf
    <3> QED
      BY <1>1, <1>2, <2>1, <3>1 DEF Mirror!Without
  <2> QED
    BY <1>3, <2>4, <2>7, <2>8, <2>9 DEF MirrorInv
<1>7. ASSUME NEW f \in Mirror!Files, Mirror!OrphanCopies(o, f)
      PROVE  MirrorInv' /\ (fresh => \A g \in Savestates : cloud'[g] = cloud[g])
  <2> DEFINE r == [o EXCEPT !.todo = @ \ {f}]
  <2>1. /\ f \in o.todo /\ Mirror!Transfer(o.of, f)
        /\ orphans' = (orphans \ {o}) \union {r} /\ UNCHANGED undone
    BY <1>7 DEF Mirror!OrphanCopies
  <2>2. /\ r \in Orphan /\ r.of = o.of /\ r.index = o.index
        /\ r.todo \union r.extra \subseteq o.todo \union o.extra
    BY <1>1 DEF Orphan
  <2> HIDE DEF r
  <2>3. OrphanInv'
    BY <1>4, <2>1, <2>2 DEF MirrorInv, OrphanInv
  <2>4. CASE o.of = "backup"
    <3>1. cloud' = [cloud EXCEPT ![f] = card[f]] /\ UNCHANGED <<card, snap>>
      BY <2>1, <2>4 DEF Mirror!Transfer
    <3>2. /\ cloud' \in [Mirror!Files -> 0..version]
          /\ cloud'[f] = card[f] /\ \A g \in Mirror!Files : g # f => cloud'[g] = cloud[g]
      BY <3>1 DEF MirrorInv, MirrorTypes
    <3>3. MirrorTypes' /\ SnapInv' /\ CardInv'
      BY <1>3, <3>1, <3>2 DEF MirrorInv, MirrorTypes, SnapInv, CardInv
    <3>4. \A g \in Mirror!Files : snap[g] # 0 /\ cloud[g] = snap[g] => cloud'[g] = snap[g]
      BY <3>2 DEF MirrorInv, SnapInv
    <3>5. BackupInv'
      BY <1>3, <2>1, <3>1, <3>2, <3>4 DEF MirrorInv, BackupInv, SnapInv
    <3>6. fresh => f \notin Savestates
      BY <1>1, <2>1, <2>4 DEF FolderOf
    <3> QED
      BY <1>3, <2>3, <3>2, <3>3, <3>5, <3>6 DEF MirrorInv
  <2>5. CASE o.of = "restore"
    <3>1. Mirror!Put(f, cloud[f]) /\ UNCHANGED cloud
      BY <2>1, <2>5 DEF Mirror!Transfer
    <3>2. version' \in Nat /\ version <= version' /\ cloud[f] \in 0..version'
      BY <1>3 DEF MirrorInv, MirrorTypes
    <3>3. /\ card' \in [Mirror!Files -> 0..version'] /\ snap' \in [Mirror!Files -> 0..version']
          /\ \A g \in Mirror!Files : g # f => card'[g] = card[g]
          /\ \A g \in Mirror!Files : snap'[g] = 0 \/ snap'[g] = snap[g]
          /\ SnapInv'
      BY <3>1, <3>2, PutIs
    <3>4. MirrorTypes'
      BY <1>3, <3>1, <3>3 DEF MirrorInv, MirrorTypes
    <3>5. CardInv'
      <4>1. f \in Savestates => there
        BY <1>1, <1>2, <2>1, <2>5 DEF FolderOf
      <4> QED
        BY <1>3, <3>3, <4>1 DEF MirrorInv, CardInv
    <3>6. BackupInv'
      BY <1>3, <2>1, <3>1, <3>3, BackupKeeps
    <3> QED
      BY <1>3, <2>3, <3>1, <3>3, <3>4, <3>5, <3>6 DEF MirrorInv
  <2> QED
    BY <1>2, <2>4, <2>5
<1> QED
  BY <1>5, <1>6, <1>7

LEMMA MirrorStep ==
    ASSUME MirrorInv, Mirror!Next
    PROVE  MirrorInv' /\ Mirror!KeepsCloud
<1>1. CASE (\E f \in Mirror!Files : Mirror!Write(f) \/ Mirror!Delete(f)) \/ Mirror!NewCard \/ Mirror!Setup
  <2>1. UNCHANGED cloud
    BY <1>1 DEF Mirror!Write, Mirror!Delete, Mirror!NewCard, Mirror!Setup
  <2> QED
    BY <1>1, <2>1, CardChange DEF Mirror!KeepsCloud
<1>2. ASSUME NEW k \in Mirror!Jobs, Mirror!Begin(k) PROVE MirrorInv' /\ Mirror!KeepsCloud
  <2>1. UNCHANGED cloud
    BY <1>2 DEF Mirror!Begin
  <2> QED
    BY <1>2, <2>1, BeginStep DEF Mirror!KeepsCloud
<1>3. ASSUME NEW k \in Mirror!Jobs, Mirror!Start(k) PROVE MirrorInv' /\ Mirror!KeepsCloud
  <2>1. UNCHANGED cloud
    BY <1>3 DEF Mirror!Start
  <2>2. k \in {"backup", "restore"}
    BY MirrorNumbers
  <2>3. MirrorInv'
    <3>1. CASE k = "backup"
      BY <1>3, <3>1, BackupStarts
    <3>2. CASE k = "restore"
      BY <1>3, <3>2, RestoreStarts
    <3> QED
      BY <2>2, <3>1, <3>2
  <2> QED
    BY <2>1, <2>3 DEF Mirror!KeepsCloud
<1>4. ASSUME NEW k \in Mirror!Jobs, NEW f \in Mirror!Files, Mirror!Copy(k, f)
      PROVE  MirrorInv' /\ Mirror!KeepsCloud
  BY <1>4, CopyStep DEF Mirror!KeepsCloud
<1>5. ASSUME NEW k \in Mirror!Jobs, Mirror!CopyFails(k) \/ Mirror!Kill(k)
      PROVE  MirrorInv' /\ Mirror!KeepsCloud
  BY <1>5, EndStep DEF Mirror!KeepsCloud
<1>6. ASSUME NEW k \in Mirror!Jobs, Mirror!Complete(k) PROVE MirrorInv' /\ Mirror!KeepsCloud
  BY <1>6, CompleteStep DEF Mirror!KeepsCloud
<1>7. ASSUME NEW o \in orphans,
             \/ Mirror!OrphanCompletes(o) \/ Mirror!OrphanFails(o)
             \/ \E f \in Mirror!Files : Mirror!OrphanCopies(o, f)
      PROVE  MirrorInv' /\ Mirror!KeepsCloud
  BY <1>7, OrphanStep DEF Mirror!KeepsCloud
<1> QED
  BY <1>1, <1>2, <1>3, <1>4, <1>5, <1>6, <1>7 DEF Mirror!Next

LEMMA MirrorStart == Mirror!Init => MirrorInv
<1> SUFFICES ASSUME Mirror!Init PROVE MirrorInv
  OBVIOUS
<1> USE MirrorNumbers
<1>1. /\ card = [f \in Mirror!Files |-> 0] /\ cloud = [f \in Mirror!Files |-> 0]
      /\ snap = [f \in Mirror!Files |-> 0]
      /\ version = 0 /\ jobs = 0 /\ faults = 0
      /\ there = FALSE /\ paired = FALSE /\ claimed = FALSE /\ fresh = FALSE
      /\ job = [k \in Mirror!Jobs |-> IdlePhase] /\ orphans = {} /\ undone = {}
  BY PhasesAre DEF Mirror!Init, Mirror!Nothing, Mirror!Absent
<1>2. MirrorTypes
  BY <1>1 DEF MirrorTypes
<1>3. MirrorFlags
  BY <1>1 DEF MirrorFlags
<1>4. /\ job["backup"] = IdlePhase /\ job["restore"] = IdlePhase
      /\ job \in [Mirror!Jobs -> Phase]
  BY <1>1, PhasesAre
<1>5. JobsInv
  BY <1>1, <1>4 DEF JobsInv, IdlePhase
<1>6. SnapInv /\ CardInv /\ BackupInv /\ OrphanInv
  BY <1>1, <1>4 DEF SnapInv, CardInv, BackupInv, OrphanInv, IdlePhase
<1> QED
  BY <1>2, <1>3, <1>5, <1>6 DEF MirrorInv

LEMMA MirrorAgrees == MirrorInv => Mirror!TypeOK /\ Mirror!OkIsBackedUp
<1> SUFFICES ASSUME MirrorInv PROVE Mirror!TypeOK /\ Mirror!OkIsBackedUp
  OBVIOUS
<1> USE MirrorNumbers
<1>1. {card, cloud, snap} \subseteq [Mirror!Files -> Mirror!Absent..version]
  BY DEF MirrorInv, MirrorTypes, Mirror!Absent
<1>2. {there, paired, claimed, fresh} \subseteq BOOLEAN
  BY DEF MirrorInv, MirrorFlags
<1>3. ASSUME NEW k \in Mirror!Jobs
      PROVE  /\ job[k].at \in {"idle", "next", "copying"} /\ job[k].index \in DOMAIN Mirror!Folders
             /\ job[k].todo \union job[k].extra \subseteq Mirror!Folder(k)
  <2>1. job[k] \in Phase /\ job[k].todo \union job[k].extra \subseteq FolderOf(job[k].index)
    BY DEF MirrorInv, JobsInv
  <2>2. job[k].index \in {1, 2} /\ job[k].at \in {"idle", "next", "copying"}
    BY <2>1 DEF Phase
  <2>3. Mirror!Folder(k) = FolderOf(job[k].index)
    BY <2>2, FolderIs DEF Mirror!Folder
  <2>4. DOMAIN Mirror!Folders = {1, 2}
    BY DEF Mirror!Folders
  <2> QED
    BY <2>1, <2>2, <2>3, <2>4
<1>4. version \in Mirror!Absent..MaxVersion /\ jobs \in 0..MaxJobs /\ faults \in 0..MaxFaults
  BY DEF MirrorInv, MirrorTypes, Mirror!Absent
<1>5. Mirror!OkIsBackedUp
  BY DEF MirrorInv, BackupInv, Mirror!OkIsBackedUp, Mirror!Absent
<1>6. /\ \A o \in orphans : o.of \in Mirror!Jobs /\ o.todo \union o.extra \subseteq Mirror!Folders[o.index]
      /\ undone \subseteq Mirror!Files
  BY FolderIs DEF MirrorInv, OrphanInv, Orphan
<1> QED
  BY <1>1, <1>2, <1>3, <1>4, <1>5, <1>6 DEF Mirror!TypeOK

-----------------------------------------------------------------------------
(* What is backed up                                                       *)

BackupsInv ==
    /\ which = "scheduler" => SchedInv
    /\ which = "mirror" => MirrorInv

LEMMA BackupsStep ==
    ASSUME BackupsInv, [Next]_all
    PROVE  BackupsInv' /\ (which = "mirror" => [Mirror!KeepsCloud]_all)
<1>1. CASE which = "scheduler"
  <2>1. CASE Sched!Next /\ which' = which
    BY <1>1, <2>1, SchedStep DEF BackupsInv
  <2>2. CASE UNCHANGED <<which, SchedVars>>
    <3>1. SchedInv
      BY <1>1 DEF BackupsInv
    <3>2. SchedTypes' /\ DoneInv' /\ FiredInv'
      BY <2>2, <3>1 DEF SchedVars, SchedInv, SchedTypes, DoneInv, FiredInv, Today, Sched!Job
    <3>3. TickInv' /\ ServedInv'
      BY <2>2, <3>1 DEF SchedVars, SchedInv, TickInv, ServedInv, Today, Sched!Job,
                        Sched!LateOnlyBehind
    <3> QED
      BY <1>1, <2>2, <3>2, <3>3 DEF BackupsInv, SchedInv
  <2> QED
    BY <1>1, <2>1, <2>2 DEF Next, OnlyThis, all
<1>2. CASE which = "mirror"
  <2>1. CASE Mirror!Next /\ which' = which
    BY <1>2, <2>1, MirrorStep DEF BackupsInv
  <2>2. CASE UNCHANGED all
    <3>1. MirrorInv
      BY <1>2 DEF BackupsInv
    <3>2. MirrorInv'
      BY <2>2, <3>1 DEF all, MirrorVars, MirrorInv, MirrorTypes, MirrorFlags, JobsInv, SnapInv, CardInv,
                        BackupInv, OrphanInv
    <3> QED
      BY <1>2, <2>2, <3>2 DEF BackupsInv, all
  <2> QED
    BY <1>2, <2>1, <2>2 DEF Next, OnlyThis
<1>3. CASE which \notin {"scheduler", "mirror"}
  <2>1. which' = which
    BY DEF Next, OnlyThis, all
  <2> QED
    BY <1>3, <2>1 DEF BackupsInv
<1> QED
  BY <1>1, <1>2, <1>3

\* Backups are made when they are due, and keep what they should, for any files, jobs, hours
\* and bounds.  sync.rs: a daily job runs at most once a day between two restarts, an hour
\* in which a tick began and ended had its jobs, and a job is late only behind another of
\* its hour.  cloud.rs: after "Cloud Backup ok" the cloud has every file as the backup found
\* it, unless it changed on the card meanwhile or the rclone of a killed agent removed it,
\* and a backup of a new card leaves the saves in the cloud alone.
THEOREM BackupsHold == Spec => BackupsKeep
<1>1. Init => BackupsInv
  BY SchedStart, MirrorStart DEF Init, BackupsInv
<1>2. BackupsInv /\ [Next]_all => BackupsInv'
  BY BackupsStep
<1>3. BackupsInv =>
        /\ which = "scheduler" => Sched!TypeOK /\ Sched!OncePerDay /\ Sched!HourIsServed /\ Sched!LateOnlyBehind
        /\ which = "mirror" => Mirror!TypeOK /\ Mirror!OkIsBackedUp
  BY SchedAgrees, MirrorAgrees DEF BackupsInv
<1>4. BackupsInv /\ [Next]_all => [which = "mirror" => Mirror!KeepsCloud]_all
  BY BackupsStep
<1> QED
  BY <1>1, <1>2, <1>3, <1>4, PTL DEF Spec, BackupsKeep

-----------------------------------------------------------------------------
(* What is on a screen                                                     *)

ScreensInv ==
    /\ which = "viewer" => ViewInv
    /\ which = "menu" => MenuInv

LEMMA ScreensStep ==
    ASSUME ScreensInv, [Next]_all
    PROVE  ScreensInv'
<1>1. CASE which = "viewer"
  <2>1. CASE View!Next /\ which' = which
    BY <1>1, <2>1, ViewStep DEF ScreensInv
  <2>2. CASE UNCHANGED <<which, ViewVars>>
    BY <1>1, <2>2 DEF ScreensInv, ViewVars, ViewInv, ViewFlags, PageInv, TargetInv, ScreenInv,
                      View!Fit, View!PageEnd
  <2> QED
    BY <1>1, <2>1, <2>2 DEF Next, OnlyThis, all
<1>2. CASE which = "menu"
  <2>1. CASE Menu!Next /\ which' = which
    BY <1>2, <2>1, MenuStep DEF ScreensInv
  <2>2. CASE UNCHANGED <<which, MenuVars>>
    BY <1>2, <2>2 DEF ScreensInv, MenuVars, MenuInv, MenuTypes, MenuRows, PortsInv
  <2> QED
    BY <1>2, <2>1, <2>2 DEF Next, OnlyThis, all
<1>3. CASE which \notin {"viewer", "menu"}
  <2>1. which' = which
    BY DEF Next, OnlyThis, all
  <2> QED
    BY <1>3, <2>1 DEF ScreensInv
<1> QED
  BY <1>1, <1>2, <1>3

\* Screens show what keys act on, for texts, pages and catalogs of any length.  viewer.rs:
\* no redraw slices backwards, however the terminal was resized; unless lines are wrapped, a
\* match that was jumped to is on the screen, as long as that has three rows for the text,
\* and page by page no line goes by unseen.  tui.rs: the catalog is there whenever the ports
\* are on the screen, and Enter installs the port whose row is highlighted.
THEOREM ScreensHold == Spec => ScreensAgree
<1>1. Init => ScreensInv
  BY ViewStart, MenuStart DEF Init, ScreensInv
<1>2. ScreensInv /\ [Next]_all => ScreensInv'
  BY ScreensStep
<1>3. ScreensInv =>
        /\ which = "viewer" => View!TypeOK /\ View!NeverPanics /\ View!MatchShown
        /\ which = "menu" => Menu!TypeOK /\ Menu!MenuNeverPanics
  BY ViewAgrees, MenuAgrees DEF ScreensInv
<1>4. ScreensInv =>
        /\ which = "viewer" => View!PageFollows
        /\ which = "menu" => Menu!InstallShown
  BY PageIsNext, MenuAgrees DEF ScreensInv
<1> QED
  BY <1>1, <1>2, <1>3, <1>4, PTL DEF Spec, ScreensAgree
=============================================================================
