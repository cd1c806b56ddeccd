----------------------------- MODULE JobsProofs -----------------------------
(***************************************************************************)
(* Proofs about Lockfile and the other components of MCJobs, for any       *)
(* commands, files, processes and bounds.                                  *)
(***************************************************************************)
EXTENDS MCJobs, FiniteSetTheorems, TLAPS

-----------------------------------------------------------------------------
(* The lockfile (lockfile.rs)                                              *)

\* Every variable keeps its type, and a command that is about to probe a
\* process id or to write has what it needs (acquire in lockfile.rs).
THEOREM TypeCorrect == Spec => []TypeOK
<1>1. Init => TypeOK
  BY NoneIsNoCommand DEF Init, TypeOK, Acquiring, Ended
<1>2. TypeOK /\ [Next]_vars => TypeOK'
  <2> SUFFICES ASSUME TypeOK, [Next]_vars PROVE TypeOK'
    OBVIOUS
  <2> USE NoneIsNoCommand DEF TypeOK, GoTo, Acquiring, Ended
  <2>1. ASSUME NEW p \in Commands, Exists(p) PROVE TypeOK'
    BY <2>1 DEF Exists
  <2>2. ASSUME NEW p \in Commands, Read(p) PROVE TypeOK'
    BY <2>2 DEF Read, AfterRead, Content
  <2>3. ASSUME NEW p \in Commands, Probe(p) PROVE TypeOK'
    BY <2>3 DEF Probe
  <2>4. ASSUME NEW p \in Commands, Remove(p) PROVE TypeOK'
    BY <2>4 DEF Remove
  <2>5. ASSUME NEW p \in Commands, Create(p) PROVE TypeOK'
    BY <2>5 DEF Create
  <2>6. ASSUME NEW p \in Commands, Fill(p) PROVE TypeOK'
    BY <2>6 DEF Fill
  <2>7. ASSUME NEW p \in Commands, Drop(p) \/ Kill(p) \/ Reuse(p) PROVE TypeOK'
    BY <2>7 DEF Drop, Kill, Reuse
  <2>8. CASE UNCHANGED vars
    BY <2>8 DEF vars
  <2> QED
    BY <2>1, <2>2, <2>3, <2>4, <2>5, <2>6, <2>7, <2>8 DEF Next
<1> QED
  BY <1>1, <1>2, PTL DEF Spec

-----------------------------------------------------------------------------

(***************************************************************************)
(* ExclusiveUnlessRaced is not inductive: it does not say why a command    *)
(* that is inside acquire will not end up with the lock next to a holder.  *)
(* It will not because, alone in acquire, it either has still to read the  *)
(* holder's id or has read it and is about to be refused.                  *)
(***************************************************************************)
Alone ==
    \A p, q \in Commands : pc[p] \in Acquiring /\ pc[q] \in Acquiring => p = q

HolderIsNamed ==
    \A p, q \in Commands :
        pc[p] = "running" =>
            /\ Content = p
            /\ pc[q] = "running" => p = q
            /\ pc[q] \notin {"remove", "create", "fill"}
            /\ pc[q] = "probe" => saw[q] = p

WritesToPath == \A p \in Commands : pc[p] = "fill" => link = fd[p]

IInv == TypeOK /\ (~raced => Alone /\ HolderIsNamed /\ WritesToPath)

\* As long as no two commands were inside acquire at once, the lock is
\* exclusive and its file names the holder, whatever is killed meanwhile.
THEOREM UnracedLocksExclude == Spec => []ExclusiveUnlessRaced
<1>1. Init => IInv
  BY NoneIsNoCommand
  DEF Init, IInv, TypeOK, Alone, HolderIsNamed, WritesToPath, Acquiring, Ended
<1>2. TypeOK' /\ IInv /\ [Next]_vars => IInv'
  <2> SUFFICES ASSUME TypeOK', IInv, [Next]_vars, ~raced'
               PROVE  Alone' /\ HolderIsNamed' /\ WritesToPath'
    BY DEF IInv
  <2>0. ~raced
    BY DEF Next, vars, Exists, Read, Probe, Remove, Create, Fill, Drop, Kill, Reuse
  <2> USE NoneIsNoCommand, <2>0
      DEF TypeOK, IInv, Alone, HolderIsNamed, WritesToPath, GoTo, Acquiring, Ended,
          Content
  <2>1. ASSUME NEW p \in Commands, Exists(p)
        PROVE  Alone' /\ HolderIsNamed' /\ WritesToPath'
    <3>1. \A q \in Commands : pc[q] \notin Acquiring
      BY <2>1 DEF Exists
    <3>2. \A q \in Commands : pc[q] = "running" => link # None
      OBVIOUS
    <3>3. UNCHANGED <<link, text, fd, saw>>
      BY <2>1 DEF Exists
    <3>4. \A q \in Commands : q # p => pc'[q] = pc[q]
      BY <2>1 DEF Exists
    <3>5. pc'[p] \in {"create", "read"} /\ (pc'[p] = "create" => link = None)
      BY <2>1 DEF Exists
    <3> QED
      BY <3>1, <3>2, <3>3, <3>4, <3>5
  <2>2. ASSUME NEW p \in Commands, Read(p)
        PROVE  Alone' /\ HolderIsNamed' /\ WritesToPath'
    BY <2>2 DEF Read, AfterRead
  <2>3. ASSUME NEW p \in Commands, Probe(p)
        PROVE  Alone' /\ HolderIsNamed' /\ WritesToPath'
    BY <2>3 DEF Probe, PidAlive
  <2>4. ASSUME NEW p \in Commands, Remove(p)
        PROVE  Alone' /\ HolderIsNamed' /\ WritesToPath'
    BY <2>4 DEF Remove
  <2>5. ASSUME NEW p \in Commands, Create(p)
        PROVE  Alone' /\ HolderIsNamed' /\ WritesToPath'
    BY <2>5 DEF Create
  <2>6. ASSUME NEW p \in Commands, Fill(p)
        PROVE  Alone' /\ HolderIsNamed' /\ WritesToPath'
    BY <2>6 DEF Fill
  <2>7. ASSUME NEW p \in Commands, Drop(p)
        PROVE  Alone' /\ HolderIsNamed' /\ WritesToPath'
    BY <2>7 DEF Drop
  <2>8. ASSUME NEW p \in Commands, Kill(p) \/ Reuse(p)
        PROVE  Alone' /\ HolderIsNamed' /\ WritesToPath'
    BY <2>8 DEF Kill, Reuse
  <2>9. CASE UNCHANGED vars
    BY <2>9 DEF vars
  <2> QED
    BY <2>1, <2>2, <2>3, <2>4, <2>5, <2>6, <2>7, <2>8, <2>9 DEF Next
<1>3. IInv => ExclusiveUnlessRaced
  BY DEF IInv, HolderIsNamed, ExclusiveUnlessRaced, Holders
<1> QED
  BY <1>1, <1>2, <1>3, TypeCorrect, PTL DEF Spec

-----------------------------------------------------------------------------
(* Restoring a backup (restore.rs)                                         *)

\* tar has looked at every file before the one it is at, and no file it has looked at is
\* missing afterwards; the archive is there as long as it works, and goes when every file
\* is there.
RestoreInv ==
    /\ Restore!TypeOK
    /\ restorePc \in {"extract", "write", "remove"} => tar
    /\ restorePc \in {"extract", "write"} =>
           \A f \in Restore!Files : f < next => disk[f] # "none"
    /\ restorePc = "remove" \/ ~tar => \A f \in Restore!Files : disk[f] # "none"

LEMMA ArchiveHasFiles == NumFiles \in Nat /\ 1 \in 1..NumFiles + 1
BY Assumptions DEF Restore!RestoreAssumption

LEMMA RestoreStarts == Restore!Init => RestoreInv
<1> SUFFICES ASSUME Restore!Init PROVE RestoreInv
  OBVIOUS
<1>1. Restore!TypeOK
  <2>1. disk \in [Restore!Files -> {"none", "part", "all", "other"}]
    BY DEF Restore!Init
  <2> QED
    BY <2>1, ArchiveHasFiles DEF Restore!Init, Restore!TypeOK
<1> QED
  BY <1>1, ArchiveHasFiles DEF Restore!Init, RestoreInv, Restore!Files

LEMMA RestoreStep == RestoreInv /\ Restore!Next => RestoreInv'
<1> SUFFICES ASSUME RestoreInv, Restore!Next PROVE RestoreInv'
  OBVIOUS
<1> USE ArchiveHasFiles, Assumptions
    DEF Restore!RestoreAssumption, RestoreInv, Restore!TypeOK, Restore!Files, Restore!Following
<1>1. CASE Restore!Refuse
  BY <1>1 DEF Restore!Refuse
<1>2. CASE Restore!Begin
  <2>1. Restore!TypeOK'
    BY <1>2 DEF Restore!Begin
  <2>2. restorePc' = "extract" \/ (restorePc' = "done" /\ Restore!AllPresent)
    BY <1>2 DEF Restore!Begin
  <2>3. tar /\ tar' = tar /\ disk' = disk /\ next' = 1
    BY <1>2 DEF Restore!Begin
  <2> QED
    BY <2>1, <2>2, <2>3
<1>3. CASE Restore!Skip
  BY <1>3 DEF Restore!Skip
<1>4. CASE Restore!Create
  BY <1>4 DEF Restore!Create
<1>5. CASE Restore!Write
  BY <1>5 DEF Restore!Write
<1>6. CASE Restore!Finish
  BY <1>6 DEF Restore!Finish
<1>7. CASE Restore!Remove
  BY <1>7 DEF Restore!Remove
<1>8. CASE Restore!WriteFails
  BY <1>8 DEF Restore!WriteFails
<1>9. CASE Restore!TarKilled
  BY <1>9 DEF Restore!TarKilled, Restore!AfterSignal, Restore!Cut
<1>10. CASE Restore!Kill
  BY <1>10 DEF Restore!Kill, Restore!Cut
<1> QED
  BY <1>1, <1>2, <1>3, <1>4, <1>5, <1>6, <1>7, <1>8, <1>9, <1>10 DEF Restore!Next

LEMMA RestoreAgrees == RestoreInv => Restore!TypeOK /\ Restore!UnhitRestored
BY DEF RestoreInv, Restore!TypeOK, Restore!UnhitRestored, Restore!Files

-----------------------------------------------------------------------------
(* Compressing disc images (compress.rs)                                   *)

\* What is deleted is in its target.
CompressInv ==
    /\ Compress!TypeOK
    /\ compressPc = "delete" => target[TargetOf[compressCurrent]] = compressCurrent

LEMMA CompressStarts == Compress!Init => CompressInv
BY Assumptions DEF Compress!CompressAssumption, Compress!Init, CompressInv, Compress!TypeOK

LEMMA CompressStep == CompressInv /\ Compress!Next => CompressInv' /\ Compress!NoRomLost
<1> SUFFICES ASSUME CompressInv, Compress!Next PROVE CompressInv' /\ Compress!NoRomLost
  OBVIOUS
<1> USE Assumptions
    DEF Compress!CompressAssumption, CompressInv, Compress!TypeOK, Compress!NoRomLost,
        Compress!Kept, Compress!Held, Compress!Whole
<1>1. CASE Compress!Begin
  BY <1>1 DEF Compress!Begin
<1>2. ASSUME NEW s \in list, Compress!Skip(s) PROVE CompressInv' /\ Compress!NoRomLost
  BY <1>2 DEF Compress!Skip
<1>3. ASSUME NEW s \in list, Compress!Start(s) PROVE CompressInv' /\ Compress!NoRomLost
  BY <1>3 DEF Compress!Start, Compress!TargetExists
<1>4. CASE Compress!Convert
  BY <1>4 DEF Compress!Convert
<1>5. CASE Compress!CleanUp
  BY <1>5 DEF Compress!CleanUp, Compress!WithoutPart
<1>6. CASE Compress!Rename
  BY <1>6 DEF Compress!Rename
<1>7. CASE Compress!DeleteSource
  BY <1>7 DEF Compress!DeleteSource, Compress!TracksToDelete
<1>8. CASE Compress!End
  BY <1>8 DEF Compress!End
<1>9. ASSUME NEW t \in tracks, Compress!DeleteTrack(t) PROVE CompressInv' /\ Compress!NoRomLost
  BY <1>9 DEF Compress!DeleteTrack, Compress!TracksToDelete
<1>10. CASE Compress!ConvertFails
  BY <1>10 DEF Compress!ConvertFails
<1>11. CASE Compress!Kill
  BY <1>11 DEF Compress!Kill
<1>12. ASSUME NEW s \in list, Compress!SpawnFails(s) PROVE CompressInv' /\ Compress!NoRomLost
  BY <1>12 DEF Compress!SpawnFails
<1> QED
  BY <1>1, <1>2, <1>3, <1>4, <1>5, <1>6, <1>7, <1>8, <1>9, <1>10, <1>11, <1>12
  DEF Compress!Next, Compress!Step

-----------------------------------------------------------------------------
(* Downloads to one destination                                            *)

\* Only update holds its bytes in memory until they are verified.
KindsInv ==
    \A c \in Fetchers :
        /\ downloadPc[c] = "create" => downloadKind[c] # "update" /\ at[c] = 1
        /\ downloadPc[c] = "store" => downloadKind[c] = "update"

\* A file is written by one command, and is not installed before that is done with it.
AloneInv ==
    /\ \A c, d \in Fetchers : c # d /\ open[c] # None => open[c] # open[d]
    /\ downloadPart["part"] # None => downloadPart["part"] # downloadPart["partial"]
    /\ dest # None =>
          /\ \A c \in Fetchers : open[c] # dest
          /\ \A t \in Download!Temps : downloadPart[t] # dest

\* What a command writes to is at its own temporary path.
AtPathInv ==
    \A c \in Fetchers :
        IF downloadKind[c] = "update"
        THEN /\ downloadPc[c] = "rename" => open[c] # None
             /\ open[c] # None => \A t \in Download!Temps : downloadPart[t] # open[c]
        ELSE downloadPc[c] \in {"receive", "verify", "rename"} =>
                open[c] # None /\ downloadPart[Download!PartOf(c)] = open[c]

\* A command that still trusts what came has written all of it, and flushed it if it does.
WrittenInv ==
    \A c \in Fetchers :
        /\ downloadKind[c] # "update" /\ good[c] =>
              /\ downloadPc[c] = "receive" => 1..at[c] - 1 \subseteq data[open[c]]
              /\ downloadPc[c] = "verify" => Download!Whole(open[c])
        /\ Download!Verifies(downloadKind[c]) /\ downloadPc[c] = "rename" =>
              Download!Whole(open[c])
        /\ Download!Syncs(downloadKind[c]) /\ downloadPc[c] \in {"verify", "rename"} =>
              open[c] \in synced

\* What was installed after its checksum is whole; what was flushed, too, stays so.
InstalledInv ==
    dest # None /\ Download!Verifies(downloadKind[by]) =>
        IF Download!Syncs(downloadKind[by])
        THEN Download!Whole(dest) /\ dest \in synced
        ELSE Download!Whole(dest) \/ Download!WentDark(dest)

TempsInv == AloneInv /\ AtPathInv /\ WrittenInv /\ InstalledInv

DownloadInv ==
    /\ Download!TypeOK /\ KindsInv
    /\ Download!ThroughTemps /\ ~overlapped => TempsInv

DownloadTypes == Download!TypeOK /\ KindsInv

LEMMA DownloadConstants ==
    /\ Chunks \in Nat \ {0} /\ MaxBreaks \in Nat /\ None \notin Inodes
    /\ Fetchers \intersect {"part", "partial"} = {}
    /\ IsFiniteSet(Fetchers) /\ IsFiniteSet(Inodes)
    /\ Cardinality(Inodes) > Cardinality(Fetchers) + 3
<1>1. IsFiniteSet(Fetchers) /\ IsFiniteSet(Inodes)
  BY Assumptions DEF Download!DownloadsAssumption, Download!IsFiniteSet, IsFiniteSet
<1>2. Cardinality(Inodes) > Cardinality(Fetchers) + 3
  BY Assumptions DEF Download!DownloadsAssumption, Download!Cardinality, Cardinality
<1> QED
  BY <1>1, <1>2, Assumptions DEF Download!DownloadsAssumption, Download!Temps

\* At most one file is at the destination, two are at temporary paths, and one is open in
\* each command, so that a new one is there.
LEMMA Spare ==
    ASSUME Download!TypeOK
    PROVE  Download!New \in Inodes /\ Download!New \notin Download!Used
<1> USE DownloadConstants
<1> DEFINE Opens == {open[c] : c \in Fetchers}
           n == Cardinality(Fetchers)
<1>1. IsFiniteSet(Opens) /\ Cardinality(Opens) <= n /\ Cardinality(Opens) \in Nat /\ n \in Nat
  <2>1. open \in [Fetchers -> Opens] /\ \A i \in Opens : \E c \in Fetchers : open[c] = i
    BY DEF Download!TypeOK
  <2>2. open \in Surjection(Fetchers, Opens)
    BY <2>1 DEF Surjection
  <2> HIDE DEF Opens
  <2>3. IsFiniteSet(Opens) /\ Cardinality(Opens) <= n
    BY <2>2, FS_Surjection
  <2> QED
    BY <2>3, FS_CardinalityType
<1> HIDE DEF Opens, n
<1> DEFINE A == Opens \union {dest}
           B == A \union {downloadPart["part"]}
           C == B \union {downloadPart["partial"]}
<1>2. IsFiniteSet(A) /\ Cardinality(A) \in Nat /\ Cardinality(A) <= n + 1
  <2>1. /\ IsFiniteSet(A)
        /\ Cardinality(A) = Cardinality(Opens) \/ Cardinality(A) = Cardinality(Opens) + 1
    BY <1>1, FS_AddElement, Zenon
  <2> QED
    BY <1>1, <2>1
<1> HIDE DEF A
<1>3. IsFiniteSet(B) /\ Cardinality(B) \in Nat /\ Cardinality(B) <= n + 2
  <2>1. /\ IsFiniteSet(B)
        /\ Cardinality(B) = Cardinality(A) \/ Cardinality(B) = Cardinality(A) + 1
    BY <1>1, <1>2, FS_AddElement, Zenon
  <2> QED
    BY <1>1, <1>2, <2>1
<1> HIDE DEF B
<1>4. IsFiniteSet(C) /\ Cardinality(C) \in Nat /\ Cardinality(C) <= n + 3
  <2>1. /\ IsFiniteSet(C)
        /\ Cardinality(C) = Cardinality(B) \/ Cardinality(C) = Cardinality(B) + 1
    BY <1>1, <1>3, FS_AddElement, Zenon
  <2> QED
    BY <1>1, <1>3, <2>1
<1>5. Download!Used \subseteq C
  BY DEF Download!Used, Download!Temps, A, B, Opens
<1> HIDE DEF C
<1>6. ~ Inodes \subseteq C
  <2>1. SUFFICES ASSUME Inodes \subseteq C PROVE FALSE
    OBVIOUS
  <2>2. Cardinality(Inodes) <= Cardinality(C)
    BY <1>4, <2>1, FS_Subset
  <2>3. Cardinality(Inodes) \in Nat
    BY FS_CardinalityType
  <2> QED
    BY <1>1, <1>4, <2>2, <2>3 DEF n
<1>7. \E i \in Inodes : i \notin Download!Used
  BY <1>5, <1>6
<1> QED
  BY <1>7 DEF Download!New

\* Where a command has its temporary file.
LEMMA PartOfIs ==
    ASSUME Download!TypeOK, NEW c \in Fetchers
    PROVE  /\ downloadKind[c] \in {"fetch", "checked"} => Download!PartOf(c) = "part"
           /\ downloadKind[c] \in {"firmware", "image"} => Download!PartOf(c) = "partial"
           /\ downloadKind[c] \in {"update", "coolrom", "rom"} =>
                 Download!PartOf(c) = c /\ c \notin {"part", "partial"}
           /\ downloadKind[c] \in {"fetch", "checked", "firmware", "image", "update",
                                   "coolrom", "rom"}
BY DownloadConstants DEF Download!TypeOK, Download!PartOf, Ways

LEMMA DownloadStarts == Download!Init => DownloadInv
<1> SUFFICES ASSUME Download!Init PROVE DownloadInv
  OBVIOUS
<1> USE DownloadConstants DEF Download!Init
<1>1. Download!TypeOK
  <2>1. 1 \in 1..Chunks + 1 /\ 0 \in 0..MaxBreaks
    OBVIOUS
  <2> QED
    BY <2>1 DEF Download!TypeOK, Download!Running, Download!Pieces
<1>2. KindsInv
  BY DEF KindsInv
<1>3. TempsInv
  BY DEF TempsInv, AloneInv, AtPathInv, WrittenInv, InstalledInv, Download!Temps
<1> QED
  BY <1>1, <1>2, <1>3 DEF DownloadInv

LEMMA DownloadTypesStep == DownloadTypes /\ Download!Next => DownloadTypes'
<1> SUFFICES ASSUME DownloadTypes, Download!Next PROVE DownloadTypes'
  OBVIOUS
<1> USE DownloadConstants DEF DownloadTypes, Download!TypeOK, KindsInv, Download!Running
<1>0. Download!New \in Inodes
  BY Spare
<1>1. ASSUME NEW c \in Fetchers, Download!Refused(c) PROVE DownloadTypes'
  BY <1>1 DEF Download!Refused, Download!Goto
<1>2. ASSUME NEW c \in Fetchers, Download!Start(c) PROVE DownloadTypes'
  BY <1>2 DEF Download!Start, Download!Goto
<1>3. ASSUME NEW c \in Fetchers, Download!Create(c) PROVE DownloadTypes'
  <2>1. /\ downloadPc' = [downloadPc EXCEPT ![c] = "receive"]
        /\ downloadKind[c] # "update" /\ UNCHANGED <<downloadKind, at, good, downloadFaults>>
    BY <1>3 DEF Download!Create, Download!Goto
  <2>2. \E i \in Inodes :
           /\ Download!Opened(c, i)
           /\ \/ dest' = i /\ by' = c /\ UNCHANGED downloadPart
              \/ \E t \in Download!Temps : downloadPart' = [downloadPart EXCEPT ![t] = i]
                                        /\ UNCHANGED <<dest, by>>
    <3>1. CASE Download!Direct(downloadKind[c])
      BY <1>0, <1>3, <3>1 DEF Download!Create, Download!Created
    <3>2. CASE ~Download!Direct(downloadKind[c])
      <4>1. Download!PartOf(c) \in Download!Temps
        BY <2>1, <3>2, PartOfIs DEF Download!Direct, Download!Temps
      <4>2. Download!Created(downloadPart[Download!PartOf(c)]) \in Inodes
        BY <1>0, <4>1 DEF Download!Created
      <4> QED
        BY <1>3, <3>2, <4>1, <4>2 DEF Download!Create
    <3> QED
      BY <3>1, <3>2
  <2> QED
    BY <2>1, <2>2 DEF Download!Opened
<1>4. ASSUME NEW c \in Fetchers, Download!Receive(c) PROVE DownloadTypes'
  BY <1>4 DEF Download!Receive, Download!Pieces
<1>5. ASSUME NEW c \in Fetchers, Download!Garbled(c) PROVE DownloadTypes'
  BY <1>5 DEF Download!Garbled, Download!Fault
<1>6. ASSUME NEW c \in Fetchers, Download!ReadFails(c) PROVE DownloadTypes'
  BY <1>6 DEF Download!ReadFails, Download!Fault, Download!Goto, Download!Closed
<1>7. ASSUME NEW c \in Fetchers, Download!Received(c) PROVE DownloadTypes'
  BY <1>7 DEF Download!Received, Download!Goto, Download!Flushed
<1>8. ASSUME NEW c \in Fetchers, Download!Mismatch(c) PROVE DownloadTypes'
  BY <1>8 DEF Download!Mismatch, Download!Goto, Download!Closed
<1>9. ASSUME NEW c \in Fetchers, Download!Match(c) PROVE DownloadTypes'
  BY <1>9 DEF Download!Match, Download!Goto
<1>10. ASSUME NEW c \in Fetchers, Download!Store(c) PROVE DownloadTypes'
  BY <1>0, <1>10 DEF Download!Store, Download!Goto
<1>11. ASSUME NEW c \in Fetchers, Download!Rename(c) PROVE DownloadTypes'
  BY <1>11 DEF Download!Rename, Download!Goto, Download!Closed
<1>12. ASSUME NEW c \in Fetchers, Download!Kill(c) PROVE DownloadTypes'
  BY <1>12 DEF Download!Kill, Download!Fault, Download!Goto, Download!Closed
<1>13. CASE Download!PowerCut
  BY <1>13 DEF Download!PowerCut, Download!Fault
<1> QED
  BY <1>1, <1>2, <1>3, <1>4, <1>5, <1>6, <1>7, <1>8, <1>9, <1>10, <1>11, <1>12, <1>13
  DEF Download!Next, Download!Step

\* What the types say of a command, for the steps below.
LEMMA CommandIs ==
    ASSUME DownloadTypes, Download!ThroughTemps, NEW c \in Fetchers
    PROVE  /\ open[c] \in Inodes \union {None}
           /\ ~Download!Running(c) => open[c] = None
           /\ downloadKind[c] \notin {"coolrom", "rom"}
           /\ downloadKind[c] # "update" =>
                 Download!PartOf(c) \in {"part", "partial"}
           /\ downloadKind[c] = "update" => Download!PartOf(c) \notin {"part", "partial"}
           /\ at[c] \in 1..Chunks + 1
<1>1. downloadKind[c] \notin {"coolrom", "rom"}
  BY DEF Download!ThroughTemps, Download!Direct
<1> QED
  BY <1>1, PartOfIs DEF DownloadTypes, Download!TypeOK

\* A command that fails leaves the files and the other commands alone.
LEMMA Fails ==
    ASSUME DownloadTypes, TempsInv, NEW c \in Fetchers,
           downloadPc' = [downloadPc EXCEPT ![c] = "error"],
           open' = [open EXCEPT ![c] = None],
           UNCHANGED <<downloadKind, dest, downloadPart, data, at, good, synced, by>>
    PROVE  TempsInv'
<1>1. /\ open'[c] = None /\ \A d \in Fetchers : d # c => open'[d] = open[d]
      /\ downloadPc'[c] = "error" /\ \A d \in Fetchers : d # c => downloadPc'[d] = downloadPc[d]
  BY DEF DownloadTypes, Download!TypeOK
<1>2. AloneInv'
  BY <1>1 DEF TempsInv, AloneInv
<1>3. \A d \in Fetchers : Download!PartOf(d)' = Download!PartOf(d)
  BY DEF Download!PartOf
<1>4. AtPathInv'
  BY <1>1, <1>3 DEF TempsInv, AtPathInv
<1>5. WrittenInv'
  BY <1>1 DEF TempsInv, WrittenInv, Download!Whole
<1>6. InstalledInv'
  BY DEF TempsInv, InstalledInv, Download!Whole, Download!WentDark
<1> QED
  BY <1>2, <1>4, <1>5, <1>6 DEF TempsInv

LEMMA TempsStep ==
    ASSUME DownloadTypes, TempsInv, Download!ThroughTemps, Download!Next, ~overlapped'
    PROVE  TempsInv'
<1> USE DownloadConstants
<1> USE DEF DownloadTypes, Download!TypeOK
<1>0. Download!New \in Inodes /\ Download!New \notin Download!Used
  BY Spare
<1>00. downloadKind' = downloadKind /\ \A d \in Fetchers : Download!PartOf(d)' = Download!PartOf(d)
  <2>1. downloadKind' = downloadKind
    BY DEF Download!Next, Download!Step, Download!Refused, Download!Start, Download!Create,
           Download!Receive, Download!Garbled, Download!ReadFails, Download!Received,
           Download!Mismatch, Download!Match, Download!Store, Download!Rename, Download!Kill,
           Download!PowerCut
  <2> QED
    BY <2>1 DEF Download!PartOf
<1>1. ASSUME NEW c \in Fetchers, Download!Refused(c) PROVE TempsInv'
  <2>1. downloadPc' = [downloadPc EXCEPT ![c] = "error"] /\ open[c] = None
    BY <1>1, CommandIs DEF Download!Refused, Download!Goto, Download!Running
  <2>2. open' = [open EXCEPT ![c] = None]
    BY <1>1, <2>1 DEF Download!Refused
  <2> QED
    BY <1>1, <2>1, <2>2, Fails DEF Download!Refused
<1>2. ASSUME NEW c \in Fetchers, Download!Start(c) PROVE TempsInv'
  <2>1. /\ open[c] = None
        /\ downloadPc'[c] = IF downloadKind[c] = "update" THEN "receive" ELSE "create"
        /\ \A d \in Fetchers : d # c =>
              downloadPc'[d] = downloadPc[d] /\ at'[d] = at[d] /\ good'[d] = good[d]
        /\ UNCHANGED <<dest, downloadPart, data, open, synced, by>>
    BY <1>2, CommandIs DEF Download!Start, Download!Goto, Download!Running
  <2>2. AloneInv' /\ InstalledInv'
    BY <1>00, <2>1
    DEF TempsInv, AloneInv, InstalledInv, Download!Whole, Download!WentDark
  <2>3. AtPathInv'
    BY <1>00, <2>1 DEF TempsInv, AtPathInv
  <2>4. WrittenInv'
    BY <1>00, <2>1 DEF TempsInv, WrittenInv, Download!Whole, Download!Verifies, Download!Syncs
  <2> QED
    BY <2>2, <2>3, <2>4 DEF TempsInv
<1>3. ASSUME NEW c \in Fetchers, Download!Create(c) PROVE TempsInv'
  <2>8. PICK p, i : p = Download!PartOf(c) /\ i = Download!Created(downloadPart[p])
    OBVIOUS
  <2>1. p \in {"part", "partial"} /\ downloadKind[c] # "update"
        /\ ~Download!Direct(downloadKind[c])
    BY <1>3, <2>8, CommandIs DEF Download!Create, Download!Direct
  <2>2. /\ i \in Inodes
        /\ i # dest /\ \A t \in {"part", "partial"} : t # p => downloadPart[t] # i
    <3>1. CASE downloadPart[p] = None
      BY <1>0, <2>1, <2>8, <3>1 DEF Download!Created, Download!Used, Download!Temps
    <3>2. CASE downloadPart[p] # None
      BY <2>1, <2>8, <3>2 DEF Download!Created, Download!Temps, TempsInv, AloneInv
    <3> QED
      BY <3>1, <3>2
  <2>3. /\ open'[c] = i /\ \A d \in Fetchers : d # c => open'[d] = open[d] /\ open[d] # i
        /\ data'[i] = {} /\ \A j \in Inodes : j # i => data'[j] = data[j]
        /\ synced' = synced \ {i}
        /\ downloadPart'[p] = i /\ \A t \in {"part", "partial"} : t # p => downloadPart'[t] = downloadPart[t]
        /\ downloadPc'[c] = "receive"
        /\ \A d \in Fetchers : d # c => downloadPc'[d] = downloadPc[d]
        /\ UNCHANGED <<dest, by, at, good>>
    BY <1>3, <2>1, <2>2, <2>8
    DEF Download!Create, Download!Opened, Download!Goto, Download!Temps
  <2>4. AloneInv'
    BY <2>1, <2>2, <2>3 DEF TempsInv, AloneInv, Download!Temps
  <2>5. AtPathInv'
    <3> SUFFICES ASSUME NEW d \in Fetchers
                 PROVE IF downloadKind[d] = "update"
                       THEN /\ downloadPc'[d] = "rename" => open'[d] # None
                            /\ open'[d] # None => \A t \in {"part", "partial"} : downloadPart'[t] # open'[d]
                       ELSE downloadPc'[d] \in {"receive", "verify", "rename"} =>
                               open'[d] # None /\ downloadPart'[Download!PartOf(d)] = open'[d]
      BY <1>00 DEF AtPathInv, Download!Temps
    <3>1. CASE d = c
      BY <2>1, <2>2, <2>3, <2>8, <3>1
    <3>2. CASE d # c /\ downloadKind[d] = "update"
      BY <2>1, <2>2, <2>3, <3>2 DEF TempsInv, AtPathInv, Download!Temps
    <3>3. CASE d # c /\ downloadKind[d] # "update"
      <4>1. Download!PartOf(d) # p => downloadPart'[Download!PartOf(d)] = downloadPart[Download!PartOf(d)]
        BY <2>3, <3>3, CommandIs
      <4>2. open[d] # None /\ open[d] = downloadPart[Download!PartOf(d)] => Download!PartOf(d) # p
        BY <2>3, <2>8, <3>3 DEF Download!Created
      <4> QED
        BY <2>3, <3>3, <4>1, <4>2 DEF TempsInv, AtPathInv
    <3> QED
      BY <3>1, <3>2, <3>3
  <2>6. WrittenInv'
    <3> SUFFICES ASSUME NEW d \in Fetchers
                 PROVE /\ downloadKind[d] # "update" /\ good[d] =>
                           /\ downloadPc'[d] = "receive" => 1..at[d] - 1 \subseteq data'[open'[d]]
                           /\ downloadPc'[d] = "verify" => data'[open'[d]] = Download!Pieces
                       /\ Download!Verifies(downloadKind[d]) /\ downloadPc'[d] = "rename" =>
                              data'[open'[d]] = Download!Pieces
                       /\ Download!Syncs(downloadKind[d]) /\ downloadPc'[d] \in {"verify", "rename"} =>
                              open'[d] \in synced'
      BY <1>00, <2>3 DEF WrittenInv, Download!Whole
    <3>1. CASE d = c
      <4>1. 1..at[c] - 1 = {}
        BY <1>3, <2>1 DEF KindsInv, Download!Create
      <4> QED
        BY <2>3, <3>1, <4>1
    <3>2. CASE d # c
      <4>1. open'[d] = open[d] /\ open[d] # i /\ downloadPc'[d] = downloadPc[d]
        BY <2>3, <3>2
      <4>2. open[d] \in Inodes => data'[open[d]] = data[open[d]]
        BY <2>3, <4>1
      <4>3. downloadPc[d] \in {"receive", "verify", "rename"} /\ downloadKind[d] # "update"
            => open[d] \in Inodes
        BY CommandIs DEF TempsInv, AtPathInv
      <4>4. downloadPc[d] = "rename" => open[d] \in Inodes
        BY CommandIs, <4>3 DEF TempsInv, AtPathInv
      <4> QED
        BY <2>3, <4>1, <4>2, <4>3, <4>4
        DEF TempsInv, WrittenInv, Download!Whole, Download!Syncs, Download!Verifies
    <3> QED
      BY <3>1, <3>2
  <2>7. InstalledInv'
    BY <1>00, <2>2, <2>3 DEF TempsInv, InstalledInv, Download!Whole, Download!WentDark
  <2> QED
    BY <2>4, <2>5, <2>6, <2>7 DEF TempsInv
<1>4. ASSUME NEW c \in Fetchers, Download!Receive(c) PROVE TempsInv'
  <2>1. /\ downloadPc[c] = "receive"
        /\ synced' = synced \ {open[c]} /\ at'[c] = at[c] + 1
        /\ \A d \in Fetchers : d # c => at'[d] = at[d]
        /\ UNCHANGED <<downloadPc, dest, downloadPart, open, good, by>>
    BY <1>4 DEF Download!Receive
  <2>2. /\ \A j \in Inodes : j # open[c] => data'[j] = data[j]
        /\ open[c] # None => data'[open[c]] = data[open[c]] \union {at[c]}
    BY <1>4 DEF Download!Receive
  <2>3. AloneInv' /\ AtPathInv'
    BY <1>00, <2>1 DEF TempsInv, AloneInv, AtPathInv
  <2>4. WrittenInv'
    <3> SUFFICES ASSUME NEW d \in Fetchers
                 PROVE /\ downloadKind[d] # "update" /\ good[d] =>
                           /\ downloadPc[d] = "receive" => 1..at'[d] - 1 \subseteq data'[open[d]]
                           /\ downloadPc[d] = "verify" => data'[open[d]] = Download!Pieces
                       /\ Download!Verifies(downloadKind[d]) /\ downloadPc[d] = "rename" =>
                              data'[open[d]] = Download!Pieces
                       /\ Download!Syncs(downloadKind[d]) /\ downloadPc[d] \in {"verify", "rename"} =>
                              open[d] \in synced'
      BY <1>00, <2>1 DEF WrittenInv, Download!Whole
    <3>3. downloadPc[d] \in {"receive", "verify", "rename"} /\ downloadKind[d] # "update"
          => open[d] \in Inodes
      BY CommandIs DEF TempsInv, AtPathInv
    <3>4. downloadPc[d] = "rename" => open[d] \in Inodes
      BY CommandIs, <3>3 DEF TempsInv, AtPathInv
    <3>1. CASE d = c
      <4>1. 1..at[c] + 1 - 1 = 1..at[c] - 1 \union {at[c]}
        BY CommandIs
      <4>2. downloadKind[c] # "update" /\ good[c] => 1..at[c] - 1 \subseteq data[open[c]]
        BY <2>1 DEF TempsInv, WrittenInv
      <4>3. downloadKind[c] # "update" /\ good[c] => 1..at'[c] - 1 \subseteq data'[open[c]]
        BY <2>1, <2>2, <3>1, <3>3, <4>1, <4>2
      <4> QED
        BY <2>1, <3>1, <4>3
    <3>2. CASE d # c
      <4>1. open[d] \in Inodes => open[d] # open[c] /\ data'[open[d]] = data[open[d]]
        BY <2>2, <3>2 DEF TempsInv, AloneInv
      <4> QED
        BY <2>1, <3>2, <3>3, <3>4, <4>1
        DEF TempsInv, WrittenInv, Download!Whole, Download!Syncs, Download!Verifies
    <3> QED
      BY <3>1, <3>2
  <2>5. InstalledInv'
    <3>1. dest # None => dest # open[c] /\ dest \in Inodes
      BY DEF TempsInv, AloneInv
    <3> QED
      BY <1>00, <2>1, <2>2, <3>1
      DEF TempsInv, InstalledInv, Download!Whole, Download!WentDark
  <2> QED
    BY <2>3, <2>4, <2>5 DEF TempsInv
<1>5. ASSUME NEW c \in Fetchers, Download!Garbled(c) PROVE TempsInv'
  <2>1. /\ downloadPc[c] = "receive" /\ good'[c] = FALSE
        /\ \A d \in Fetchers : d # c => at'[d] = at[d] /\ good'[d] = good[d]
        /\ UNCHANGED <<downloadPc, dest, downloadPart, data, open, synced, by>>
    BY <1>5 DEF Download!Garbled
  <2>2. AloneInv' /\ AtPathInv' /\ InstalledInv'
    BY <1>00, <2>1
    DEF TempsInv, AloneInv, AtPathInv, InstalledInv, Download!Whole, Download!WentDark
  <2>3. WrittenInv'
    BY <1>00, <2>1 DEF TempsInv, WrittenInv, Download!Whole
  <2> QED
    BY <2>2, <2>3 DEF TempsInv
<1>6. ASSUME NEW c \in Fetchers, Download!ReadFails(c) PROVE TempsInv'
  BY <1>6, Fails DEF Download!ReadFails, Download!Goto, Download!Closed
<1>7. ASSUME NEW c \in Fetchers, Download!Received(c) PROVE TempsInv'
  <2>1. /\ downloadPc[c] = "receive" /\ at[c] = Chunks + 1 /\ downloadPc'[c] = "verify"
        /\ \A d \in Fetchers : d # c => downloadPc'[d] = downloadPc[d]
        /\ synced' = IF Download!Syncs(downloadKind[c]) THEN synced \union {open[c]} ELSE synced
        /\ UNCHANGED <<dest, downloadPart, data, open, at, good, by>>
    BY <1>7 DEF Download!Received, Download!Goto, Download!Flushed
  <2>2. AloneInv' /\ AtPathInv'
    BY <1>00, <2>1 DEF TempsInv, AloneInv, AtPathInv
  <2>3. WrittenInv'
    <3>1. downloadKind[c] # "update" /\ good[c] => data[open[c]] = Download!Pieces
      <4> SUFFICES ASSUME downloadKind[c] # "update", good[c]
                   PROVE data[open[c]] = Download!Pieces
        OBVIOUS
      <4>1. open[c] \in Inodes /\ 1..at[c] - 1 \subseteq data[open[c]]
        BY <2>1, CommandIs DEF TempsInv, AtPathInv, WrittenInv
      <4>2. at[c] - 1 = Chunks
        BY <2>1
      <4> QED
        BY <4>1, <4>2 DEF Download!Pieces
    <3> QED
      BY <1>00, <2>1, <3>1 DEF TempsInv, WrittenInv, Download!Whole, Download!Syncs, Download!Verifies
  <2>4. InstalledInv'
    BY <1>00, <2>1 DEF TempsInv, AloneInv, InstalledInv, Download!Whole, Download!WentDark
  <2> QED
    BY <2>2, <2>3, <2>4 DEF TempsInv
<1>8. ASSUME NEW c \in Fetchers, Download!Mismatch(c) PROVE TempsInv'
  <2>1. /\ downloadPc[c] = "verify" /\ downloadPc'[c] = "error" /\ open'[c] = None
        /\ \A d \in Fetchers : d # c => downloadPc'[d] = downloadPc[d] /\ open'[d] = open[d]
        /\ UNCHANGED <<dest, data, at, good, synced, by>>
    BY <1>8 DEF Download!Mismatch, Download!Goto, Download!Closed
  <2>2. CASE downloadKind[c] = "update"
    <3>1. downloadPart' = downloadPart
      BY <1>8, <2>2, CommandIs DEF Download!Mismatch, Download!Temps
    <3> QED
      BY <1>8, <3>1, Fails DEF Download!Mismatch, Download!Goto, Download!Closed
  <2>3. CASE downloadKind[c] # "update"
    <3>8. PICK p : p = Download!PartOf(c)
      OBVIOUS
    <3>1. /\ p \in {"part", "partial"} /\ downloadPart'[p] = None
          /\ \A t \in {"part", "partial"} : t # p => downloadPart'[t] = downloadPart[t]
      BY <1>8, <2>3, <3>8, CommandIs DEF Download!Mismatch, Download!Temps
    <3>2. open[c] # None /\ downloadPart[p] = open[c]
      BY <2>1, <2>3, <3>8 DEF TempsInv, AtPathInv
    <3>3. AloneInv'
      BY <2>1, <3>1 DEF TempsInv, AloneInv, Download!Temps
    <3>4. AtPathInv'
      <4> SUFFICES ASSUME NEW d \in Fetchers
                   PROVE IF downloadKind[d] = "update"
                         THEN /\ downloadPc'[d] = "rename" => open'[d] # None
                              /\ open'[d] # None => \A t \in {"part", "partial"} : downloadPart'[t] # open'[d]
                         ELSE downloadPc'[d] \in {"receive", "verify", "rename"} =>
                                 open'[d] # None /\ downloadPart'[Download!PartOf(d)] = open'[d]
        BY <1>00 DEF AtPathInv, Download!Temps
      <4>1. CASE d = c
        BY <2>1, <2>3, <4>1
      <4>2. CASE d # c /\ downloadKind[d] = "update"
        BY <2>1, <3>1, <4>2 DEF TempsInv, AtPathInv, Download!Temps
      <4>3. CASE d # c /\ downloadKind[d] # "update"
        <5>1. open[d] # None => open[d] # open[c]
          BY <4>3 DEF TempsInv, AloneInv
        <5> QED
          BY <2>1, <3>1, <3>2, <4>3, <5>1, CommandIs DEF TempsInv, AtPathInv, Download!Temps
      <4> QED
        BY <4>1, <4>2, <4>3
    <3>5. WrittenInv'
      BY <1>00, <2>1 DEF TempsInv, WrittenInv, Download!Whole
    <3>6. InstalledInv'
      BY <1>00, <2>1 DEF TempsInv, InstalledInv, Download!Whole, Download!WentDark
    <3> QED
      BY <3>3, <3>4, <3>5, <3>6 DEF TempsInv
  <2> QED
    BY <2>2, <2>3
<1>9. ASSUME NEW c \in Fetchers, Download!Match(c) PROVE TempsInv'
  <2>1. /\ downloadPc[c] = "verify"
        /\ downloadPc'[c] = IF downloadKind[c] = "update" THEN "store" ELSE "rename"
        /\ Download!Verifies(downloadKind[c]) => good[c]
        /\ \A d \in Fetchers : d # c => downloadPc'[d] = downloadPc[d]
        /\ UNCHANGED <<dest, downloadPart, data, open, at, good, synced, by>>
    BY <1>9, CommandIs DEF Download!Match, Download!Accepted, Download!Goto, Download!Direct
  <2>2. AloneInv' /\ InstalledInv'
    BY <1>00, <2>1
    DEF TempsInv, AloneInv, InstalledInv, Download!Whole, Download!WentDark
  <2>3. AtPathInv'
    BY <1>00, <2>1 DEF TempsInv, AtPathInv
  <2>4. WrittenInv'
    BY <1>00, <2>1 DEF TempsInv, WrittenInv, Download!Whole, Download!Syncs, Download!Verifies
  <2> QED
    BY <2>2, <2>3, <2>4 DEF TempsInv
<1>10. ASSUME NEW c \in Fetchers, Download!Store(c) PROVE TempsInv'
  <2>8. PICK i : i = Download!New
    OBVIOUS
  <2>1. /\ i \in Inodes /\ i # dest
        /\ \A t \in {"part", "partial"} : downloadPart[t] # i
        /\ \A d \in Fetchers : open[d] # i
    BY <1>0, <2>8 DEF Download!Used, Download!Temps
  <2>2. /\ downloadKind[c] = "update" /\ downloadPc'[c] = "rename" /\ open'[c] = i
        /\ \A d \in Fetchers : d # c => downloadPc'[d] = downloadPc[d] /\ open'[d] = open[d]
        /\ data'[i] = Download!Pieces /\ \A j \in Inodes : j # i => data'[j] = data[j]
        /\ synced' = synced \ {i}
        /\ UNCHANGED <<dest, downloadPart, at, good, by>>
    BY <1>10, <2>1, <2>8 DEF Download!Store, Download!Goto, KindsInv
  <2>3. AloneInv'
    BY <2>1, <2>2 DEF TempsInv, AloneInv, Download!Temps
  <2>4. AtPathInv'
    BY <1>00, <2>1, <2>2 DEF TempsInv, AtPathInv, Download!Temps
  <2>5. WrittenInv'
    <3> SUFFICES ASSUME NEW d \in Fetchers
                 PROVE /\ downloadKind[d] # "update" /\ good[d] =>
                           /\ downloadPc'[d] = "receive" => 1..at[d] - 1 \subseteq data'[open'[d]]
                           /\ downloadPc'[d] = "verify" => data'[open'[d]] = Download!Pieces
                       /\ Download!Verifies(downloadKind[d]) /\ downloadPc'[d] = "rename" =>
                              data'[open'[d]] = Download!Pieces
                       /\ Download!Syncs(downloadKind[d]) /\ downloadPc'[d] \in {"verify", "rename"} =>
                              open'[d] \in synced'
      BY <1>00, <2>2 DEF WrittenInv, Download!Whole
    <3>1. CASE d = c
      BY <2>2, <3>1 DEF Download!Syncs
    <3>2. CASE d # c
      <4>1. open'[d] = open[d] /\ open[d] # i /\ downloadPc'[d] = downloadPc[d]
        BY <2>1, <2>2, <3>2
      <4>2. open[d] \in Inodes => data'[open[d]] = data[open[d]]
        BY <2>2, <4>1
      <4>3. downloadPc[d] \in {"receive", "verify", "rename"} /\ downloadKind[d] # "update"
            => open[d] \in Inodes
        BY CommandIs DEF TempsInv, AtPathInv
      <4>4. downloadPc[d] = "rename" => open[d] \in Inodes
        BY CommandIs, <4>3 DEF TempsInv, AtPathInv
      <4> QED
        BY <2>2, <4>1, <4>2, <4>3, <4>4
        DEF TempsInv, WrittenInv, Download!Whole, Download!Syncs, Download!Verifies
    <3> QED
      BY <3>1, <3>2
  <2>6. InstalledInv'
    BY <1>00, <2>1, <2>2 DEF TempsInv, InstalledInv, Download!Whole, Download!WentDark
  <2> QED
    BY <2>3, <2>4, <2>5, <2>6 DEF TempsInv
<1>11. ASSUME NEW c \in Fetchers, Download!Rename(c) PROVE TempsInv'
  <2>8. PICK p : p = Download!PartOf(c)
    OBVIOUS
  <2>1. /\ open[c] \in Inodes
        /\ downloadKind[c] # "update" =>
              p \in {"part", "partial"} /\ downloadPart[p] = open[c]
        /\ downloadKind[c] = "update" =>
              /\ p \notin {"part", "partial"}
              /\ \A t \in {"part", "partial"} : downloadPart[t] # open[c]
    BY <1>11, <2>8, CommandIs DEF Download!Rename, Download!Temps, TempsInv, AtPathInv
  <2>2. /\ downloadPc[c] = "rename" /\ dest' = open[c] /\ by' = c /\ downloadPc'[c] = "done"
        /\ open'[c] = None
        /\ \A d \in Fetchers : d # c => downloadPc'[d] = downloadPc[d] /\ open'[d] = open[d]
        /\ UNCHANGED <<data, at, good, synced>>
        /\ downloadPart' = IF p \in Download!Temps THEN [downloadPart EXCEPT ![p] = None]
                                                   ELSE downloadPart
    <3>1. (IF p \in Download!Temps THEN downloadPart[p] ELSE open[c]) = open[c]
      BY <2>1 DEF Download!Temps
    <3> QED
      BY <1>11, <2>1, <2>8, <3>1 DEF Download!Rename, Download!Goto, Download!Closed
  <2>3. /\ \A t \in {"part", "partial"} : t # p => downloadPart'[t] = downloadPart[t]
        /\ p \in {"part", "partial"} => downloadPart'[p] = None
        /\ \A t \in {"part", "partial"} : downloadPart'[t] # open[c]
    <3>1. CASE downloadKind[c] = "update"
      BY <2>1, <2>2, <3>1 DEF Download!Temps
    <3>2. CASE downloadKind[c] # "update"
      BY <2>1, <2>2, <3>2 DEF Download!Temps, TempsInv, AloneInv
    <3> QED
      BY <3>1, <3>2
  <2>9. \A d \in Fetchers : d # c => open[d] # open[c]
    BY <2>1 DEF TempsInv, AloneInv
  <2>4. AloneInv'
    BY <2>1, <2>2, <2>3, <2>9 DEF TempsInv, AloneInv, Download!Temps
  <2>5. AtPathInv'
    <3> SUFFICES ASSUME NEW d \in Fetchers
                 PROVE IF downloadKind[d] = "update"
                       THEN /\ downloadPc'[d] = "rename" => open'[d] # None
                            /\ open'[d] # None => \A t \in {"part", "partial"} : downloadPart'[t] # open'[d]
                       ELSE downloadPc'[d] \in {"receive", "verify", "rename"} =>
                               open'[d] # None /\ downloadPart'[Download!PartOf(d)] = open'[d]
      BY <1>00 DEF AtPathInv, Download!Temps
    <3>1. CASE d = c
      BY <2>2, <3>1
    <3>2. CASE d # c /\ downloadKind[d] = "update"
      BY <2>2, <2>3, <3>2 DEF TempsInv, AtPathInv, Download!Temps
    <3>3. CASE d # c /\ downloadKind[d] # "update"
      BY <2>1, <2>2, <2>3, <2>9, <3>3, CommandIs DEF TempsInv, AtPathInv, Download!Temps
    <3> QED
      BY <3>1, <3>2, <3>3
  <2>6. WrittenInv'
    BY <1>00, <2>2 DEF TempsInv, WrittenInv, Download!Whole
  <2>7. InstalledInv'
    BY <1>00, <2>2 DEF TempsInv, WrittenInv, InstalledInv, Download!Whole
  <2> QED
    BY <2>4, <2>5, <2>6, <2>7 DEF TempsInv
<1>12. ASSUME NEW c \in Fetchers, Download!Kill(c) PROVE TempsInv'
  BY <1>12, Fails DEF Download!Kill, Download!Goto, Download!Closed
<1>13. CASE Download!PowerCut
  <2>1. PICK gone \in SUBSET (Inodes \ synced) :
            data' = [i \in Inodes |-> IF i \in gone THEN {} ELSE data[i]]
    BY <1>13 DEF Download!PowerCut
  <2>2. /\ \A d \in Fetchers : open'[d] = None /\
                               downloadPc'[d] \notin {"create", "receive", "verify", "store", "rename"}
        /\ UNCHANGED <<dest, downloadPart, at, good, synced, by>>
    BY <1>13 DEF Download!PowerCut, Download!Running
  <2>3. AloneInv' /\ AtPathInv'
    BY <2>2 DEF TempsInv, AloneInv, AtPathInv
  <2>4. WrittenInv'
    BY <2>2 DEF WrittenInv
  <2>5. InstalledInv'
    BY <1>00, <2>1, <2>2 DEF TempsInv, InstalledInv, Download!Whole, Download!WentDark
  <2> QED
    BY <2>3, <2>4, <2>5 DEF TempsInv
<1> QED
  BY <1>1, <1>2, <1>3, <1>4, <1>5, <1>6, <1>7, <1>8, <1>9, <1>10, <1>11, <1>12, <1>13
  DEF Download!Next, Download!Step

LEMMA DownloadStep == DownloadInv /\ Download!Next => DownloadInv'
<1> SUFFICES ASSUME DownloadInv, Download!Next PROVE DownloadInv'
  OBVIOUS
<1>1. DownloadTypes'
  BY DownloadTypesStep DEF DownloadInv, DownloadTypes
<1>2. downloadKind' = downloadKind /\ (overlapped => overlapped')
  <2>1. /\ downloadKind' = downloadKind
        /\ overlapped' = overlapped \/ \E c \in Fetchers : \E i : Download!Opened(c, i)
    BY DEF Download!Next, Download!Step, Download!Refused, Download!Start, Download!Create,
           Download!Receive, Download!Garbled, Download!ReadFails, Download!Received,
           Download!Mismatch, Download!Match, Download!Store, Download!Rename,
           Download!Kill, Download!PowerCut
  <2>2. ASSUME overlapped, NEW c \in Fetchers, NEW i, Download!Opened(c, i) PROVE overlapped'
    <3>1. overlapped' = (overlapped \/ \E d \in Fetchers \ {c} : open[d] = i)
      BY <2>2 DEF Download!Opened
    <3> QED
      BY <2>2, <3>1, Zenon
  <2>3. overlapped /\ overlapped' = overlapped => overlapped'
    OBVIOUS
  <2> QED
    BY <2>1, <2>2, <2>3, Zenon
<1>3. Download!ThroughTemps' => Download!ThroughTemps
  BY <1>2 DEF Download!ThroughTemps
<1>4. Download!ThroughTemps' /\ ~overlapped' => TempsInv'
  BY <1>2, <1>3, TempsStep DEF DownloadInv, DownloadTypes
<1> QED
  BY <1>1, <1>4 DEF DownloadInv, DownloadTypes

LEMMA DownloadAgrees == DownloadInv => Download!TypeOK /\ Download!InstalledIsWhole
BY DEF DownloadInv, TempsInv, AloneInv, InstalledInv, Download!InstalledIsWhole

-----------------------------------------------------------------------------
(* Services and heavy commands (autosync.rs)                               *)

\* Without a service manager nothing is managed, with one nothing is started next to it;
\* what disable has stopped stays so until its pkill; and the lock names the one command
\* that runs.
ServiceInv ==
    /\ Service!TypeOK /\ systemd \in BOOLEAN
    /\ ~systemd => ~enabled
    /\ systemd => strays = 0
    /\ stopping /\ ~blunt => managed = "off"
    /\ disabled /\ ~blunt => managed = "off" /\ strays = 0
    /\ sweptLive \/ jobs = {} \/ jobs = {lock}

LEMMA ServiceStarts == Service!Init => ServiceInv
<1>1. MaxStrays \in Nat /\ MaxEvents \in Nat
  BY Assumptions DEF Service!ServicesAssumption
<1>2. 0 \in 0..MaxStrays /\ 0 \in 0..MaxEvents
  BY <1>1
<1> QED
  BY <1>2 DEF Service!Init, ServiceInv, Service!TypeOK

LEMMA ServiceStep == ServiceInv /\ Service!Next => ServiceInv'
<1> SUFFICES ASSUME ServiceInv, Service!Next PROVE ServiceInv'
  OBVIOUS
<1>0. None \notin Jobs /\ MaxStrays \in Nat /\ MaxEvents \in Nat
  BY Assumptions DEF Service!ServicesAssumption
<1>a. 0 \in 0..MaxStrays
  BY <1>0
<1> USE <1>0, <1>a DEF ServiceInv, Service!TypeOK, Service!Event
<1>1. CASE Service!Enable
  <2>1. Service!TypeOK'
    <3>1. {stopping', disabled', blunt', sweptLive'} \subseteq BOOLEAN
      BY <1>1 DEF Service!Enable
    <3>2. strays' \in 0..MaxStrays
      BY <1>1 DEF Service!Enable, Service!NoServiceManager
    <3>3. enabled' \in BOOLEAN /\ managed' \in {"off", "on", "wait"}
      BY <1>1 DEF Service!Enable
    <3>4. ~systemd' => managed' = "off"
      BY <1>1 DEF Service!Enable
    <3> QED
      BY <1>1, <3>1, <3>2, <3>3, <3>4 DEF Service!Enable
  <2> QED
    BY <1>1, <2>1 DEF Service!Enable, Service!NoServiceManager
<1>2. CASE Service!Disable
  BY <1>2 DEF Service!Disable
<1>3. CASE Service!DisableFails
  BY <1>3 DEF Service!DisableFails
<1>4. CASE Service!Pkill
  <2>1. Service!TypeOK'
    BY <1>4 DEF Service!Pkill, Service!Unkilled
  <2> QED
    BY <1>4, <2>1 DEF Service!Pkill, Service!Unkilled
<1>5. CASE Service!LoopFails
  BY <1>5 DEF Service!LoopFails, Service!AfterFailure
<1>6. CASE Service!Restart
  BY <1>6 DEF Service!Restart
<1>7. CASE Service!Boot
  <2>1. Service!TypeOK'
    <3>1. {stopping', disabled', blunt', sweptLive'} \subseteq BOOLEAN
      BY <1>7 DEF Service!Boot
    <3>2. enabled' \in BOOLEAN /\ strays' \in 0..MaxStrays /\ events' \in 0..MaxEvents
      BY <1>7 DEF Service!Boot
    <3>3. managed' \in {"off", "on", "wait"} /\ (~systemd' => managed' = "off")
      BY <1>7 DEF Service!Boot
    <3> QED
      BY <1>7, <3>1, <3>2, <3>3 DEF Service!Boot
  <2> QED
    BY <1>7, <2>1 DEF Service!Boot
<1>8. CASE Service!Freeze
  BY <1>8 DEF Service!Freeze
<1>9. ASSUME NEW j \in Jobs, Service!StartJob(j) PROVE ServiceInv'
  BY <1>9 DEF Service!StartJob, Service!Free
<1>10. ASSUME NEW j \in Jobs, Service!EndJob(j) PROVE ServiceInv'
  BY <1>10 DEF Service!EndJob
<1>11. CASE Service!Recover
  BY <1>11 DEF Service!Recover
<1>12. CASE Service!Killall
  <2>1. Service!TypeOK'
    BY <1>12 DEF Service!Killall, Service!AfterFailure
  <2> QED
    BY <1>12, <2>1 DEF Service!Killall, Service!AfterFailure
<1>13. CASE Service!KillallFails
  BY <1>13 DEF Service!KillallFails
<1>14. CASE Service!Sweep
  BY <1>14 DEF Service!Sweep
<1>15. CASE Service!RestartScreen
  BY <1>15 DEF Service!RestartScreen
<1> QED
  BY <1>1, <1>2, <1>3, <1>4, <1>5, <1>6, <1>7, <1>8, <1>9, <1>10, <1>11, <1>12, <1>13,
     <1>14, <1>15 DEF Service!Next

LEMMA ServiceAgrees ==
    ServiceInv => /\ Service!TypeOK /\ Service!SingleLoop
                  /\ Service!StaysDisabled /\ Service!JobsExclude
<1> SUFFICES ASSUME ServiceInv
             PROVE  Service!TypeOK /\ Service!SingleLoop /\ Service!StaysDisabled /\ Service!JobsExclude
  OBVIOUS
<1>1. Service!TypeOK /\ Service!SingleLoop /\ Service!StaysDisabled
  BY DEF ServiceInv, Service!TypeOK, Service!SingleLoop, Service!StaysDisabled
<1>2. Service!JobsExclude
  <2>0. Service!Cardinality(jobs) = Cardinality(jobs)
    BY DEF Cardinality, Service!Cardinality
  <2>1. CASE sweptLive
    BY <2>1 DEF Service!JobsExclude
  <2>2. CASE jobs = {}
    BY <2>0, <2>2, FS_EmptySet DEF Service!JobsExclude
  <2>3. CASE jobs = {lock}
    <3>1. Cardinality(jobs) = 1
      BY <2>3, FS_Singleton
    <3> QED
      BY <2>0, <3>1 DEF Service!JobsExclude
  <2> QED
    BY <2>1, <2>2, <2>3 DEF ServiceInv
<1> QED
  BY <1>1, <1>2


-----------------------------------------------------------------------------
(* The launcher (launcher.rs)                                              *)

\* What the process is at tells what the game is; sessions are noted in order, and the
\* present one is not finished before the launcher is done with it.
Noted == [kind : {"started", "finished"}, session : 1..MaxLaunches, code : Codes \union {0}]

LaunchTypes ==
    /\ Launch!TypeOK /\ outbox \in Seq(Noted)
    /\ launcher \in [at : {"idle", "begun", "noted", "norun", "wait", "ended"}, db : BOOLEAN]
    /\ launcher.at # "idle" => launchLaunches > 0
    /\ launcher.at \in {"begun", "noted", "norun"} => game.state = "none"
    /\ launcher.at = "ended" => game.state = "over"

RoomInv ==
    Len(outbox) <= 2 * launchLaunches - (CASE launcher.at = "idle"  -> 0
                                           [] launcher.at = "begun" -> 2
                                           [] OTHER                 -> 1)

OrderInv ==
    /\ \A i \in DOMAIN outbox :
          outbox[i].session <= launchLaunches - (IF launcher.at = "begun" THEN 1 ELSE 0)
    /\ \A i, j \in DOMAIN outbox : i < j =>
          /\ outbox[i].session <= outbox[j].session
          /\ outbox[i].kind = "finished" => outbox[i].session < outbox[j].session
    /\ \A i \in DOMAIN outbox :
          outbox[i].kind = "finished" /\ outbox[i].session = launchLaunches =>
              launcher.at = "idle" /\ game.state = "over" /\ outbox[i].code = game.code

LaunchInv == LaunchTypes /\ RoomInv /\ OrderInv

LEMMA LaunchStarts == Launch!Init => LaunchInv
BY Assumptions
DEF Launch!LauncherAssumption, Launch!Init, Launch!Idle, Launch!NoGame, LaunchInv,
    LaunchTypes, RoomInv, OrderInv, Noted, Launch!TypeOK

\* An event that is noted, or not, for want of the database.
LEMMA NotedIs ==
    ASSUME LaunchTypes, launchLaunches > 0, NEW k \in {"started", "finished"},
           NEW c \in Codes \union {0}, outbox' \in Launch!Noted(k, c)
    PROVE  /\ outbox' \in Seq(Noted)
           /\ outbox' = outbox \/
                 /\ Len(outbox') = Len(outbox) + 1
                 /\ \A i \in DOMAIN outbox : outbox'[i] = outbox[i]
                 /\ outbox'[Len(outbox) + 1] =
                        [kind |-> k, session |-> launchLaunches, code |-> c]
           /\ \A i \in DOMAIN outbox' : i \in DOMAIN outbox \/ i = Len(outbox) + 1
<1> DEFINE e == [kind |-> k, session |-> launchLaunches, code |-> c]
<1>1. outbox \in Seq(Noted) /\ launchLaunches \in 1..MaxLaunches
  BY Assumptions DEF Launch!LauncherAssumption, LaunchTypes, Launch!TypeOK
<1>2. e \in Noted
  BY <1>1 DEF Noted
<1>3. outbox' = outbox \/ outbox' = Append(outbox, e)
  BY DEF Launch!Noted, Launch!Event
<1> HIDE DEF e
<1>4. CASE outbox' = outbox
  BY <1>1, <1>4
<1>5. CASE outbox' = Append(outbox, e)
  BY <1>1, <1>2, <1>5 DEF e
<1> QED
  BY <1>3, <1>4, <1>5

\* What is noted is of the present launch, which has no end yet.
LEMMA OrderGrows ==
    ASSUME LaunchInv, launcher.at \in {"begun", "ended"}, launcher'.at # "begun",
           launchLaunches' = launchLaunches, game' = game, outbox' \in Seq(Noted),
           \A i \in DOMAIN outbox' : i \in DOMAIN outbox \/ i = Len(outbox) + 1,
           \A i \in DOMAIN outbox : outbox'[i] = outbox[i],
           outbox'[Len(outbox) + 1].session = launchLaunches,
           outbox'[Len(outbox) + 1].kind = "started" \/
               (/\ launcher.at = "ended" /\ launcher'.at = "idle"
                /\ outbox'[Len(outbox) + 1].code = game.code),
           launcher.at = "ended" \/ outbox'[Len(outbox) + 1].kind = "started"
    PROVE  OrderInv'
<1> DEFINE n == Len(outbox)
<1>1. n \in Nat /\ DOMAIN outbox = 1..n /\ launchLaunches \in Nat
  BY DEF LaunchInv, LaunchTypes, Launch!TypeOK
<1>2. \A i \in 1..n :
         /\ outbox[i].session \in Nat /\ outbox[i].session <= launchLaunches
         /\ outbox[i].kind = "finished" => outbox[i].session < launchLaunches
  <2>1. \A i \in 1..n : outbox[i] \in Noted
    BY <1>1 DEF LaunchInv, LaunchTypes
  <2>2. \A i \in 1..n : outbox[i].session \in Nat
    BY <2>1 DEF Noted
  <2>3. \A i \in 1..n :
           /\ outbox[i].session <= launchLaunches
           /\ outbox[i].kind = "finished" => outbox[i].session # launchLaunches
    BY <1>1, <2>2 DEF LaunchInv, OrderInv
  <2> QED
    BY <1>1, <2>2, <2>3
<1>3. \A i, j \in 1..n : i < j =>
         /\ outbox[i].session <= outbox[j].session
         /\ outbox[i].kind = "finished" => outbox[i].session < outbox[j].session
  BY <1>1 DEF LaunchInv, OrderInv
<1>4. launcher.at = "ended" => game.state = "over"
  BY DEF LaunchInv, LaunchTypes
<1> HIDE DEF n
<1>5. \A i \in DOMAIN outbox' : i \in 1..n \/ i = n + 1
  BY <1>1 DEF n
<1>6. /\ \A i \in 1..n : outbox'[i] = outbox[i]
      /\ outbox'[n + 1].session = launchLaunches
      /\ outbox'[n + 1].kind = "started" \/ (launcher'.at = "idle" /\ game.state = "over"
                                              /\ outbox'[n + 1].code = game.code)
  BY <1>1, <1>4 DEF n
<1>7. \A i \in DOMAIN outbox' :
         outbox'[i].session <= launchLaunches' - (IF launcher'.at = "begun" THEN 1 ELSE 0)
  BY <1>1, <1>2, <1>5, <1>6
<1>8. \A i, j \in DOMAIN outbox' : i < j =>
         /\ outbox'[i].session <= outbox'[j].session
         /\ outbox'[i].kind = "finished" => outbox'[i].session < outbox'[j].session
  BY <1>1, <1>2, <1>3, <1>5, <1>6
<1>9. \A i \in DOMAIN outbox' :
         outbox'[i].kind = "finished" /\ outbox'[i].session = launchLaunches' =>
             launcher'.at = "idle" /\ game'.state = "over" /\ outbox'[i].code = game'.code
  BY <1>1, <1>2, <1>5, <1>6
<1> QED
  BY <1>7, <1>8, <1>9 DEF OrderInv

LEMMA LaunchStep == LaunchInv /\ Launch!Next => LaunchInv'
<1> SUFFICES ASSUME LaunchInv, Launch!Next PROVE LaunchInv'
  OBVIOUS
<1>0. MaxLaunches \in Nat /\ Len(outbox) \in Nat /\ DOMAIN outbox = 1..Len(outbox)
  BY Assumptions DEF Launch!LauncherAssumption, LaunchInv, LaunchTypes
<1> USE <1>0 DEF LaunchInv, LaunchTypes, Launch!TypeOK
<1>1. CASE Launch!Begin
  <2>1. /\ launcher.at = "idle" /\ game.state # "running" /\ launchLaunches < MaxLaunches
        /\ launchLaunches' = launchLaunches + 1 /\ outbox' = outbox
        /\ game' = [state |-> "none", code |-> 0]
        /\ launcher' \in [at : {"begun"}, db : BOOLEAN]
    BY <1>1 DEF Launch!Begin, Launch!Anyway, Launch!NoGame
  <2>2. \A i \in DOMAIN outbox : outbox[i] \in Noted
    OBVIOUS
  <2>3. LaunchTypes'
    BY <2>1
  <2>4. RoomInv' /\ OrderInv'
    BY <2>1, <2>2 DEF RoomInv, OrderInv, Noted
  <2> QED
    BY <2>3, <2>4
<1>2. CASE Launch!NoteStart
  <2>1. /\ launcher.at = "begun" /\ game' = game /\ launchLaunches' = launchLaunches
        /\ launcher' = [launcher EXCEPT !.at = "noted"]
        /\ outbox' \in Launch!Noted("started", 0) /\ launchLaunches > 0
    BY <1>2 DEF Launch!NoteStart
  <2>2. /\ outbox' \in Seq(Noted)
        /\ outbox' = outbox \/
              /\ Len(outbox') = Len(outbox) + 1
              /\ \A i \in DOMAIN outbox : outbox'[i] = outbox[i]
              /\ outbox'[Len(outbox) + 1] =
                     [kind |-> "started", session |-> launchLaunches, code |-> 0]
        /\ \A i \in DOMAIN outbox' : i \in DOMAIN outbox \/ i = Len(outbox) + 1
    BY <2>1, NotedIs
  <2>3. \A i \in DOMAIN outbox : outbox[i] \in Noted
    OBVIOUS
  <2>4. RoomInv'
    BY <2>1, <2>2 DEF RoomInv
  <2>5. LaunchTypes'
    BY <2>1, <2>2, <2>4 DEF RoomInv
  <2>6. OrderInv'
    <3>1. CASE outbox' = outbox
      BY <2>1, <2>3, <3>1 DEF OrderInv, Noted
    <3>2. CASE outbox' # outbox
      <4>1. /\ Len(outbox') = Len(outbox) + 1
            /\ \A i \in DOMAIN outbox : outbox'[i] = outbox[i]
            /\ outbox'[Len(outbox) + 1].kind = "started"
            /\ outbox'[Len(outbox) + 1].session = launchLaunches
            /\ outbox'[Len(outbox) + 1].code = 0
        BY <2>2, <3>2
      <4> QED
        BY <2>1, <2>2, <4>1, OrderGrows
    <3> QED
      BY <3>1, <3>2
  <2> QED
    BY <2>4, <2>5, <2>6
<1>3. CASE Launch!CannotRun
  BY <1>3 DEF Launch!CannotRun, RoomInv, OrderInv
<1>4. CASE Launch!Spawn
  BY <1>4 DEF Launch!Spawn, RoomInv, OrderInv
<1>5. CASE Launch!Play
  BY <1>5 DEF Launch!Play, RoomInv, OrderInv
<1>6. CASE Launch!SeeEnd
  BY <1>6 DEF Launch!SeeEnd, Launch!Ended, RoomInv, OrderInv
<1>7. CASE Launch!NoteEnd
  <2>1. /\ launcher.at = "ended" /\ game' = game /\ launchLaunches' = launchLaunches
        /\ launcher' = [at |-> "idle", db |-> FALSE] /\ game.state = "over"
        /\ outbox' \in Launch!Noted("finished", game.code) /\ launchLaunches > 0
    BY <1>7 DEF Launch!NoteEnd, Launch!Idle
  <2>2. /\ outbox' \in Seq(Noted)
        /\ outbox' = outbox \/
              /\ Len(outbox') = Len(outbox) + 1
              /\ \A i \in DOMAIN outbox : outbox'[i] = outbox[i]
              /\ outbox'[Len(outbox) + 1] =
                     [kind |-> "finished", session |-> launchLaunches, code |-> game.code]
        /\ \A i \in DOMAIN outbox' : i \in DOMAIN outbox \/ i = Len(outbox) + 1
    BY <2>1, NotedIs
  <2>3. \A i \in DOMAIN outbox : outbox[i] \in Noted
    OBVIOUS
  <2>4. RoomInv'
    BY <2>1, <2>2 DEF RoomInv
  <2>5. LaunchTypes'
    BY <2>1, <2>2, <2>4 DEF RoomInv
  <2>6. OrderInv'
    <3>1. CASE outbox' = outbox
      BY <2>1, <2>3, <3>1 DEF OrderInv, Noted
    <3>2. CASE outbox' # outbox
      <4>1. /\ Len(outbox') = Len(outbox) + 1
            /\ \A i \in DOMAIN outbox : outbox'[i] = outbox[i]
            /\ outbox'[Len(outbox) + 1].kind = "finished"
            /\ outbox'[Len(outbox) + 1].session = launchLaunches
            /\ outbox'[Len(outbox) + 1].code = game.code
        BY <2>2, <3>2
      <4> QED
        BY <2>1, <2>2, <4>1, OrderGrows
    <3> QED
      BY <3>1, <3>2
  <2> QED
    BY <2>4, <2>5, <2>6
<1>8. CASE Launch!Leave
  BY <1>8 DEF Launch!Leave, Launch!Idle, RoomInv, OrderInv
<1>9. CASE Launch!Kill
  <2>1. RoomInv'
    BY <1>9 DEF Launch!Kill, Launch!Idle, RoomInv
  <2>2. LaunchTypes'
    BY <1>9 DEF Launch!Kill, Launch!Idle
  <2>3. \A i \in DOMAIN outbox : outbox[i] \in Noted
    OBVIOUS
  <2>4. OrderInv'
    BY <1>9, <2>3 DEF Launch!Kill, Launch!Idle, OrderInv, Noted
  <2> QED
    BY <2>1, <2>2, <2>4
<1> QED
  BY <1>1, <1>2, <1>3, <1>4, <1>5, <1>6, <1>7, <1>8, <1>9 DEF Launch!Next

LEMMA LaunchAgrees == LaunchInv => Launch!TypeOK /\ Launch!FinishedIsTrue
BY DEF LaunchInv, LaunchTypes, OrderInv, Launch!FinishedIsTrue


-----------------------------------------------------------------------------
(* The database schema (db.rs)                                             *)

\* A process that migrates has the earlier migrations, whole and recorded, and its own
\* statements so far, in the log; one that has the database open, all it knows of.
Migrates(p) ==
    stage[p] = "migrating" =>
        /\ version[p] <= Known[p] /\ schemaPart[p] \in 1..Parts[version[p]] + 1
        /\ \A v \in 1..version[p] - 1 : \A i \in 0..Parts[v] : Schema!Executed(v, i)
        /\ \A i \in 1..schemaPart[p] - 1 : Schema!Executed(version[p], i)

Knows(p) ==
    stage[p] = "open" =>
        \A v \in 1..Known[p] : \A i \in 1..Parts[v] : Schema!Executed(v, i)

SchemaInv ==
    /\ Schema!TypeOK /\ Schema!InOrder(log)
    /\ \A p \in Processes : Migrates(p) /\ Knows(p)

LEMMA SchemaNumbers ==
    /\ Len(Parts) \in Nat /\ DOMAIN Parts = 1..Len(Parts) /\ MaxCuts \in Nat
    /\ \A v \in 1..Len(Parts) : Parts[v] \in Nat
    /\ \A p \in Processes : Known[p] \in 0..Len(Parts)
BY Assumptions DEF Schema!MigrationsAssumption

Rows == UNION {Schema!Commits(v) : v \in 1..Len(Parts)}

LEMMA LogIs == Schema!TypeOK => log \in Seq(Rows)
BY SchemaNumbers DEF Schema!TypeOK, Schema!Versions, Rows

\* What is committed before a commit, and in both directions.
LEMMA BeforeIs ==
    ASSUME NEW v, NEW i
    PROVE  \A d : d \in Schema!Before(<<v, i>>) <=>
               \/ \E w \in 1..v - 1 : d \in Schema!Commits(w)
               \/ i = 0 /\ d \in Schema!Commits(v) /\ d # <<v, i>>
<1> DEFINE c == <<v, i>>
<1>1. c[1] = v /\ c[2] = i
  OBVIOUS
<1> HIDE DEF c
<1>2. \A d : d \in Schema!Before(c) <=>
            \/ \E w \in 1..v - 1 : d \in Schema!Commits(w)
            \/ i = 0 /\ d \in Schema!Commits(v) /\ d # c
  BY <1>1 DEF Schema!Before, Schema!Recorded
<1> QED
  BY <1>2 DEF c

LEMMA BeforeHas ==
    ASSUME NEW v \in 1..Len(Parts), NEW i \in 0..Parts[v]
    PROVE  /\ \A w \in 1..v - 1 : \A j \in 0..Parts[w] : <<w, j>> \in Schema!Before(<<v, i>>)
           /\ i = 0 => \A j \in 1..Parts[v] : <<v, j>> \in Schema!Before(<<v, i>>)
<1> USE SchemaNumbers
<1>1. ASSUME NEW w \in 1..v - 1, NEW j \in 0..Parts[w]
      PROVE  <<w, j>> \in Schema!Before(<<v, i>>)
  <2>1. <<w, j>> \in Schema!Commits(w)
    BY DEF Schema!Commits
  <2> QED
    BY <2>1, BeforeIs
<1>2. ASSUME i = 0, NEW j \in 1..Parts[v] PROVE <<v, j>> \in Schema!Before(<<v, i>>)
  <2>1. <<v, j>> \in Schema!Commits(v) /\ <<v, j>> # <<v, i>>
    BY <1>2 DEF Schema!Commits
  <2> QED
    BY <1>2, <2>1, BeforeIs
<1> QED
  BY <1>1, <1>2

LEMMA BeforeOnly ==
    ASSUME NEW v \in 1..Len(Parts), NEW i \in 0..Parts[v], NEW c \in Schema!Before(<<v, i>>)
    PROVE  \/ \E w \in 1..v - 1 : \E j \in 0..Parts[w] : c = <<w, j>>
           \/ i = 0 /\ \E j \in 1..Parts[v] : c = <<v, j>>
<1> USE SchemaNumbers
<1>1. CASE \E w \in 1..v - 1 : c \in Schema!Commits(w)
  BY <1>1 DEF Schema!Commits
<1>2. CASE i = 0 /\ c \in Schema!Commits(v) /\ c # <<v, i>>
  BY <1>2 DEF Schema!Commits
<1> QED
  BY <1>1, <1>2, BeforeIs

\* Of some numbers up to n one is the greatest.
LEMMA GreatestNumber ==
    ASSUME NEW n \in Nat, NEW S \in SUBSET (1..n), S # {}
    PROVE  \E m \in S : \A k \in S : k <= m
<1> DEFINE T == {n - k : k \in S}
<1>1. T \subseteq Nat /\ T # {}
  <2>1. \A k \in S : n - k \in Nat
    OBVIOUS
  <2>2. PICK k \in S : TRUE
    OBVIOUS
  <2>3. n - k \in T
    OBVIOUS
  <2> QED
    BY <2>1, <2>3
<1>2. PICK d \in T : \A e \in T : ~ (<<e, d>> \in OpToRel(<, Nat))
  BY <1>1, NatLessThanWellFounded, WFMin
<1>3. PICK m \in S : d = n - m
  OBVIOUS
<1>4. ASSUME NEW k \in S PROVE k <= m
  <2>1. n - k \in T /\ n - k \in Nat /\ d \in Nat
    BY <1>1
  <2>2. n - k < d => <<n - k, d>> \in OpToRel(<, Nat)
    BY <2>1 DEF OpToRel
  <2>3. ~ (n - k < d)
    BY <1>2, <2>1, <2>2, Zenon
  <2> QED
    BY <1>3, <2>1, <2>3
<1> QED
  BY <1>4

\* Of the newest migration that is recorded, and all before it, the log has everything.
LEMMA CurrentIs ==
    ASSUME SchemaInv
    PROVE  /\ Schema!Current \in 0..Len(Parts)
           /\ \A v \in 1..Schema!Current : \A i \in 0..Parts[v] : Schema!Executed(v, i)
<1> USE SchemaNumbers
<1> DEFINE recorded == {v \in Schema!Versions : Schema!Executed(v, Schema!Recorded)}
<1>1. recorded \subseteq 1..Len(Parts)
  BY DEF Schema!Versions
<1>2. CASE recorded = {}
  <2>1. Schema!Current = 0
    BY <1>2 DEF Schema!Current
  <2> QED
    BY <2>1
<1>3. CASE recorded # {}
  <2>1. \E m \in recorded : \A w \in recorded : w <= m
    BY <1>1, <1>3, GreatestNumber
  <2>2. Schema!Current \in recorded
    <3>1. Schema!Current = CHOOSE m \in recorded : \A w \in recorded : w <= m
      BY <1>3 DEF Schema!Current
    <3> QED
      BY <2>1, <3>1
  <2> DEFINE c == Schema!Current
  <2>3. c \in 1..Len(Parts) /\ Schema!Executed(c, 0)
    BY <1>1, <2>2 DEF Schema!Recorded
  <2> HIDE DEF c
  <2>4. PICK k \in DOMAIN log : log[k] = <<c, 0>>
    BY <2>3 DEF Schema!Executed, Schema!Range
  <2>5. \A b \in Schema!Before(<<c, 0>>) : \E j \in 1..k - 1 : log[j] = b
    BY <2>4 DEF SchemaInv, Schema!InOrder
  <2>6. \A j \in 1..k - 1 : j \in DOMAIN log
    BY <2>4, LogIs DEF SchemaInv
  <2>7. \A b \in Schema!Before(<<c, 0>>) : b \in Schema!Range(log)
    BY <2>5, <2>6 DEF Schema!Range
  <2>8. ASSUME NEW v \in 1..c, NEW i \in 0..Parts[v] PROVE Schema!Executed(v, i)
    <3>1. CASE v = c /\ i = 0
      BY <2>3, <3>1
    <3>2. CASE v < c \/ i # 0
      <4>1. 0 \in 0..Parts[c]
        BY <2>3
      <4>2. <<v, i>> \in Schema!Before(<<c, 0>>)
        BY <2>3, <3>2, <4>1, BeforeHas
      <4> QED
        BY <2>7, <4>2 DEF Schema!Executed
    <3> QED
      BY <2>3, <3>1, <3>2
  <2> QED
    BY <2>3, <2>8 DEF c
<1> QED
  BY <1>2, <1>3

\* A commit that is due and new leaves the log without a gap.
LEMMA LogGrows ==
    ASSUME SchemaInv, NEW v \in 1..Len(Parts), NEW i \in 0..Parts[v],
           ~Schema!Executed(v, i), log' = Append(log, <<v, i>>),
           \A w \in 1..v - 1 : \A j \in 0..Parts[w] : Schema!Executed(w, j),
           i = 0 => \A j \in 1..Parts[v] : Schema!Executed(v, j)
    PROVE  /\ log' \in Seq(Rows) /\ Schema!IsInjective(log') /\ Schema!InOrder(log')
           /\ Len(log') = Len(log) + 1
           /\ Schema!Executed(v, i)'
           /\ \A w, j : Schema!Executed(w, j) => Schema!Executed(w, j)'
<1> USE SchemaNumbers
<1>1. log \in Seq(Rows) /\ <<v, i>> \in Rows
  BY LogIs DEF SchemaInv, Rows, Schema!Commits
<1>2. /\ log' \in Seq(Rows) /\ Len(log') = Len(log) + 1
      /\ \A k \in 1..Len(log) : log'[k] = log[k]
      /\ log'[Len(log) + 1] = <<v, i>>
      /\ DOMAIN log = 1..Len(log) /\ DOMAIN log' = 1..Len(log) + 1 /\ Len(log) \in Nat
  BY <1>1
<1>3. Schema!Executed(v, i)'
  <2>1. Len(log) + 1 \in DOMAIN log'
    BY <1>2
  <2> QED
    BY <1>2, <2>1 DEF Schema!Executed, Schema!Range
<1>4. \A w, j : Schema!Executed(w, j) => Schema!Executed(w, j)'
  BY <1>2 DEF Schema!Executed, Schema!Range
<1>5. Schema!IsInjective(log')
  <2>1. \A k \in 1..Len(log) : log[k] # <<v, i>>
    BY <1>2 DEF Schema!Executed, Schema!Range
  <2>2. \A a, b \in 1..Len(log) : log[a] = log[b] => a = b
    BY <1>2 DEF SchemaInv, Schema!TypeOK, Schema!IsInjective
  <2> QED
    BY <1>2, <2>1, <2>2 DEF Schema!IsInjective
<1>6. Schema!InOrder(log')
  <2>1. ASSUME NEW k \in 1..Len(log), NEW c \in Schema!Before(log'[k])
        PROVE  \E j \in 1..k - 1 : log'[j] = c
    <3>1. PICK j \in 1..k - 1 : log[j] = c
      BY <1>2, <2>1 DEF SchemaInv, Schema!InOrder
    <3> QED
      BY <1>2, <3>1
  <2>2. ASSUME NEW c \in Schema!Before(<<v, i>>)
        PROVE  \E j \in 1..Len(log) : log'[j] = c
    <3>1. c \in Schema!Range(log)
      BY <2>2, BeforeOnly DEF Schema!Executed
    <3> QED
      BY <1>2, <3>1 DEF Schema!Range
  <2>3. ASSUME NEW k \in DOMAIN log', NEW c \in Schema!Before(log'[k])
        PROVE  \E j \in 1..k - 1 : log'[j] = c
    <3>1. CASE k \in 1..Len(log)
      BY <2>1, <3>1
    <3>2. CASE k = Len(log) + 1
      <4>1. k - 1 = Len(log) /\ log'[k] = <<v, i>>
        BY <1>2, <3>2
      <4> QED
        BY <2>2, <2>3, <4>1
    <3> QED
      BY <1>2, <3>1, <3>2
  <2> QED
    BY <2>3 DEF Schema!InOrder
<1> QED
  BY <1>2, <1>3, <1>4, <1>5, <1>6

LEMMA SchemaStarts == Schema!Init => SchemaInv
<1> SUFFICES ASSUME Schema!Init PROVE SchemaInv
  OBVIOUS
<1> USE SchemaNumbers DEF Schema!Init
<1>1. log \in Seq(UNION {Schema!Commits(v) : v \in Schema!Versions}) /\ Schema!IsInjective(log)
      /\ Schema!InOrder(log)
  BY Assumptions DEF Schema!MigrationsAssumption
<1>2. flushed \in 0..Len(log)
  BY <1>1
<1>3. 1 \in 1..Len(Parts) + 1 /\ 0 \in 0..MaxCuts
  OBVIOUS
<1>4. Schema!TypeOK
  BY <1>1, <1>2, <1>3 DEF Schema!TypeOK
<1> QED
  BY <1>1, <1>4 DEF SchemaInv, Migrates, Knows

\* A process that goes to a migration which is due starts it, or has the database open.
LEMMA GoesOn ==
    ASSUME SchemaInv, NEW p \in Processes, NEW v \in 1..Len(Parts) + 1, Schema!Goes(p, v),
           log' \in Seq(Rows), Schema!IsInjective(log'), Schema!InOrder(log'),
           flushed' = flushed, Len(log) <= Len(log'), schemaFaults' \in 0..MaxCuts,
           \A w \in 1..v - 1 : \A i \in 0..Parts[w] : Schema!Executed(w, i)',
           \A w, i : Schema!Executed(w, i) => Schema!Executed(w, i)'
    PROVE  SchemaInv'
<1> USE SchemaNumbers
<1>1. /\ version' = [version EXCEPT ![p] = v]
      /\ schemaPart' = [schemaPart EXCEPT ![p] = 1]
      /\ stage' = [stage EXCEPT ![p] = IF v > Known[p] THEN "open" ELSE "migrating"]
  BY DEF Schema!Goes
<1>2. Schema!TypeOK'
  <2>1. flushed' \in 0..Len(log')
    BY LogIs DEF SchemaInv, Schema!TypeOK
  <2> QED
    BY <1>1, <2>1 DEF SchemaInv, Schema!TypeOK, Schema!Versions, Rows
<1>3. ASSUME NEW q \in Processes, q # p PROVE Migrates(q)' /\ Knows(q)'
  <2>1. stage'[q] = stage[q] /\ version'[q] = version[q] /\ schemaPart'[q] = schemaPart[q]
    BY <1>1, <1>3 DEF SchemaInv, Schema!TypeOK
  <2>2. Migrates(q) /\ Knows(q)
    BY DEF SchemaInv
  <2> QED
    BY <2>1, <2>2 DEF Migrates, Knows
<1>4. Migrates(p)' /\ Knows(p)'
  <2>1. version'[p] = v /\ schemaPart'[p] = 1
        /\ stage'[p] = IF v > Known[p] THEN "open" ELSE "migrating"
    BY <1>1 DEF SchemaInv, Schema!TypeOK
  <2>2. CASE v > Known[p]
    <3>1. \A w \in 1..Known[p] : w \in 1..v - 1 /\ \A i \in 1..Parts[w] : i \in 0..Parts[w]
      BY <2>2
    <3> QED
      BY <2>1, <2>2, <3>1 DEF Migrates, Knows
  <2>3. CASE v <= Known[p]
    <3>1. 1 \in 1..Parts[v] + 1 /\ 1..1 - 1 = {}
      BY <2>3
    <3> QED
      BY <2>1, <2>3, <3>1 DEF Migrates, Knows
  <2> QED
    BY <2>2, <2>3
<1> QED
  BY <1>2, <1>3, <1>4 DEF SchemaInv, Schema!TypeOK, Schema!Versions, Rows

\* A process that is stopped, wherever it is, leaves the others and the log alone.
LEMMA Stops ==
    ASSUME SchemaInv, NEW p \in Processes, NEW t \in {"closed", "refused"},
           stage' = [stage EXCEPT ![p] = t], schemaFaults' \in 0..MaxCuts,
           UNCHANGED <<log, flushed, version, schemaPart>>
    PROVE  SchemaInv'
<1>1. \A q \in Processes : q # p => stage'[q] = stage[q]
  BY DEF SchemaInv, Schema!TypeOK
<1>2. stage'[p] = t
  BY DEF SchemaInv, Schema!TypeOK
<1>3. \A q \in Processes : Migrates(q)' /\ Knows(q)'
  BY <1>1, <1>2 DEF SchemaInv, Migrates, Knows, Schema!Executed
<1>4. Schema!TypeOK'
  BY DEF SchemaInv, Schema!TypeOK
<1> QED
  BY <1>3, <1>4 DEF SchemaInv, Schema!InOrder

LEMMA SchemaStep == SchemaInv /\ Schema!Next => SchemaInv'
<1> SUFFICES ASSUME SchemaInv, Schema!Next PROVE SchemaInv'
  OBVIOUS
<1> USE SchemaNumbers
<1>0. log \in Seq(Rows) /\ Schema!IsInjective(log) /\ Schema!InOrder(log)
      /\ Len(log) \in Nat /\ DOMAIN log = 1..Len(log) /\ schemaFaults \in 0..MaxCuts
  BY LogIs DEF SchemaInv, Schema!TypeOK
<1>1. ASSUME NEW p \in Processes, Schema!Open(p) PROVE SchemaInv'
  <2>1. Schema!Goes(p, Schema!Current + 1) /\ UNCHANGED <<log, flushed, schemaFaults>>
    BY <1>1 DEF Schema!Open, Schema!After
  <2>6. PICK c, v : c = Schema!Current /\ v = c + 1
    OBVIOUS
  <2>2. c \in 0..Len(Parts) /\ \A w \in 1..c : \A i \in 0..Parts[w] : Schema!Executed(w, i)
    BY <2>6, CurrentIs
  <2>5. v - 1 = c /\ v \in 1..Len(Parts) + 1
    BY <2>2, <2>6
  <2>3. v \in 1..Len(Parts) + 1 /\ Schema!Goes(p, v)
        /\ \A w \in 1..v - 1 : \A i \in 0..Parts[w] : Schema!Executed(w, i)
    BY <2>1, <2>2, <2>5, <2>6
  <2>4. \A w, i : Schema!Executed(w, i)' = Schema!Executed(w, i)
    BY <2>1 DEF Schema!Executed
  <2> QED
    BY <1>0, <2>1, <2>3, <2>4, GoesOn
<1>2. ASSUME NEW p \in Processes, Schema!OpenBlind(p) PROVE SchemaInv'
  <2>1. Schema!Goes(p, 1) /\ UNCHANGED <<log, flushed>> /\ schemaFaults' \in 0..MaxCuts
    BY <1>0, <1>2 DEF Schema!OpenBlind, Schema!After
  <2>2. 1 \in 1..Len(Parts) + 1 /\ 1..1 - 1 = {}
    OBVIOUS
  <2>3. \A w, i : Schema!Executed(w, i)' = Schema!Executed(w, i)
    BY <2>1 DEF Schema!Executed
  <2> QED
    BY <1>0, <2>1, <2>2, <2>3, GoesOn
<1>3. ASSUME NEW p \in Processes, Schema!Execute(p) PROVE SchemaInv'
  <2>8. PICK v, i : v = version[p] /\ i = schemaPart[p]
    OBVIOUS
  <2>1. /\ stage[p] = "migrating" /\ ~ (i > Parts[v])
        /\ log' = IF Schema!Executed(v, i) THEN log ELSE Append(log, <<v, i>>)
        /\ schemaPart' = [schemaPart EXCEPT ![p] = @ + 1]
        /\ UNCHANGED <<flushed, stage, version, schemaFaults>>
    BY <1>3, <2>8 DEF Schema!Execute, Schema!Done, Schema!Commit
  <2>2. /\ v \in 1..Len(Parts) /\ v <= Known[p] /\ i \in 1..Parts[v] + 1
        /\ \A w \in 1..v - 1 : \A j \in 0..Parts[w] : Schema!Executed(w, j)
        /\ \A j \in 1..i - 1 : Schema!Executed(v, j)
    BY <2>1, <2>8 DEF SchemaInv, Schema!TypeOK, Migrates
  <2>3. /\ schemaPart'[p] = i + 1 /\ schemaPart' \in [Processes -> Nat]
        /\ \A q \in Processes : q # p => schemaPart'[q] = schemaPart[q]
    BY <2>1, <2>8 DEF SchemaInv, Schema!TypeOK
  <2>4. i \in 0..Parts[v] /\ i # 0
    BY <2>1, <2>2
  <2>5. /\ log' \in Seq(Rows) /\ Schema!IsInjective(log') /\ Schema!InOrder(log')
        /\ Len(log) <= Len(log')
        /\ Schema!Executed(v, i)'
        /\ \A w, j : Schema!Executed(w, j) => Schema!Executed(w, j)'
    <3>1. CASE Schema!Executed(v, i)
      <4>1. log' = log
        BY <2>1, <3>1
      <4>2. Schema!InOrder(log') /\ Schema!IsInjective(log')
        BY <1>0, <4>1, Zenon
      <4>3. \A w, j : Schema!Executed(w, j)' <=> Schema!Executed(w, j)
        BY <4>1 DEF Schema!Executed
      <4> QED
        BY <1>0, <3>1, <4>1, <4>2, <4>3
    <3>2. CASE ~Schema!Executed(v, i)
      <4>1. log' = Append(log, <<v, i>>)
        BY <2>1, <3>2
      <4>2. i = 0 => \A j \in 1..Parts[v] : Schema!Executed(v, j)
        BY <2>4
      <4>3. /\ log' \in Seq(Rows) /\ Schema!IsInjective(log') /\ Schema!InOrder(log')
            /\ Len(log') = Len(log) + 1
            /\ Schema!Executed(v, i)'
            /\ \A w, j : Schema!Executed(w, j) => Schema!Executed(w, j)'
        BY <2>2, <2>4, <3>2, <4>1, <4>2, LogGrows
      <4> QED
        BY <1>0, <4>3
    <3> QED
      BY <3>1, <3>2
  <2>6. Schema!TypeOK'
    <3>1. flushed' \in 0..Len(log')
      BY <1>0, <2>1, <2>5 DEF SchemaInv, Schema!TypeOK
    <3> QED
      BY <2>1, <2>3, <2>5, <3>1 DEF SchemaInv, Schema!TypeOK, Schema!Versions, Rows
  <2>7. ASSUME NEW q \in Processes PROVE Migrates(q)' /\ Knows(q)'
    <3>1. Migrates(q) /\ Knows(q) /\ stage'[q] = stage[q] /\ version'[q] = version[q]
      BY <2>1 DEF SchemaInv
    <3>2. CASE q # p
      BY <2>3, <2>5, <3>1, <3>2 DEF Migrates, Knows
    <3>3. CASE q = p
      <4>0. i + 1 - 1 = i /\ \A j \in 1..i : j = i \/ j \in 1..i - 1
        BY <2>2
      <4>1. \A j \in 1..i + 1 - 1 : Schema!Executed(v, j)'
        BY <2>2, <2>5, <4>0
      <4>2. i + 1 \in 1..Parts[v] + 1 /\ version'[p] = v
        BY <2>2, <2>4, <2>8, <3>1, <3>3
      <4> QED
        <5>1. /\ stage'[p] = "migrating" /\ version'[p] = v /\ schemaPart'[p] = i + 1
          BY <2>1, <2>3, <3>1, <3>3, <4>2
        <5>2. \A w \in 1..v - 1 : \A j \in 0..Parts[w] : Schema!Executed(w, j)'
          BY <2>2, <2>5
        <5> QED
          BY <2>2, <3>3, <4>1, <4>2, <5>1, <5>2 DEF Migrates, Knows
    <3> QED
      BY <3>2, <3>3
  <2> QED
    BY <2>5, <2>6, <2>7 DEF SchemaInv
<1>4. ASSUME NEW p \in Processes, Schema!Record(p) PROVE SchemaInv'
  <2>8. PICK v : v = version[p]
    OBVIOUS
  <2>1. /\ stage[p] = "migrating" /\ schemaPart[p] > Parts[v] /\ ~Schema!Executed(v, 0)
        /\ log' = Append(log, <<v, 0>>) /\ Schema!Goes(p, v + 1)
        /\ UNCHANGED <<flushed, schemaFaults>>
    BY <1>4, <2>8 DEF Schema!Record, Schema!Done, Schema!Commit, Schema!Recorded
  <2>2. /\ v \in 1..Len(Parts) /\ schemaPart[p] \in 1..Parts[v] + 1
        /\ \A w \in 1..v - 1 : \A j \in 0..Parts[w] : Schema!Executed(w, j)
        /\ \A j \in 1..schemaPart[p] - 1 : Schema!Executed(v, j)
    BY <2>1, <2>8 DEF SchemaInv, Schema!TypeOK, Migrates
  <2>3. 0 \in 0..Parts[v] /\ \A j \in 1..Parts[v] : Schema!Executed(v, j)
    BY <2>1, <2>2
  <2>4. /\ log' \in Seq(Rows) /\ Schema!IsInjective(log') /\ Schema!InOrder(log')
        /\ Len(log') = Len(log) + 1
        /\ Schema!Executed(v, 0)'
        /\ \A w, j : Schema!Executed(w, j) => Schema!Executed(w, j)'
    BY <2>1, <2>2, <2>3, LogGrows DEF Schema!Recorded
  <2>5. \A w \in 1..v : \A j \in 0..Parts[w] : Schema!Executed(w, j)'
    <3> SUFFICES ASSUME NEW w \in 1..v, NEW j \in 0..Parts[w] PROVE Schema!Executed(w, j)'
      OBVIOUS
    <3>1. CASE w # v
      BY <2>2, <2>4, <3>1
    <3>2. CASE w = v /\ j # 0
      BY <2>3, <2>4, <3>2
    <3>3. CASE w = v /\ j = 0
      BY <2>4, <3>3
    <3> QED
      BY <3>1, <3>2, <3>3, Zenon
  <2>6. v + 1 \in 1..Len(Parts) + 1 /\ v + 1 - 1 = v
    BY <2>2
  <2>7. Len(log) <= Len(log') /\ schemaFaults' \in 0..MaxCuts /\ flushed' = flushed
    BY <1>0, <2>1, <2>4
  <2>9. PICK u : u = v + 1
    OBVIOUS
  <2>10. u \in 1..Len(Parts) + 1 /\ Schema!Goes(p, u)
         /\ \A w \in 1..u - 1 : \A j \in 0..Parts[w] : Schema!Executed(w, j)'
    <3>1. u - 1 = v /\ u \in 1..Len(Parts) + 1
      BY <2>2, <2>6, <2>9
    <3>2. Schema!Goes(p, u)
      BY <2>1, <2>9, Zenon
    <3> QED
      BY <2>5, <3>1, <3>2, Zenon
  <2> QED
    BY <2>4, <2>7, <2>10, GoesOn
<1>5. ASSUME NEW p \in Processes, Schema!Refused(p) PROVE SchemaInv'
  BY <1>0, <1>5, Stops DEF Schema!Refused
<1>6. ASSUME NEW p \in Processes, Schema!Close(p) PROVE SchemaInv'
  BY <1>0, <1>6, Stops DEF Schema!Close
<1>7. ASSUME NEW p \in Processes, Schema!Kill(p) PROVE SchemaInv'
  <2>1. schemaFaults' \in 0..MaxCuts
    BY <1>0, <1>7 DEF Schema!Kill
  <2> QED
    BY <1>7, <2>1, Stops DEF Schema!Kill
<1>8. CASE Schema!Flush
  <2>1. flushed' \in 0..Len(log') /\ UNCHANGED <<log, stage, version, schemaPart, schemaFaults>>
    BY <1>0, <1>8 DEF Schema!Flush
  <2> QED
    BY <2>1 DEF SchemaInv, Schema!TypeOK, Schema!InOrder, Migrates, Knows, Schema!Executed
<1>9. CASE Schema!PowerCut
  <2>1. PICK n \in flushed..Len(log) : log' = SubSeq(log, 1, n) /\ flushed' = n
    BY <1>9 DEF Schema!PowerCut
  <2>2. n \in 0..Len(log)
    BY <1>0, <2>1 DEF SchemaInv, Schema!TypeOK
  <2>3. /\ log' \in Seq(Rows) /\ Len(log') = n /\ DOMAIN log' = 1..n
        /\ \A k \in 1..n : log'[k] = log[k]
    BY <1>0, <2>1, <2>2
  <2>4. Schema!IsInjective(log')
    BY <1>0, <2>2, <2>3 DEF Schema!IsInjective
  <2>5. Schema!InOrder(log')
    <3> SUFFICES ASSUME NEW k \in 1..n, NEW c \in Schema!Before(log'[k])
                 PROVE  \E j \in 1..k - 1 : log'[j] = c
      BY <2>3 DEF Schema!InOrder
    <3>1. PICK j \in 1..k - 1 : log[j] = c
      BY <1>0, <2>2, <2>3 DEF Schema!InOrder
    <3> QED
      BY <2>2, <2>3, <3>1
  <2>6. /\ stage' = [p \in Processes |-> "closed"] /\ schemaFaults' \in 0..MaxCuts
        /\ UNCHANGED <<version, schemaPart>>
    BY <1>0, <1>9 DEF Schema!PowerCut
  <2>7. Schema!TypeOK'
    BY <2>1, <2>2, <2>3, <2>4, <2>6 DEF SchemaInv, Schema!TypeOK, Schema!Versions, Rows
  <2> QED
    BY <2>5, <2>6, <2>7 DEF SchemaInv, Migrates, Knows
<1> QED
  BY <1>1, <1>2, <1>3, <1>4, <1>5, <1>6, <1>7, <1>8, <1>9 DEF Schema!Next, Schema!Step

LEMMA SchemaAgrees == SchemaInv => Schema!TypeOK /\ Schema!SchemaIsWhole
BY DEF SchemaInv, Knows, Schema!SchemaIsWhole

-----------------------------------------------------------------------------
(* All of them                                                             *)

JobsInv ==
    /\ which = "restore" => RestoreInv
    /\ which = "compress" => CompressInv
    /\ which = "downloads" => DownloadInv
    /\ which = "services" => ServiceInv
    /\ which = "launcher" => LaunchInv
    /\ which = "schema" => SchemaInv

LEMMA JobsStart == AllInit => JobsInv
BY RestoreStarts, CompressStarts, DownloadStarts, ServiceStarts, LaunchStarts, SchemaStarts
DEF AllInit, JobsInv

LEMMA JobsStep ==
    ASSUME JobsInv, [AllNext]_all
    PROVE  JobsInv'
<1>1. CASE which = "restore"
  <2>1. CASE Restore!Next /\ which' = which
    BY <1>1, <2>1, RestoreStep DEF JobsInv
  <2>2. CASE UNCHANGED <<which, RestoreVars>>
    <3>1. RestoreInv
      BY <1>1 DEF JobsInv
    <3>2. RestoreInv'
      BY <2>2, <3>1 DEF RestoreVars, RestoreInv,
         Restore!TypeOK, Restore!Files
    <3> QED
      BY <1>1, <2>2, <3>2 DEF JobsInv
  <2> QED
    BY <1>1, <2>1, <2>2 DEF AllNext, OnlyThis, all
<1>2. CASE which = "compress"
  <2>1. CASE Compress!Next /\ which' = which
    BY <1>2, <2>1, CompressStep DEF JobsInv
  <2>2. CASE UNCHANGED <<which, CompressVars>>
    <3>1. CompressInv
      BY <1>2 DEF JobsInv
    <3>2. CompressInv'
      BY <2>2, <3>1 DEF CompressVars, CompressInv,
         Compress!TypeOK
    <3> QED
      BY <1>2, <2>2, <3>2 DEF JobsInv
  <2> QED
    BY <1>2, <2>1, <2>2 DEF AllNext, OnlyThis, all
<1>3. CASE which = "downloads"
  <2>1. CASE Download!Next /\ which' = which
    BY <1>3, <2>1, DownloadStep DEF JobsInv
  <2>2. CASE UNCHANGED <<which, DownloadVars>>
    <3>1. DownloadInv
      BY <1>3 DEF JobsInv
    <3>2. DownloadInv'
      BY <2>2, <3>1 DEF DownloadVars, DownloadInv,
         Download!TypeOK, KindsInv, TempsInv, AloneInv, AtPathInv, WrittenInv, InstalledInv,
         Download!Running, Download!ThroughTemps, Download!Whole, Download!WentDark,
         Download!PartOf
    <3> QED
      BY <1>3, <2>2, <3>2 DEF JobsInv
  <2> QED
    BY <1>3, <2>1, <2>2 DEF AllNext, OnlyThis, all
<1>4. CASE which = "services"
  <2>1. CASE Service!Next /\ which' = which
    BY <1>4, <2>1, ServiceStep DEF JobsInv
  <2>2. CASE UNCHANGED <<which, ServiceVars>>
    <3>1. ServiceInv
      BY <1>4 DEF JobsInv
    <3>2. ServiceInv'
      BY <2>2, <3>1 DEF ServiceVars, ServiceInv,
         Service!TypeOK
    <3> QED
      BY <1>4, <2>2, <3>2 DEF JobsInv
  <2> QED
    BY <1>4, <2>1, <2>2 DEF AllNext, OnlyThis, all
<1>5. CASE which = "launcher"
  <2>1. CASE Launch!Next /\ which' = which
    BY <1>5, <2>1, LaunchStep DEF JobsInv
  <2>2. CASE UNCHANGED <<which, LaunchVars>>
    <3>1. LaunchInv
      BY <1>5 DEF JobsInv
    <3>2. LaunchTypes' /\ RoomInv' /\ OrderInv'
      <4>1. LaunchTypes'
        BY <2>2, <3>1 DEF LaunchVars, LaunchInv, LaunchTypes, Launch!TypeOK
      <4>2. RoomInv'
        BY <2>2, <3>1 DEF LaunchVars, LaunchInv, RoomInv
      <4>3. OrderInv'
        BY <2>2, <3>1 DEF LaunchVars, LaunchInv, OrderInv
      <4> QED
        BY <4>1, <4>2, <4>3
    <3> QED
      BY <1>5, <2>2, <3>2 DEF JobsInv, LaunchInv
  <2> QED
    BY <1>5, <2>1, <2>2 DEF AllNext, OnlyThis, all
<1>6. CASE which = "schema"
  <2>1. CASE Schema!Next /\ which' = which
    BY <1>6, <2>1, SchemaStep DEF JobsInv
  <2>2. CASE UNCHANGED <<which, SchemaVars>>
    <3>1. SchemaInv
      BY <1>6 DEF JobsInv
    <3>2. SchemaInv'
      BY <2>2, <3>1 DEF SchemaVars, SchemaInv,
         Schema!TypeOK, Schema!InOrder, Migrates, Knows, Schema!Executed
    <3> QED
      BY <1>6, <2>2, <3>2 DEF JobsInv
  <2> QED
    BY <1>6, <2>1, <2>2 DEF AllNext, OnlyThis, all
<1>7. CASE which \notin {"restore", "compress", "downloads", "services", "launcher", "schema"}
  <2>1. which' = which
    BY DEF AllNext, OnlyThis, all
  <2> QED
    BY <1>7, <2>1 DEF JobsInv
<1> QED
  BY <1>1, <1>2, <1>3, <1>4, <1>5, <1>6, <1>7

\* What a command leaves in its place is whole.  restore.rs: the archive is gone only when
\* every file no fault fell into was restored.  download.rs, darkos-firmware and
\* darkos-update: as long as no two commands had one temporary file open, what a command
\* that checks a checksum put at the destination is whole, and nobody writes to it any
\* more; db.rs: whoever has the database open finds every table its binary knows of.
THEOREM JobsLeaveWhole == AllSpec => []WholeInPlace
<1>1. JobsInv /\ [AllNext]_all => JobsInv'
  BY JobsStep
<1>2. JobsInv => WholeInPlace
  BY RestoreAgrees, DownloadAgrees, SchemaAgrees DEF JobsInv, CompressInv, WholeInPlace
<1> QED
  BY <1>1, <1>2, JobsStart, PTL DEF AllSpec

\* What runs is what should.  autosync.rs, under systemd: never two run loops, none after
\* disable, and two heavy commands together only after recover swept a live lock.
\* launcher.rs: a finished event tells, once, how a game ended that is over.
THEOREM JobsRunAlone == AllSpec => []ProcessesAgree
<1>1. JobsInv /\ [AllNext]_all => JobsInv'
  BY JobsStep
<1>2. JobsInv => ProcessesAgree
  BY ServiceAgrees, LaunchAgrees DEF JobsInv, ProcessesAgree
<1> QED
  BY <1>1, <1>2, JobsStart, PTL DEF AllSpec

\* compress.rs: no step of a conversion, failed or killed, loses what the card holds of a
\* ROM, be it in its own files or in its target.
THEOREM CompressLosesNoRom == AllSpec => NoRomLost
<1>1. JobsInv /\ [AllNext]_all => JobsInv'
  BY JobsStep
<1>2. JobsInv /\ [AllNext]_all => [which = "compress" => Compress!NoRomLost]_all
  BY CompressStep DEF JobsInv, AllNext
<1> QED
  BY <1>1, <1>2, JobsStart, PTL DEF AllSpec, NoRomLost
=============================================================================
