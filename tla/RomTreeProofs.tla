--------------------------- MODULE RomTreeProofs ---------------------------
(***************************************************************************)
(* Proofs about RomTree, for any card, any archives and any number of      *)
(* faults.                                                                 *)
(***************************************************************************)
EXTENDS RomTree, WellFoundedInduction, TLAPS

(***************************************************************************)
(* The inductive invariant.  While an archive is unpacked, what is packed  *)
(* in it is followed content by content: it is still to come, or it is     *)
(* somewhere else on the card, or it is lost in a way NothingLost names.   *)
(* The archive itself must not be counted, for it is removed at the end.   *)
(***************************************************************************)

\* Names come with contents, and no path has two files.
FilesInv ==
    /\ \A f \in files : f.name = NameOf[f.what]
    /\ \A f, g \in files : PathOf(f) = PathOf(g) => f = g

\* One archive at a time; in temp is what came out of it.
ExtractInv ==
    /\ epc \in {"idle", "next"} => archive = {}
    /\ epc # "unpack" => packed = {}
    /\ epc \in {"next", "unpack", "remove"} => queue = {}
    /\ epc \in {"next", "remove"} => In(temp) = {}
    /\ \A f \in todo \union archive : f.dir = Inbox
    /\ \A f \in queue : f.dir = temp
    /\ \A a \in archive : a.what \in Archives
    /\ epc = "unpack" => \E a \in files :
          /\ archive = {a} /\ a.whole /\ packed \subseteq Holds[a.what]
          /\ \A f \in In(temp) :
                f.what \in Holds[a.what] \ packed /\ f.dup = SubOf[f.what]

\* The repair moves ROMs, to their folder.
RepairInv ==
    /\ \A p \in plan : Known(p.name) /\ Home(p.dir) \notin Elsewhere
    /\ \/ source = {} /\ target = {}
       \/ \E s, t \in Paths :
             /\ source = {s} /\ target = {t} /\ s.name = t.name
             /\ Known(s.name) /\ Home(s.dir) \notin Elsewhere /\ t.dir \in Folders

\* The junk of the cleaning's list is junk, and it has at most one script in its hands.
CleanInv ==
    /\ \A p \in junk : p.name \in JunkNames
    /\ \A p \in scripts :
          /\ Home(p.dir) = Ports /\ p.name \notin JunkNames
          /\ \A f \in At(p) : f.what \in DOMAIN Unix /\ (cpc # "write" => f.whole)
    /\ \A f, g \in files :
          /\ ~f.whole /\ ~g.whole /\ {PathOf(f), PathOf(g)} \subseteq scripts
          => PathOf(f) = PathOf(g)

Gone(c) == c \in replaced \union dropped \union crossed \union cut \union swept

\* c is whole outside of the archive that is being unpacked.
Out(c) == \E f \in files \ archive : f.whole /\ c \in Inner(f.what)

\* c is still to be unpacked.
ToCome(c) == \E a \in archive \intersect files, d \in packed : a.whole /\ c \in Inner(d)

\* c has been rewritten without carriage returns, or is just being.
Cleaned(c) ==
    /\ c \in DOMAIN Unix
    /\ \E f \in files : Home(f.dir) \in Elsewhere /\ f.whole /\ f.what = Unix[c]

Held(c) ==
    cpc = "write" /\ \E f \in files : ~f.whole /\ f.what = c /\ PathOf(f) \in scripts

Somewhere(c) == Gone(c) \/ Out(c) \/ ToCome(c) \/ Cleaned(c) \/ Held(c)

IInv ==
    /\ TypeOK /\ FilesInv /\ ExtractInv /\ RepairInv /\ CleanInv
    /\ \A c \in owned : Somewhere(c)

-----------------------------------------------------------------------------
(* The operators the model is built from *)

\* Numbers have a least one among them.
LEMMA LeastNumber ==
    ASSUME NEW S \in SUBSET Nat, S # {}
    PROVE  \E k \in S : \A j \in S : k <= j
<1>1. PICK k \in S : \A j \in S : ~ (<<j, k>> \in OpToRel(<, Nat))
  BY NatLessThanWellFounded, WFMin
<1>2. ASSUME NEW j \in S PROVE k <= j
  <2>1. j < k => <<j, k>> \in OpToRel(<, Nat)
    BY DEF OpToRel
  <2>2. ~ (j < k)
    BY <1>1, <2>1, Zenon
  <2> QED
    BY <2>2
<1> QED
  BY <1>2

\* ext_to_folder has a folder for what it knows.
LEMMA FolderOfKnown ==
    ASSUME NEW name, Known(name)
    PROVE  FolderOf(name) \in Folders
<1> DEFINE Listing == {i \in DOMAIN Systems : ExtOf[name] \in Systems[i].exts}
<1>1. Listing \in SUBSET Nat /\ Listing # {}
  BY DirsAssumption DEF Known
<1>2. \E i \in Listing : \A j \in Listing : i <= j
  BY <1>1, LeastNumber
<1> QED
  BY <1>2 DEF FolderOf, Folders

\* collision_safe keeps the name and the folder, and finds a free name when there is one.
LEMMA CollisionSafeIs ==
    ASSUME NEW p \in Paths, p.dup = 0
    PROVE  LET q == CollisionSafe(p) IN
           /\ q \in Paths /\ q.name = p.name /\ q.dir = p.dir
           /\ (\E k \in 0..MaxDup : ~Present([p EXCEPT !.dup = k])) => ~Present(q)
<1> DEFINE free == {k \in 0..MaxDup : ~Present([p EXCEPT !.dup = k])}
<1>1. CASE free = {}
  <2>1. CollisionSafe(p) = p
    BY <1>1 DEF CollisionSafe
  <2> QED
    BY <1>1, <2>1
<1>2. CASE free # {}
  <2>1. free \in SUBSET Nat
    OBVIOUS
  <2>2. \E k \in free : \A j \in free : k <= j
    BY <1>2, <2>1, LeastNumber
  <2> DEFINE k == CHOOSE i \in free : \A j \in free : i <= j
  <2>3. k \in free
    BY <2>2
  <2>4. CollisionSafe(p) = [p EXCEPT !.dup = k]
    BY <1>2 DEF CollisionSafe
  <2> HIDE DEF k
  <2> QED
    BY <2>3, <2>4 DEF Paths
<1> QED
  BY <1>1, <1>2

\* A file under another path is the same file.
LEMMA MovedIs ==
    ASSUME NEW f \in Files, NEW p \in Paths
    PROVE  /\ Moved(f, p) \in Files /\ PathOf(Moved(f, p)) = p
           /\ Moved(f, p).dir = p.dir /\ Moved(f, p).name = p.name
           /\ Moved(f, p).what = f.what /\ Moved(f, p).whole = f.whole
BY DEF Files, Paths, Moved, PathOf, Path

\* Paths are made of the parts of a file's name.
LEMMA PathsAre ==
    ASSUME NEW f \in Files
    PROVE  /\ PathOf(f) \in Paths
           /\ PathOf(f).dir = f.dir /\ PathOf(f).name = f.name /\ PathOf(f).dup = f.dup
           /\ f.dir \in Dirs /\ f.name \in Names /\ f.dup \in 0..MaxDup
           /\ f.what \in Contents /\ f.whole \in BOOLEAN
BY DEF Files, Paths, PathOf, Path

\* What is packed in an archive, and in what is not one.
LEMMA InnerIs ==
    /\ \A c \in Contents : Inner(c) \subseteq Contents /\ c \in Inner(c)
    /\ \A c \in Contents \ Archives : Inner(c) = {c}
    /\ \A a \in Archives : \A d \in Holds[a] : Inner(d) \subseteq Inner(a)
    /\ \A a \in Archives : \A c \in Inner(a) : c = a \/ \E d \in Holds[a] : c \in Inner(d)
<1>1. \A c \in Contents : Holds[c] \subseteq Contents
  BY FilesAssumption
<1>2. ASSUME NEW c \in Contents PROVE Inner(c) \subseteq Contents /\ c \in Inner(c)
  BY <1>1 DEF Inner
<1>3. ASSUME NEW c \in Contents \ Archives PROVE Inner(c) = {c}
  BY DEF Inner, Archives
<1>4. ASSUME NEW a \in Archives, NEW d \in Holds[a] PROVE Inner(d) \subseteq Inner(a)
  <2>1. \A e \in Holds[d] : Holds[e] = {}
    BY ContentsAssumption
  <2> QED
    BY <2>1 DEF Inner
<1>5. ASSUME NEW a \in Archives, NEW c \in Inner(a), c # a
      PROVE  \E d \in Holds[a] : c \in Inner(d)
  BY <1>5 DEF Inner
<1> QED
  BY <1>2, <1>3, <1>4, <1>5

\* Only archives hold what is not themselves; a ROM or a script in a file that has no
\* archive's name is the file.
LEMMA NoArchive ==
    ASSUME TypeOK, FilesInv, NEW f \in files, NEW c \in Goods, c \in Inner(f.what),
           Known(f.name) \/ f.name \in Junk \union JunkNames \/ f.what \in DOMAIN Unix
    PROVE  /\ c = f.what /\ f.what \notin Archives
           /\ f.name \notin Junk \union JunkNames
<1>1. f.what \in Contents /\ f.name = NameOf[f.what]
  BY PathsAre DEF TypeOK, FilesInv
<1>2. f.what \notin Archives
  BY <1>1, ContentsAssumption
<1> QED
  BY <1>1, <1>2, InnerIs DEF Goods

\* A directory with a junk name counts for the folder it is in, any other for itself.
LEMMA HomeIs ==
    /\ \A d \in Folders \union {Inbox} \union Temps : Home(d) = d /\ Home(d) \notin Elsewhere
    /\ \A d \in Elsewhere : Home(d) = d
    /\ \A d \in Aside :
          /\ d \in Dirs /\ Home(d) = Quarantine
          /\ d \notin Folders \union {Inbox} \union Elsewhere \union Temps
    /\ Ports \in Elsewhere /\ Quarantine \in Elsewhere /\ Ports # Quarantine
BY DirsAssumption DEF Home, Dirs

\* A file is in one heap, which is a directory of its own or one in temp.
LEMMA HeapIs ==
    ASSUME NEW f \in files, NEW h \in Heaps, f \in Inside(h)
    PROVE  f.dir \in JunkDirs \union Temps /\ f.dir # Inbox /\ f.dir = h[1]
           /\ \A g \in Inside(h) : g.dir = f.dir
BY DirsAssumption DEF Heaps, Inside, Heap

-----------------------------------------------------------------------------
(* What a step does to the files *)

\* One file comes to a path nobody else has.
LEMMA OneComes ==
    ASSUME files \subseteq Files, FilesInv, NEW g \in Files, g.name = NameOf[g.what],
           files' \subseteq files \union {g},
           \A f \in files' : PathOf(f) = PathOf(g) => f = g
    PROVE  files' \subseteq Files /\ FilesInv'
BY DEF FilesInv

\* What routing does: f is the only file at its new path.
LEMMA RouteIs ==
    ASSUME files \subseteq Files, FilesInv, NEW f \in files, Known(f.name)
    PROVE  /\ Target(f) \in Paths /\ Target(f).name = f.name /\ Target(f).dir \in Folders
           /\ Moved(f, Target(f)) \in Files /\ PathOf(Moved(f, Target(f))) = Target(f)
           /\ Moved(f, Target(f)).dir \in Folders
           /\ Moved(f, Target(f)).name = NameOf[f.what]
           /\ Moved(f, Target(f)).what = f.what /\ Moved(f, Target(f)).whole = f.whole
<1>1. FolderOf(f.name) \in Folders /\ f.name \in Names
  BY FolderOfKnown, PathsAre
<1>2. Target(f) \in Paths /\ Target(f).name = f.name /\ Target(f).dir \in Folders
  BY <1>1, FilesAssumption DEF Target, Path, Paths, Dirs
<1> QED
  BY <1>2, MovedIs DEF FilesInv

\* What is unpacked has a path of its own.
LEMMA UnpackedIs ==
    ASSUME TypeOK, FilesInv, ExtractInv, epc = "unpack", NEW c \in packed, ~InTheWay(c),
           NEW whole \in BOOLEAN
    PROVE  /\ Unpacked(c, whole) \in Files /\ Unpacked(c, whole).name = NameOf[c]
           /\ Unpacked(c, whole).what = c /\ Unpacked(c, whole).whole = whole
           /\ \/ Unpacked(c, whole).dir = Inbox
              \/ Unpacked(c, whole).dir = temp /\ Unpacked(c, whole).dup = SubOf[c]
           /\ ~Present(PathOf(Unpacked(c, whole)))
<1>1. PICK a \in files :
          /\ archive = {a} /\ a.whole /\ packed \subseteq Holds[a.what]
          /\ \A f \in In(temp) :
                f.what \in Holds[a.what] \ packed /\ f.dup = SubOf[f.what]
  BY DEF ExtractInv
<1>2. c \in Contents /\ NameOf[c] \in Names /\ SubOf[c] \in 0..MaxDup /\ 0 \in 0..MaxDup
  BY ContentsAssumption, FilesAssumption DEF TypeOK, Names
<1>3. temp \in Dirs /\ Inbox \in Dirs /\ temp # Inbox
  BY DirsAssumption DEF TypeOK, Dirs
<1>4. CASE archive \subseteq {f \in files : f.what \in Bare}
  <2>1. Unpacked(c, whole) = [dir |-> Inbox, name |-> NameOf[c], dup |-> 0, what |-> c, whole |-> whole]
    BY <1>4 DEF Unpacked, Path
  <2>2. ~Present(Path(Inbox, NameOf[c], 0))
    BY <1>4 DEF InTheWay
  <2> QED
    BY <1>2, <1>3, <2>1, <2>2 DEF Files, PathOf, Path
<1>5. CASE ~(archive \subseteq {f \in files : f.what \in Bare})
  <2>1. Unpacked(c, whole) = [dir |-> temp, name |-> NameOf[c], dup |-> SubOf[c], what |-> c, whole |-> whole]
    BY <1>5 DEF Unpacked, Path
  <2>2. a.what \in Archives
    BY <1>1, PathsAre DEF TypeOK, Archives
  <2>3. ASSUME NEW f \in files, PathOf(f) = Path(temp, NameOf[c], SubOf[c]) PROVE FALSE
    <3>1. f.dir = temp /\ f.name = NameOf[c] /\ f.dup = SubOf[c] /\ f.name = NameOf[f.what]
      BY <2>3 DEF PathOf, Path, FilesInv
    <3>2. f.what \in Holds[a.what] \ packed /\ f.dup = SubOf[f.what] /\ c \in Holds[a.what]
      BY <1>1, <3>1 DEF In
    <3>3. \A d, e \in Holds[a.what] : NameOf[d] = NameOf[e] /\ SubOf[d] = SubOf[e] => d = e
      BY <2>2, ContentsAssumption
    <3> QED
      BY <3>1, <3>2, <3>3
  <2>4. PathOf(Unpacked(c, whole)) = Path(temp, NameOf[c], SubOf[c])
    BY <2>1 DEF PathOf, Path
  <2>5. ~Present(PathOf(Unpacked(c, whole)))
    BY <2>3, <2>4 DEF Present, At
  <2> QED
    BY <1>2, <1>3, <2>1, <2>5 DEF Files
<1> QED
  BY <1>4, <1>5

\* Two sets of files that agree on what no ROM is routed to or from.
SameElsewhere == \A f : Home(f.dir) \in Elsewhere => (f \in files <=> f \in files')

\* Extraction keeps names and paths, and does nothing in those folders.
LEMMA ExtractFiles ==
    ASSUME TypeOK, FilesInv, ExtractInv, ExtractNext
    PROVE  files' \subseteq Files /\ FilesInv' /\ SameElsewhere
<1>1. /\ files \subseteq Files /\ temp \in Temps
      /\ \A d \in Folders \union {Inbox, temp} : Home(d) \notin Elsewhere
  BY HomeIs DEF TypeOK
<1>2. CASE files' \subseteq files /\ \A f \in files \ files' : Home(f.dir) \notin Elsewhere
  BY <1>1, <1>2 DEF FilesInv, SameElsewhere
<1>3. ASSUME NEW f \in files, Known(f.name), Home(f.dir) \notin Elsewhere, files' = Renamed(f, Target(f))
      PROVE  files' \subseteq Files /\ FilesInv' /\ SameElsewhere
  <2> DEFINE g == Moved(f, Target(f))
  <2>1. /\ g \in Files /\ g.name = NameOf[g.what] /\ PathOf(g) = Target(f)
        /\ g.dir \in Folders /\ Target(f).dir \in Folders
    BY <1>1, <1>3, RouteIs
  <2>2. files' = (files \ ({f} \union At(Target(f)))) \union {g}
    BY <1>3 DEF Renamed
  <2> HIDE DEF g
  <2>3. \A h \in files' : PathOf(h) = PathOf(g) => h = g
    BY <2>1, <2>2 DEF At
  <2>4. \A h \in At(Target(f)) : h.dir \in Folders
    BY <1>1, <2>1, PathsAre DEF At
  <2> QED
    BY <1>1, <1>3, <2>1, <2>2, <2>3, <2>4, OneComes DEF SameElsewhere
<1>4. ASSUME NEW c \in packed, NEW whole \in BOOLEAN, epc = "unpack", ~InTheWay(c),
             files' = files \union {Unpacked(c, whole)}
      PROVE  files' \subseteq Files /\ FilesInv' /\ SameElsewhere
  <2> DEFINE g == Unpacked(c, whole)
  <2>1. /\ g \in Files /\ g.name = NameOf[g.what] /\ g.dir \in {Inbox, temp}
        /\ ~Present(PathOf(g))
    BY <1>4, UnpackedIs
  <2> HIDE DEF g
  <2>2. files' = files \union {g} /\ \A h \in files' : PathOf(h) = PathOf(g) => h = g
    BY <1>4, <2>1 DEF g, Present, At
  <2> QED
    BY <1>1, <2>1, <2>2, OneComes DEF SameElsewhere
<1>5. CASE ExtractBegin \/ Walk \/ ExtractEnd
  BY <1>2, <1>5 DEF ExtractBegin, Walk, ExtractEnd
<1>6. ASSUME NEW f \in todo, RouteLoose(f) \/ Open(f)
      PROVE  files' \subseteq Files /\ FilesInv' /\ SameElsewhere
  <2>1. Home(f.dir) \notin Elsewhere
    BY <1>1 DEF ExtractInv
  <2> QED
    BY <1>2, <1>3, <1>6, <2>1 DEF RouteLoose, Open
<1>7. ASSUME NEW c \in packed, Unpack(c)
      PROVE  files' \subseteq Files /\ FilesInv' /\ SameElsewhere
  BY <1>4, <1>7 DEF Unpack
<1>8. ASSUME NEW c \in packed, ToolFails(c)
      PROVE  files' \subseteq Files /\ FilesInv' /\ SameElsewhere
  BY <1>1, <1>2, <1>8 DEF ToolFails, In
<1>9. ASSUME NEW f \in queue, Route(f)
      PROVE  files' \subseteq Files /\ FilesInv' /\ SameElsewhere
  <2>1. Home(f.dir) \notin Elsewhere
    BY <1>1 DEF ExtractInv
  <2> QED
    BY <1>2, <1>3, <1>9, <2>1 DEF Route
<1>10. ASSUME NEW f \in queue, CopyFails(f)
       PROVE  files' \subseteq Files /\ FilesInv' /\ SameElsewhere
  <2> DEFINE g == [Moved(f, Target(f)) EXCEPT !.whole = FALSE]
  <2>1. f \in files /\ Known(f.name) /\ Home(f.dir) \notin Elsewhere
    BY <1>1, <1>10 DEF CopyFails, ExtractInv
  <2>2. /\ Moved(f, Target(f)) \in Files /\ PathOf(Moved(f, Target(f))) = Target(f)
        /\ Moved(f, Target(f)).name = NameOf[Moved(f, Target(f)).what]
        /\ Moved(f, Target(f)).dir \in Folders /\ Target(f).dir \in Folders
    BY <1>1, <2>1, RouteIs
  <2>3. g \in Files /\ g.name = NameOf[g.what] /\ PathOf(g) = Target(f) /\ g.dir \in Folders
    BY <2>2 DEF Files, PathOf
  <2>4. files' = (files \ ({f} \union At(Target(f)))) \union {g}
    BY <1>10 DEF CopyFails
  <2> HIDE DEF g
  <2>5. \A h \in files' : PathOf(h) = PathOf(g) => h = g
    BY <2>3, <2>4 DEF At
  <2>6. \A h \in At(Target(f)) : h.dir \in Folders
    BY <1>1, <2>2, PathsAre DEF At
  <2> QED
    BY <1>1, <2>1, <2>3, <2>4, <2>5, <2>6, OneComes DEF SameElsewhere
<1>11. CASE RemoveTemp
  BY <1>1, <1>2, <1>11 DEF RemoveTemp, In
<1>12. CASE RemoveArchive
  BY <1>1, <1>2, <1>12 DEF RemoveArchive, ExtractInv
<1>13. CASE ExtractKill
  <2>1. packed # {} => epc = "unpack"
    BY DEF ExtractInv
  <2> QED
    BY <1>2, <1>4, <1>13, <2>1 DEF ExtractKill
<1> QED
  BY <1>5, <1>6, <1>7, <1>8, <1>9, <1>10, <1>11, <1>12, <1>13 DEF ExtractNext, ExtractStep

\* What the repair moves, when it moves something.
LEMMA RepairMoves ==
    ASSUME TypeOK, FilesInv, RepairInv, RepairMove, files' # files
    PROVE  \E f \in files, t \in Paths, g \in Files :
             /\ target = {t} /\ t.name = f.name /\ t.dir \in Folders
             /\ Known(f.name) /\ Home(f.dir) \notin Elsewhere
             /\ PathOf(g) = t /\ g.dir = t.dir /\ g.name = NameOf[g.what]
             /\ g.what = f.what /\ g.whole = f.whole
             /\ files' = (files \ ({f} \union At(t))) \union {g}
             /\ crossed' = crossed \union {h.what : h \in {i \in At(t) : i.whole}}
<1>1. /\ source # {}
      /\ LET from == UNION {At(p) : p \in source}
             there == UNION {At(p) : p \in target}
         IN  /\ from # {}
             /\ files' = (files \ (from \union there)) \union
                            {Moved(f, p) : f \in from, p \in target}
             /\ crossed' = crossed \union {f.what : f \in {g \in there : g.whole}}
  BY DEF RepairMove
<1>2. PICK s, t \in Paths :
             /\ source = {s} /\ target = {t} /\ s.name = t.name
             /\ Known(s.name) /\ Home(s.dir) \notin Elsewhere /\ t.dir \in Folders
  BY <1>1 DEF RepairInv
<1>3. UNION {At(p) : p \in source} = At(s) /\ UNION {At(p) : p \in target} = At(t)
  BY <1>2
<1>4. PICK f \in At(s) : TRUE
  BY <1>1, <1>3
<1>5. f \in files /\ f \in Files /\ PathOf(f) = s /\ At(s) = {f}
  BY <1>4 DEF At, FilesInv, TypeOK
<1>6. {Moved(h, p) : h \in At(s), p \in target} = {Moved(f, t)}
  BY <1>2, <1>5
<1>7. /\ files' = (files \ ({f} \union At(t))) \union {Moved(f, t)}
      /\ crossed' = crossed \union {h.what : h \in {i \in At(t) : i.whole}}
  BY <1>1, <1>3, <1>5, <1>6
<1>8. f.name = s.name /\ f.dir = s.dir /\ f.name = NameOf[f.what]
  BY <1>5, PathsAre DEF FilesInv
<1>9. /\ Moved(f, t) \in Files /\ PathOf(Moved(f, t)) = t /\ Moved(f, t).dir = t.dir
      /\ Moved(f, t).name = NameOf[Moved(f, t).what]
      /\ Moved(f, t).what = f.what /\ Moved(f, t).whole = f.whole
  BY <1>2, <1>5, <1>8, MovedIs
<1> QED
  BY <1>2, <1>5, <1>7, <1>8, <1>9, Zenon

\* The repair keeps names and paths, and does nothing in those folders.
LEMMA RepairFiles ==
    ASSUME TypeOK, FilesInv, RepairInv, RepairNext
    PROVE  files' \subseteq Files /\ FilesInv' /\ SameElsewhere
<1>1. files \subseteq Files /\ \A d \in Folders : Home(d) \notin Elsewhere
  BY HomeIs DEF TypeOK
<1>2. CASE files' = files
  BY <1>1, <1>2 DEF FilesInv, SameElsewhere
<1>3. CASE RepairMove /\ files' # files
  <2>1. PICK f \in files, t \in Paths, g \in Files :
             /\ target = {t} /\ t.name = f.name /\ t.dir \in Folders
             /\ Known(f.name) /\ Home(f.dir) \notin Elsewhere
             /\ PathOf(g) = t /\ g.dir = t.dir /\ g.name = NameOf[g.what]
             /\ g.what = f.what /\ g.whole = f.whole
             /\ files' = (files \ ({f} \union At(t))) \union {g}
             /\ crossed' = crossed \union {h.what : h \in {i \in At(t) : i.whole}}
    BY <1>3, RepairMoves
  <2>2. /\ g \in Files /\ PathOf(g) = t /\ g.dir \in Folders /\ g.name = NameOf[g.what]
        /\ files' = (files \ ({f} \union At(t))) \union {g} /\ Home(f.dir) \notin Elsewhere
    BY <1>1, <2>1
  <2>3. \A h \in files' : PathOf(h) = PathOf(g) => h = g
    BY <2>2 DEF At
  <2>4. \A h \in At(t) : h.dir \in Folders
    BY <1>1, <2>1, PathsAre DEF At
  <2> QED
    BY <1>1, <2>2, <2>3, <2>4, OneComes DEF SameElsewhere
<1> QED
  BY <1>2, <1>3 DEF RepairNext, RepairPlan, RepairCheck, RepairEnd, RepairKill

\* A script that is taken or given back stays where it is.
LEMMA ScriptIs ==
    ASSUME TypeOK, FilesInv, CleanInv, NEW p \in scripts, Present(p)
    PROVE  \E f \in files :
             /\ At(p) = {f} /\ PathOf(f) = p /\ Home(f.dir) = Ports
             /\ f.what \in DOMAIN Unix /\ (cpc # "write" => f.whole)
             /\ [f EXCEPT !.whole = FALSE] \in Files
             /\ PathOf([f EXCEPT !.whole = FALSE]) = p
             /\ Converted(f) \in Files /\ PathOf(Converted(f)) = p
             /\ Converted(f).name = NameOf[Converted(f).what]
             /\ Converted(f).what = Unix[f.what] /\ Converted(f).whole
             /\ Converted(f).dir = f.dir /\ [f EXCEPT !.whole = FALSE].dir = f.dir
<1>1. PICK f \in files : PathOf(f) = p
  BY DEF Present, At
<1>2. At(p) = {f}
  BY <1>1 DEF FilesInv, At
<1>3. f \in Files /\ Home(f.dir) = Ports /\ f.what \in DOMAIN Unix /\ (cpc # "write" => f.whole)
  BY <1>1, <1>2, PathsAre DEF CleanInv, TypeOK
<1>4. Unix[f.what] \in Contents /\ NameOf[Unix[f.what]] = NameOf[f.what]
  BY <1>3, ContentsAssumption
<1>5. /\ [f EXCEPT !.whole = FALSE] \in Files
      /\ PathOf([f EXCEPT !.whole = FALSE]) = PathOf(f)
      /\ [f EXCEPT !.whole = FALSE].dir = f.dir
  BY <1>3 DEF Files, PathOf
<1>6. /\ Converted(f) \in Files /\ PathOf(Converted(f)) = PathOf(f)
      /\ Converted(f).what = Unix[f.what] /\ Converted(f).whole
      /\ Converted(f).dir = f.dir /\ Converted(f).name = f.name
  BY <1>3, <1>4 DEF Converted, Files, PathOf
<1> QED
  BY <1>1, <1>2, <1>3, <1>4, <1>5, <1>6 DEF FilesInv

\* What the cleaning does to junk.
LEMMA JunkGoes ==
    ASSUME TypeOK, FilesInv, CleanInv, NEW p \in junk, RemoveJunk(p)
    PROVE  /\ files' \subseteq Files /\ FilesInv'
           /\ \A f \in files \ files' : f.name \in JunkNames
           /\ \A f \in files' \ files : f.name \in JunkNames /\ f.dir = Quarantine
<1>1. p \in Paths /\ p.name \in JunkNames /\ files \subseteq Files
  BY DEF TypeOK, CleanInv
<1>2. \A f \in At(p) : f \in files /\ f.name \in JunkNames
  BY <1>1, PathsAre DEF At
<1>3. CASE files' = files \ At(p)
  BY <1>1, <1>2, <1>3 DEF FilesInv
<1>4. CASE At(p) = {} /\ files' # files \ At(p)
  BY <1>4 DEF RemoveJunk, Present
<1>5. ASSUME NEW f \in At(p), files' # files \ At(p)
      PROVE  /\ files' \subseteq Files /\ FilesInv'
             /\ \A h \in files \ files' : h.name \in JunkNames
             /\ \A h \in files' \ files : h.name \in JunkNames /\ h.dir = Quarantine
  <2> DEFINE q == [p EXCEPT !.dir = Quarantine]
             g == [f EXCEPT !.dir = Quarantine]
  <2>1. At(p) = {f} /\ f \in Files /\ PathOf(f) = p /\ f.name = NameOf[f.what]
    BY <1>1, <1>5 DEF At, FilesInv
  <2>2. files' = (files \ (At(p) \union At(q))) \union {g}
    BY <1>5, <2>1 DEF RemoveJunk, Present
  <2>3. Quarantine \in Dirs
    BY DirsAssumption DEF Dirs
  <2>4. /\ g \in Files /\ g.name = f.name /\ g.what = f.what /\ g.dir = Quarantine
        /\ PathOf(g) = q
    BY <2>1, <2>3 DEF Files, PathOf, Path
  <2>5. q.name \in JunkNames
    BY <1>1 DEF Paths
  <2> HIDE DEF q, g
  <2>6. \A h \in At(q) : h.name \in JunkNames
    BY <1>1, <2>5, PathsAre DEF At
  <2>7. \A h \in files' : PathOf(h) = PathOf(g) => h = g
    BY <2>2, <2>4 DEF At
  <2> QED
    BY <1>1, <1>2, <1>5, <2>1, <2>2, <2>4, <2>6, <2>7, OneComes
<1> QED
  BY <1>3, <1>4, <1>5

\* A file that is set aside comes to a directory of the quarantine, and is the same file.
LEMMA AsideIs ==
    ASSUME NEW f \in Files, NEW d \in Dirs
    PROVE  LET g == [f EXCEPT !.dir = d] IN
           /\ g \in Files /\ g.dir = d /\ g.name = f.name /\ g.dup = f.dup
           /\ g.what = f.what /\ g.whole = f.whole /\ PathOf(g) = Path(d, f.name, f.dup)
BY DEF Files, PathOf, Path

HeapGoes(h) ==
    \/ \E f \in Inside(h) : Sweep(h, f)
    \/ \E d \in Aside : SetAside(h, d)
    \/ HeapDone(h)

\* What the cleaning does to a directory with a junk name.
LEMMA HeapGoesIs ==
    ASSUME TypeOK, FilesInv, NEW h \in heaps, HeapGoes(h)
    PROVE  /\ files' \subseteq Files /\ FilesInv'
           /\ \A f \in files \ files' : f \in Inside(h)
           /\ \A f \in files' \ files : f.dir \in Aside
<1>1. files \subseteq Files /\ h \in Heaps
  BY DEF TypeOK
<1>2. CASE HeapDone(h)
  BY <1>1, <1>2 DEF HeapDone, FilesInv
<1>3. ASSUME NEW f \in Inside(h), Sweep(h, f)
      PROVE  /\ files' \subseteq Files /\ FilesInv'
             /\ \A g \in files \ files' : g \in Inside(h)
             /\ \A g \in files' \ files : g.dir \in Aside
  BY <1>1, <1>3 DEF Sweep, FilesInv
<1>4. ASSUME NEW d \in Aside, SetAside(h, d)
      PROVE  /\ files' \subseteq Files /\ FilesInv'
             /\ \A g \in files \ files' : g \in Inside(h)
             /\ \A g \in files' \ files : g.dir \in Aside
  <2>1. d \in Dirs /\ In(d) = {}
    BY <1>4, HomeIs DEF SetAside
  <2>2. files' = (files \ Inside(h)) \union {[f EXCEPT !.dir = d] : f \in Inside(h)}
    BY <1>4 DEF SetAside
  <2>3. \A f \in Inside(h) : f \in files /\ f \in Files
    BY <1>1 DEF Inside
  <2>4. ASSUME NEW g \in files', g \notin files \ Inside(h)
        PROVE  \E f \in Inside(h) :
                 /\ g = [f EXCEPT !.dir = d] /\ g \in Files /\ g.dir = d
                 /\ g.name = f.name /\ g.what = f.what /\ g.name = NameOf[g.what]
                 /\ PathOf(g) = Path(d, f.name, f.dup)
    <3>1. PICK f \in Inside(h) : g = [f EXCEPT !.dir = d]
      BY <2>2, <2>4
    <3>2. f \in files /\ f \in Files
      BY <2>3
    <3>3. f.name = NameOf[f.what]
      BY <3>2 DEF FilesInv
    <3>4. /\ g \in Files /\ g.dir = d /\ g.name = f.name
          /\ g.what = f.what /\ PathOf(g) = Path(d, f.name, f.dup)
      BY <2>1, <3>1, <3>2, AsideIs
    <3> QED
      BY <3>1, <3>3, <3>4
  <2>5. files' \subseteq Files /\ \A g \in files' : g.name = NameOf[g.what]
    BY <1>1, <2>4 DEF FilesInv
  <2>6. ASSUME NEW f \in files', NEW g \in files', PathOf(f) = PathOf(g)
        PROVE  f = g
    <3>1. CASE f \in files \ Inside(h) /\ g \in files \ Inside(h)
      BY <2>6, <3>1 DEF FilesInv
    <3>2. \A k \in files : PathOf(k).dir # d
      BY <1>1, <2>1, PathsAre DEF In
    <3>3. \A k \in files' : k \notin files \ Inside(h) => PathOf(k).dir = d
      BY <2>4 DEF Path
    <3>4. CASE f \notin files \ Inside(h) /\ g \notin files \ Inside(h)
      <4>1. PICK i \in Inside(h) :
                   f = [i EXCEPT !.dir = d] /\ PathOf(f) = Path(d, i.name, i.dup)
        BY <2>4, <3>4
      <4>2. PICK k \in Inside(h) :
                   g = [k EXCEPT !.dir = d] /\ PathOf(g) = Path(d, k.name, k.dup)
        BY <2>4, <3>4
      <4>3. i.name = k.name /\ i.dup = k.dup
        <5>1. Path(d, i.name, i.dup) = Path(d, k.name, k.dup)
          BY <2>6, <4>1, <4>2
        <5> QED
          BY <5>1 DEF Path
      <4>4. i.dir = k.dir /\ i \in files /\ k \in files
        BY <1>1, <2>3, HeapIs
      <4>5. PathOf(i) = PathOf(k)
        BY <4>3, <4>4 DEF PathOf
      <4>6. i = k
        BY <4>4, <4>5 DEF FilesInv
      <4> QED
        BY <4>1, <4>2, <4>6
    <3> QED
      BY <2>6, <3>1, <3>2, <3>3, <3>4
  <2>7. \A g \in files' \ files : g.dir \in Aside
    BY <2>4
  <2> QED
    BY <2>2, <2>5, <2>6, <2>7 DEF FilesInv
<1> QED
  BY <1>2, <1>3, <1>4 DEF HeapGoes

\* The cleaning keeps names and paths.
LEMMA CleanFiles ==
    ASSUME TypeOK, FilesInv, CleanInv, CleanNext
    PROVE  files' \subseteq Files /\ FilesInv'
<1>1. CASE files' = files
  BY <1>1 DEF FilesInv, TypeOK
<1>2. CASE \E p \in junk : RemoveJunk(p)
  BY <1>2, JunkGoes
<1>2a. CASE \E h \in heaps : HeapGoes(h)
  BY <1>2a, HeapGoesIs
<1>3. ASSUME NEW p \in scripts, Truncate(p) \/ Rewrite(p)
      PROVE  files' \subseteq Files /\ FilesInv'
  <2>0. Present(p)
    BY <1>3 DEF Truncate, Rewrite, Present
  <2>1. PICK f \in files :
             /\ At(p) = {f} /\ PathOf(f) = p /\ f.what \in DOMAIN Unix
             /\ [f EXCEPT !.whole = FALSE] \in Files
             /\ PathOf([f EXCEPT !.whole = FALSE]) = p
             /\ Converted(f) \in Files /\ PathOf(Converted(f)) = p
             /\ Converted(f).name = NameOf[Converted(f).what]
    BY <2>0, ScriptIs
  <2>2. PICK g \in Files :
             /\ PathOf(g) = p /\ g.name = NameOf[g.what]
             /\ files' = (files \ {f}) \union {g}
    <3>1. CASE Truncate(p)
      <4>1. files' = (files \ {f}) \union {[f EXCEPT !.whole = FALSE]}
        BY <2>1, <3>1 DEF Truncate
      <4>2. /\ [f EXCEPT !.whole = FALSE].name = f.name /\ f.name = NameOf[f.what]
            /\ [f EXCEPT !.whole = FALSE].what = f.what
        BY DEF FilesInv, TypeOK, Files
      <4> QED
        BY <2>1, <4>1, <4>2
    <3>2. CASE Rewrite(p)
      <4>1. {g \in At(p) : g.what \in DOMAIN Unix} = {f}
        BY <2>1
      <4>2. files' = (files \ {f}) \union {Converted(f)}
        BY <2>1, <3>2, <4>1 DEF Rewrite
      <4> QED
        BY <2>1, <4>2
    <3> QED
      BY <1>3, <3>1, <3>2
  <2>3. \A h \in files' : PathOf(h) = PathOf(g) => h = g
    BY <2>1, <2>2 DEF At
  <2> QED
    BY <2>2, <2>3, OneComes DEF TypeOK
<1> QED
  BY <1>1, <1>2, <1>2a, <1>3
     DEF CleanNext, HeapGoes, CleanWalk, CleanJunkDone, NoScript, CleanEnd, CleanKill

\* Repair and cleaning leave the archives of the inbox where they are, and bring nothing to it.
LEMMA ArchivesStay ==
    ASSUME TypeOK, FilesInv, RepairInv, CleanInv, RepairNext \/ CleanNext
    PROVE  /\ \A a \in files : a.dir = Inbox /\ a.what \in Archives => a \in files'
           /\ \A f \in files' \ files : f.dir # Inbox /\ f.dir \notin Temps
<1>1. /\ files \subseteq Files
      /\ \A d \in Folders \union {Quarantine} \union Aside : d # Inbox /\ d \notin Temps
      /\ \A d \in {Inbox} \union Temps : Home(d) # Ports
  BY DirsAssumption, HomeIs DEF TypeOK
<1>2. \A a \in files : a.what \in Archives => ~Known(a.name) /\ a.name \notin JunkNames
  BY ContentsAssumption DEF FilesInv
<1>3. CASE files' = files
  BY <1>3
<1>4. CASE RepairMove /\ files' # files
  <2>1. PICK f \in files, t \in Paths, g \in Files :
             /\ t.name = f.name /\ t.dir \in Folders /\ Known(f.name) /\ g.dir = t.dir
             /\ files' = (files \ ({f} \union At(t))) \union {g}
    BY <1>4, RepairMoves, Zenon
  <2>2. \A h \in At(t) : h.name = f.name
    BY <1>1, <2>1, PathsAre DEF At
  <2> QED
    BY <1>1, <1>2, <2>1, <2>2
<1>5. CASE \E p \in junk : RemoveJunk(p)
  BY <1>1, <1>2, <1>5, JunkGoes
<1>5a. ASSUME NEW h \in heaps, HeapGoes(h)
       PROVE  /\ \A a \in files : a.dir = Inbox /\ a.what \in Archives => a \in files'
              /\ \A f \in files' \ files : f.dir # Inbox /\ f.dir \notin Temps
  <2>1. \A f \in files \ files' : f.dir # Inbox
    BY <1>5a, HeapGoesIs, HeapIs DEF TypeOK
  <2> QED
    BY <1>1, <1>5a, <2>1, HeapGoesIs
<1>6. ASSUME NEW p \in scripts, Truncate(p) \/ Rewrite(p)
      PROVE  /\ \A a \in files : a.dir = Inbox /\ a.what \in Archives => a \in files'
             /\ \A f \in files' \ files : f.dir # Inbox /\ f.dir \notin Temps
  <2>0. Present(p)
    BY <1>6 DEF Truncate, Rewrite, Present
  <2>1. PICK f \in files :
             /\ At(p) = {f} /\ Home(f.dir) = Ports /\ f.what \in DOMAIN Unix
             /\ Converted(f).dir = f.dir /\ [f EXCEPT !.whole = FALSE].dir = f.dir
    BY <2>0, ScriptIs
  <2>2. f.what \notin Archives
    BY <2>1, ContentsAssumption
  <2>3. f.dir # Inbox /\ f.dir \notin Temps
    BY <1>1, <2>1
  <2>4. files \ {f} \subseteq files' /\ files' \subseteq files \union {[f EXCEPT !.whole = FALSE], Converted(f)}
    BY <1>6, <2>1 DEF Truncate, Rewrite
  <2> QED
    BY <1>1, <2>1, <2>2, <2>3, <2>4
<1> QED
  BY <1>3, <1>4, <1>5, <1>5a, <1>6
     DEF RepairNext, CleanNext, HeapGoes, RepairPlan, RepairCheck, RepairEnd, RepairKill,
         CleanWalk, CleanJunkDone, NoScript, CleanEnd, CleanKill

-----------------------------------------------------------------------------
(* One lemma per conjunct of the invariant *)

\* Extraction, seen from inside: one archive at a time, and temp holds nothing else.
LEMMA ExtractStep1 ==
    ASSUME TypeOK, FilesInv, ExtractInv, ExtractNext
    PROVE  ExtractInv'
<1>1. files \subseteq Files /\ temp \in Temps /\ Inbox \notin Temps /\ temp \notin Folders
  BY DirsAssumption DEF TypeOK
<1>2. CASE ExtractBegin
  <2>1. temp' \in Unused
    BY <1>2 DEF ExtractBegin
  <2>2. In(temp)' = {}
    BY <1>2, <2>1 DEF ExtractBegin, Unused, In
  <2> QED
    BY <1>2, <2>2 DEF ExtractBegin, ExtractInv, TypeOK, In
<1>3. ASSUME NEW f \in todo, RouteLoose(f) PROVE ExtractInv'
  <2>1. \A h \in files' \ files : h.dir # temp
    <3>1. CASE files' = files
      BY <3>1
    <3>2. CASE Known(f.name) /\ f \in files /\ files' = Renamed(f, Target(f))
      BY <1>1, <3>2, RouteIs DEF Renamed
    <3> QED
      BY <1>3, <3>1, <3>2 DEF RouteLoose
  <2>2. In(temp)' = {}
    BY <1>3, <2>1 DEF RouteLoose, ExtractInv, In
  <2> QED
    BY <1>3, <2>2 DEF RouteLoose, ExtractInv
<1>4. ASSUME NEW f \in todo, Open(f) PROVE ExtractInv'
  BY <1>4 DEF Open, ExtractInv, In
<1>5. ASSUME NEW c \in packed, Unpack(c) PROVE ExtractInv'
  <2>1. PICK a \in files :
          /\ archive = {a} /\ a.whole /\ packed \subseteq Holds[a.what]
          /\ \A f \in In(temp) :
                f.what \in Holds[a.what] \ packed /\ f.dup = SubOf[f.what]
    BY <1>5 DEF Unpack, ExtractInv
  <2> DEFINE g == Unpacked(c, TRUE)
  <2>2. /\ g.what = c /\ (g.dir = temp => g.dup = SubOf[c])
        /\ files' = files \union {g}
    <3>1. epc = "unpack" /\ ~InTheWay(c) /\ files' = files \union {g}
      BY <1>5 DEF Unpack
    <3>2. g.what = c /\ (g.dir = Inbox \/ (g.dir = temp /\ g.dup = SubOf[c]))
      BY <3>1, UnpackedIs
    <3> QED
      BY <1>1, <3>1, <3>2
  <2> HIDE DEF g
  <2>3. UNCHANGED <<epc, todo, archive, temp, queue>> /\ packed' = packed \ {c}
    BY <1>5 DEF Unpack
  <2>4. \A f \in In(temp)' : f.what \in Holds[a.what] \ packed' /\ f.dup = SubOf[f.what]
    BY <2>1, <2>2, <2>3 DEF In
  <2> QED
    BY <1>5, <2>1, <2>2, <2>3, <2>4 DEF ExtractInv, Unpack
<1>6. ASSUME NEW c \in packed, ToolFails(c) PROVE ExtractInv'
  BY <1>6 DEF ToolFails, AfterError, ExtractInv, In
<1>7. CASE Walk
  BY <1>7 DEF Walk, ExtractInv, In
<1>8. ASSUME NEW f \in queue, Route(f) PROVE ExtractInv'
  BY <1>8 DEF Route, ExtractInv
<1>9. ASSUME NEW f \in queue, CopyFails(f) PROVE ExtractInv'
  BY <1>9 DEF CopyFails, ExtractInv
<1>10. CASE RemoveTemp
  BY <1>10 DEF RemoveTemp, ExtractInv, In
<1>11. CASE RemoveArchive
  BY <1>11 DEF RemoveArchive, ExtractInv, In
<1>12. CASE ExtractEnd
  BY <1>12 DEF ExtractEnd, ExtractInv
<1>13. CASE ExtractKill
  BY <1>13 DEF ExtractKill, ExtractInv
<1> QED
  BY <1>2, <1>3, <1>4, <1>5, <1>6, <1>7, <1>8, <1>9, <1>10, <1>11, <1>12, <1>13
     DEF ExtractNext, ExtractStep

\* Extraction, seen from the other commands: they leave its archive and temp alone.
LEMMA ExtractStays ==
    ASSUME TypeOK, FilesInv, ExtractInv, RepairInv, CleanInv, RepairNext \/ CleanNext,
           UNCHANGED extractVars
    PROVE  ExtractInv'
<1>1. /\ \A a \in files : a.dir = Inbox /\ a.what \in Archives => a \in files'
      /\ \A f \in files' \ files : f.dir # temp
  BY ArchivesStay DEF TypeOK
<1>2. UNCHANGED <<epc, todo, archive, packed, temp, queue>> /\ In(temp)' \subseteq In(temp)
  BY <1>1 DEF extractVars, In
<1>3. ASSUME epc = "unpack"
      PROVE  \E a \in files' :
          /\ archive = {a} /\ a.whole /\ packed \subseteq Holds[a.what]
          /\ \A f \in In(temp)' :
                f.what \in Holds[a.what] \ packed /\ f.dup = SubOf[f.what]
  <2>1. PICK a \in files :
          /\ archive = {a} /\ a.whole /\ packed \subseteq Holds[a.what]
          /\ \A f \in In(temp) :
                f.what \in Holds[a.what] \ packed /\ f.dup = SubOf[f.what]
    BY <1>3 DEF ExtractInv
  <2>2. a.what \in Archives /\ a.dir = Inbox
    BY <2>1 DEF ExtractInv
  <2> QED
    BY <1>1, <1>2, <2>1, <2>2
<1> QED
  BY <1>2, <1>3 DEF ExtractInv

\* The repair goes on with what it planned.
LEMMA RepairStep ==
    ASSUME TypeOK, RepairInv, [Next]_vars
    PROVE  RepairInv'
<1>1. CASE UNCHANGED repairVars
  BY <1>1 DEF repairVars, RepairInv
<1>2. CASE RepairPlan
  <2>1. \A f \in files : Misplaced(f) => Known(f.name) /\ Home(f.dir) \notin Elsewhere
    BY DirsAssumption DEF Misplaced
  <2>2. \A p \in plan' : Known(p.name) /\ Home(p.dir) \notin Elsewhere
    BY <1>2, <2>1, PathsAre DEF RepairPlan, TypeOK
  <2> QED
    BY <1>2, <2>2 DEF RepairPlan, RepairInv
<1>3. ASSUME NEW p \in plan, RepairCheck(p) PROVE RepairInv'
  <2> DEFINE q == Path(FolderOf(p.name), p.name, 0)
             t == CollisionSafe(q)
  <2>1. p \in Paths /\ Known(p.name) /\ Home(p.dir) \notin Elsewhere
    BY DEF TypeOK, RepairInv
  <2>2. q \in Paths /\ q.dup = 0 /\ q.name = p.name /\ q.dir \in Folders
    BY <2>1, FolderOfKnown, FilesAssumption DEF Path, Paths, Dirs
  <2> HIDE DEF q
  <2>3. t \in Paths /\ t.name = p.name /\ t.dir \in Folders
    BY <2>2, CollisionSafeIs
  <2>4. source' = {p} /\ target' = {t} /\ plan' \subseteq plan
    BY <1>3 DEF RepairCheck, q
  <2> HIDE DEF t
  <2> QED
    BY <2>1, <2>3, <2>4 DEF RepairInv
<1>4. CASE RepairMove \/ RepairEnd \/ RepairKill
  BY <1>4 DEF RepairMove, RepairEnd, RepairKill, RepairInv, NoPath
<1> QED
  BY <1>1, <1>2, <1>3, <1>4 DEF Next, Extraction, Repair, Cleaning, RepairNext, vars

\* The cleaning, while the others do nothing where the scripts are.
LEMMA CleanStays ==
    ASSUME TypeOK, CleanInv, files' \subseteq Files, SameElsewhere, UNCHANGED cleanVars
    PROVE  CleanInv'
<1>1. UNCHANGED <<cpc, junk, scripts>>
  BY DEF cleanVars
<1>2. \A f \in files \union files' :
          PathOf(f) \in scripts => f \in files /\ f \in files'
  BY PathsAre, HomeIs DEF TypeOK, CleanInv, SameElsewhere
<1>3. \A p \in scripts : At(p)' = At(p)
  BY <1>2 DEF At
<1>5. \A p \in scripts : \A f \in At(p)' : f.what \in DOMAIN Unix /\ (cpc # "write" => f.whole)
  BY <1>3 DEF CleanInv
<1> QED
  BY <1>1, <1>2, <1>5 DEF CleanInv

\* The cleaning itself.
LEMMA CleanStep ==
    ASSUME TypeOK, FilesInv, CleanInv, CleanNext
    PROVE  CleanInv'
<1>1. /\ files \subseteq Files /\ Home(Quarantine) # Ports
      /\ \A d \in Aside : Home(d) # Ports
  BY HomeIs DEF TypeOK
<1>2. CASE CleanWalk
  <2>1. \A p \in junk' : p.name \in JunkNames
    BY <1>1, <1>2, PathsAre DEF CleanWalk
  <2>2. ASSUME NEW p \in scripts'
        PROVE  /\ Home(p.dir) = Ports /\ p.name \notin JunkNames
               /\ \A f \in At(p) : f.what \in DOMAIN Unix /\ f.whole
    <3>1. PICK g \in files : /\ p = PathOf(g) /\ Home(g.dir) = Ports
                             /\ g.name \notin JunkNames
                             /\ g.what \in DOMAIN Unix /\ g.whole
      BY <1>2 DEF CleanWalk
    <3>2. At(p) = {g}
      BY <3>1 DEF At, FilesInv
    <3> QED
      BY <1>1, <3>1, <3>2, PathsAre
  <2>3. files' = files
    BY <1>2 DEF CleanWalk
  <2>4. \A p \in scripts' : At(p)' = At(p)
    BY <2>2, <2>3 DEF At
  <2>5. \A f \in files : PathOf(f) \in scripts' => f.whole
    BY <2>2 DEF At
  <2> QED
    BY <2>1, <2>2, <2>3, <2>4, <2>5 DEF CleanInv
<1>3. ASSUME NEW p \in junk, RemoveJunk(p) PROVE CleanInv'
  <2>1. /\ \A f \in files \ files' : f.name \in JunkNames
        /\ \A f \in files' \ files : f.dir = Quarantine /\ f \in Files
    BY <1>3, JunkGoes
  <2>2. \A q \in scripts : At(q)' = At(q)
    <3> SUFFICES ASSUME NEW q \in scripts PROVE At(q)' = At(q)
      OBVIOUS
    <3>1. Home(q.dir) = Ports /\ q.name \notin JunkNames
      BY DEF CleanInv
    <3> QED
      BY <1>1, <2>1, <3>1, PathsAre DEF At
  <2>3. UNCHANGED <<cpc, scripts>> /\ junk' \subseteq junk
    BY <1>3 DEF RemoveJunk
  <2>5. \A f \in files' : PathOf(f) \in scripts => f \in files
    BY <2>2 DEF At
  <2>6. \A q \in scripts : \A f \in At(q)' : f.what \in DOMAIN Unix /\ (cpc # "write" => f.whole)
    BY <2>2 DEF CleanInv
  <2> QED
    BY <2>3, <2>5, <2>6 DEF CleanInv
<1>3a. ASSUME NEW h \in heaps, HeapGoes(h) PROVE CleanInv'
  <2>1. \A f \in files' \ files : Home(f.dir) # Ports /\ f \in Files
    BY <1>1, <1>3a, HeapGoesIs
  <2>2. \A f \in files' : PathOf(f) \in scripts => f \in files
    BY <2>1, PathsAre DEF CleanInv
  <2>3. UNCHANGED <<cpc, scripts, junk>>
    BY <1>3a DEF HeapGoes, Sweep, SetAside, HeapDone
  <2>4. \A q \in scripts : At(q)' \subseteq At(q)
    BY <2>2 DEF At
  <2> QED
    BY <2>2, <2>3, <2>4 DEF CleanInv
<1>4. ASSUME NEW p \in scripts, Truncate(p) \/ Rewrite(p) PROVE CleanInv'
  <2>0. Present(p)
    BY <1>4 DEF Truncate, Rewrite, Present
  <2>1. PICK f \in files :
             /\ At(p) = {f} /\ PathOf(f) = p
             /\ f.what \in DOMAIN Unix /\ (cpc # "write" => f.whole)
             /\ [f EXCEPT !.whole = FALSE] \in Files
             /\ PathOf([f EXCEPT !.whole = FALSE]) = p
             /\ Converted(f) \in Files /\ PathOf(Converted(f)) = p
             /\ Converted(f).whole
    BY <2>0, ScriptIs
  <2>2. \A g \in files : PathOf(g) = p => g = f
    BY <2>1 DEF At
  <2>3. CASE Truncate(p)
    <3> DEFINE g == [f EXCEPT !.whole = FALSE]
    <3>1. /\ files' = (files \ {f}) \union {g} /\ cpc = "scripts" /\ cpc' = "write"
          /\ UNCHANGED <<junk, scripts>>
      BY <2>1, <2>3 DEF Truncate
    <3>2. g.what = f.what /\ PathOf(g) = p
      BY <1>1, <2>1 DEF Files
    <3> HIDE DEF g
    <3>3. \A q \in scripts : \A h \in At(q)' : h.what \in DOMAIN Unix
      <4> SUFFICES ASSUME NEW q \in scripts
                   PROVE  \A h \in At(q)' : h.what \in DOMAIN Unix
        OBVIOUS
      <4>1. CASE q = p
        BY <2>1, <2>2, <3>1, <3>2, <4>1 DEF At
      <4>2. CASE q # p
        <5>1. At(q)' = At(q)
          BY <2>1, <3>1, <3>2, <4>2 DEF At
        <5> QED
          BY <5>1 DEF CleanInv
      <4> QED
        BY <4>1, <4>2
    <3>4. \A h \in files' : ~h.whole /\ PathOf(h) \in scripts => PathOf(h) = p
      BY <2>2, <3>1, <3>2 DEF CleanInv, At
    <3> QED
      BY <3>1, <3>3, <3>4 DEF CleanInv
  <2>4. CASE Rewrite(p)
    <3>1. {g \in At(p) : g.what \in DOMAIN Unix} = {f}
      BY <2>1
    <3>2. /\ files' = (files \ {f}) \union {Converted(f)} /\ ~f.whole
          /\ cpc = "write" /\ cpc' = "scripts" /\ scripts' = scripts \ {p} /\ junk' = junk
      BY <2>1, <2>4, <3>1 DEF Rewrite
    <3>3. \A q \in scripts' : At(q)' = At(q)
      BY <2>1, <3>2 DEF At
    <3>4. \A q \in scripts' : \A h \in At(q)' : h.what \in DOMAIN Unix
      BY <3>2, <3>3 DEF CleanInv
    <3>5. \A h \in files' : PathOf(h) \in scripts' => h.whole
      <4>1. \A h \in files : PathOf(h) \in scripts' => h.whole
        BY <1>1, <2>1, <3>2, PathsAre DEF CleanInv
      <4> QED
        BY <2>1, <3>2, <4>1
    <3>6. \A q \in scripts' : \A h \in At(q)' : h.whole
      BY <3>5 DEF At
    <3> QED
      BY <3>2, <3>4, <3>5, <3>6 DEF CleanInv
  <2> QED
    BY <1>4, <2>3, <2>4
<1>5. CASE CleanJunkDone \/ CleanEnd
  BY <1>5 DEF CleanJunkDone, CleanEnd, CleanInv, At
<1>5a. ASSUME NEW p \in scripts, NoScript(p) PROVE CleanInv'
  BY <1>5a DEF NoScript, CleanInv, At
<1>6. CASE CleanKill
  BY <1>6 DEF CleanKill, CleanInv
<1> QED
  BY <1>2, <1>3, <1>3a, <1>4, <1>5, <1>5a, <1>6 DEF CleanNext, HeapGoes

\* Extraction keeps the types of its own variables.
LEMMA ExtractTypes ==
    ASSUME TypeOK, FilesInv, ExtractInv, ExtractNext
    PROVE  /\ epc' \in {"idle", "next", "unpack", "route", "remove"}
           /\ todo' \union queue' \union archive' \subseteq Files
           /\ packed' \subseteq Contents
           /\ temp' \in Temps
           /\ replaced' \union dropped' \subseteq Contents
           /\ faults' \in 0..MaxFaults
           /\ epc' = "idle" => todo' = {} /\ archive' = {} /\ packed' = {} /\ queue' = {}
<1> USE DEF TypeOK
<1>1. \A f \in files : f.what \in Contents /\ Holds[f.what] \subseteq Contents
  BY PathsAre, FilesAssumption
<1>2. \A f, p : Overwritten(f, p) \subseteq Contents
  BY <1>1 DEF Overwritten, At
<1>3. UNION {Inner(f.what) : f \in In(temp)} \subseteq Contents
  BY <1>1, InnerIs DEF In
<1>4. CASE ExtractBegin
  <2>1. temp' \in Unused
    BY <1>4 DEF ExtractBegin
  <2> QED
    BY <1>4, <2>1 DEF ExtractBegin, Unused, In
<1>5. ASSUME NEW f \in todo, RouteLoose(f) \/ Open(f)
      PROVE  /\ epc' \in {"idle", "next", "unpack", "route", "remove"}
             /\ todo' \union queue' \union archive' \subseteq Files
             /\ packed' \subseteq Contents /\ temp' \in Temps
             /\ replaced' \union dropped' \subseteq Contents
             /\ faults' \in 0..MaxFaults /\ epc' # "idle"
  BY <1>1, <1>2, <1>5 DEF RouteLoose, Open
<1>6. ASSUME NEW c \in packed, Unpack(c) \/ ToolFails(c)
      PROVE  /\ epc' \in {"idle", "next", "unpack", "route", "remove"}
             /\ todo' \union queue' \union archive' \subseteq Files
             /\ packed' \subseteq Contents /\ temp' \in Temps
             /\ replaced' \union dropped' \subseteq Contents
             /\ faults' \in 0..MaxFaults /\ epc' # "idle"
  <2>1. faults \in 0..MaxFaults /\ (Fault => faults' \in 0..MaxFaults)
    BY FaultsAssumption DEF Fault
  <2> QED
    BY <1>6, <2>1 DEF Unpack, ToolFails, AfterError
<1>7. ASSUME NEW f \in queue, Route(f)
      PROVE  /\ epc' \in {"idle", "next", "unpack", "route", "remove"}
             /\ todo' \union queue' \union archive' \subseteq Files
             /\ packed' \subseteq Contents /\ temp' \in Temps
             /\ replaced' \union dropped' \subseteq Contents
             /\ faults' \in 0..MaxFaults /\ epc' # "idle"
  BY <1>2, <1>7 DEF Route
<1>8. ASSUME NEW f \in queue, CopyFails(f)
      PROVE  /\ epc' \in {"idle", "next", "unpack", "route", "remove"}
             /\ todo' \union queue' \union archive' \subseteq Files
             /\ packed' \subseteq Contents /\ temp' \in Temps
             /\ replaced' \union dropped' \subseteq Contents
             /\ faults' \in 0..MaxFaults /\ epc' # "idle"
  BY <1>1, <1>2, <1>8, FaultsAssumption DEF CopyFails, Fault
<1>9. CASE Walk \/ RemoveTemp
  BY <1>3, <1>9 DEF Walk, RemoveTemp, In
<1>10. CASE RemoveArchive \/ ExtractEnd
  BY <1>10 DEF RemoveArchive, ExtractEnd, ExtractInv
<1>11. CASE ExtractKill
  BY <1>11, FaultsAssumption DEF ExtractKill, Fault
<1> QED
  BY <1>4, <1>5, <1>6, <1>7, <1>8, <1>9, <1>10, <1>11 DEF ExtractNext, ExtractStep

\* So does the repair.
LEMMA RepairTypes ==
    ASSUME TypeOK, FilesInv, RepairInv, RepairNext
    PROVE  /\ rpc' \in {"idle", "next", "move"}
           /\ plan' \union source' \union target' \subseteq Paths
           /\ crossed' \subseteq Contents
<1> USE DEF TypeOK
<1>1. CASE RepairPlan
  BY <1>1, PathsAre DEF RepairPlan
<1>2. ASSUME NEW p \in plan, RepairCheck(p)
      PROVE  /\ rpc' \in {"idle", "next", "move"}
             /\ plan' \union source' \union target' \subseteq Paths
             /\ crossed' \subseteq Contents
  <2> DEFINE q == Path(FolderOf(p.name), p.name, 0)
             t == CollisionSafe(q)
  <2>1. p \in Paths /\ Known(p.name)
    BY DEF RepairInv
  <2>2. q \in Paths /\ q.dup = 0
    BY <2>1, FolderOfKnown, FilesAssumption DEF Path, Paths, Dirs
  <2> HIDE DEF q
  <2>3. t \in Paths
    BY <2>2, CollisionSafeIs
  <2>4. source' = {p} /\ target' = {t} /\ plan' \subseteq plan /\ rpc' = "move" /\ crossed' = crossed
    BY <1>2 DEF RepairCheck, q
  <2> HIDE DEF t
  <2> QED
    BY <2>1, <2>3, <2>4
<1>3. CASE RepairMove
  <2>1. \A S \in SUBSET files : {f.what : f \in S} \subseteq Contents
    BY PathsAre
  <2>2. {g \in UNION {At(p) : p \in target} : g.whole} \in SUBSET files
    BY DEF At
  <2>3. crossed' \subseteq Contents
    BY <1>3, <2>1, <2>2 DEF RepairMove
  <2> QED
    BY <1>3, <2>3 DEF RepairMove, NoPath
<1>4. CASE RepairEnd \/ RepairKill
  BY <1>4 DEF RepairEnd, RepairKill, NoPath
<1> QED
  BY <1>1, <1>2, <1>3, <1>4 DEF RepairNext

\* And the cleaning.
LEMMA CleanTypes ==
    ASSUME TypeOK, CleanNext
    PROVE  /\ cpc' \in {"idle", "junk", "scripts", "write"}
           /\ heaps' \subseteq Heaps /\ junk' \union scripts' \subseteq Paths
           /\ cut' \union swept' \subseteq Contents
<1>1. CASE CleanWalk
  BY <1>1, PathsAre DEF TypeOK, CleanWalk
<1>2. CASE CleanKill
  BY <1>2, PathsAre DEF TypeOK, CleanKill
<1>3. ASSUME NEW h \in heaps, NEW f \in Inside(h), Sweep(h, f)
      PROVE  swept' \subseteq Contents
  <2>1. f.what \in Contents
    BY PathsAre DEF TypeOK, Inside
  <2>2. Lost(f) \subseteq Contents
    BY <2>1, InnerIs, ContentsAssumption DEF Lost
  <2> QED
    BY <1>3, <2>2 DEF Sweep, TypeOK
<1>4. ASSUME NEW h \in heaps, HeapGoes(h)
      PROVE  /\ cpc' \in {"idle", "junk", "scripts", "write"}
             /\ heaps' \subseteq Heaps /\ junk' \union scripts' \subseteq Paths
             /\ cut' \union swept' \subseteq Contents
  BY <1>3, <1>4 DEF TypeOK, HeapGoes, Sweep, SetAside, HeapDone
<1>5. CASE \/ CleanJunkDone \/ CleanEnd \/ \E p \in junk : RemoveJunk(p)
           \/ \E p \in scripts : NoScript(p) \/ Truncate(p) \/ Rewrite(p)
  BY <1>5 DEF TypeOK, CleanJunkDone, CleanEnd, RemoveJunk, NoScript, Truncate, Rewrite
<1> QED
  BY <1>1, <1>2, <1>4, <1>5 DEF CleanNext, HeapGoes

\* Every variable keeps its type.
LEMMA TypeStep ==
    ASSUME TypeOK, FilesInv, ExtractInv, RepairInv, CleanInv, [Next]_vars
    PROVE  TypeOK' /\ FilesInv'
<1>1. CASE Extraction
  <2>1. files' \subseteq Files /\ FilesInv'
    BY <1>1, ExtractFiles DEF Extraction
  <2>2. raced' \subseteq Contents
    BY <1>1, <2>1, PathsAre DEF Extraction, Arrived, TypeOK
  <2>3. \A f, g \in files' : PathOf(f) = PathOf(g) => f = g
    BY <2>1 DEF FilesInv
  <2>4. UNCHANGED <<rpc, plan, source, target, crossed, cpc, heaps, junk, scripts, cut,
                    swept, owned>>
    BY <1>1 DEF Extraction, repairVars, cleanVars
  <2> QED
    BY <1>1, <2>1, <2>2, <2>3, <2>4, ExtractTypes DEF TypeOK, Extraction
<1>2. CASE Repair
  <2>1. files' \subseteq Files /\ FilesInv'
    BY <1>2, RepairFiles DEF Repair
  <2>2. \A f, g \in files' : PathOf(f) = PathOf(g) => f = g
    BY <2>1 DEF FilesInv
  <2>3. UNCHANGED <<epc, todo, archive, packed, temp, queue, replaced, dropped, faults,
                    cpc, heaps, junk, scripts, cut, swept, owned, raced>>
    BY <1>2 DEF Repair, extractVars, cleanVars
  <2> QED
    BY <1>2, <2>1, <2>2, <2>3, RepairTypes DEF TypeOK, Repair
<1>3. CASE Cleaning
  <2>1. files' \subseteq Files /\ FilesInv'
    BY <1>3, CleanFiles DEF Cleaning
  <2>2. \A f, g \in files' : PathOf(f) = PathOf(g) => f = g
    BY <2>1 DEF FilesInv
  <2>3. UNCHANGED <<epc, todo, archive, packed, temp, queue, replaced, dropped, faults,
                    rpc, plan, source, target, crossed, owned, raced>>
    BY <1>3 DEF Cleaning, extractVars, repairVars
  <2> QED
    BY <1>3, <2>1, <2>2, <2>3, CleanTypes DEF TypeOK, Cleaning
<1>4. CASE UNCHANGED vars
  BY <1>4 DEF vars, extractVars, repairVars, cleanVars, TypeOK, FilesInv
<1> QED
  BY <1>1, <1>2, <1>3, <1>4 DEF Next

-----------------------------------------------------------------------------
(* Nothing goes unaccounted for *)

\* What is lost stays lost.
LEMMA GoneStays ==
    ASSUME [Next]_vars, NEW c, Gone(c)
    PROVE  Gone(c)'
<1> SUFFICES /\ replaced \subseteq replaced' /\ dropped \subseteq dropped'
             /\ crossed \subseteq crossed' /\ cut \subseteq cut' /\ swept \subseteq swept'
  BY DEF Gone
<1>1. CASE Extraction
  <2>1. UNCHANGED <<crossed, cut, swept>>
    BY <1>1 DEF Extraction, repairVars, cleanVars
  <2>2. replaced \subseteq replaced' /\ dropped \subseteq dropped'
    BY <1>1 DEF Extraction, ExtractNext, ExtractStep, ExtractBegin, RouteLoose, Open, Unpack,
                ToolFails, Walk, Route, CopyFails, RemoveTemp, RemoveArchive, ExtractEnd,
                ExtractKill
  <2> QED
    BY <2>1, <2>2
<1>2. CASE Repair
  BY <1>2 DEF Repair, RepairNext, RepairPlan, RepairCheck, RepairMove, RepairEnd, RepairKill,
              extractVars, cleanVars
<1>3. CASE Cleaning
  BY <1>3 DEF Cleaning, CleanNext, CleanWalk, Sweep, SetAside, HeapDone, RemoveJunk,
              CleanJunkDone, NoScript, Truncate, Rewrite, CleanEnd, CleanKill, extractVars,
              repairVars
<1>4. CASE UNCHANGED vars
  BY <1>4 DEF vars, extractVars, repairVars, cleanVars
<1> QED
  BY <1>1, <1>2, <1>3, <1>4 DEF Next

\* Scripts are safe from extraction and repair.
LEMMA ScriptsStay ==
    ASSUME TypeOK, CleanInv, SameElsewhere, UNCHANGED cleanVars, NEW c, Cleaned(c) \/ Held(c)
    PROVE  Cleaned(c)' \/ Held(c)'
<1>1. UNCHANGED <<cpc, scripts>>
  BY DEF cleanVars
<1>2. CASE Cleaned(c)
  BY <1>2 DEF Cleaned, SameElsewhere
<1>3. CASE Held(c)
  <2>1. PICK f \in files : ~f.whole /\ f.what = c /\ PathOf(f) \in scripts
    BY <1>3 DEF Held
  <2>2. f \in files'
    BY <2>1, PathsAre, HomeIs DEF TypeOK, CleanInv, SameElsewhere
  <2> QED
    BY <1>1, <1>3, <2>1, <2>2 DEF Held
<1> QED
  BY <1>2, <1>3

\* A rename takes what it finds to a folder, and what was there is named as lost.
LEMMA RenameKeeps ==
    ASSUME TypeOK, FilesInv, ExtractInv, NEW c \in Goods, Out(c),
           NEW f \in files, NEW t \in Paths, NEW g \in Files,
           t.name = f.name, Known(f.name), g.dir \in Folders,
           g.what = f.what, g.whole = f.whole,
           files' = (files \ ({f} \union At(t))) \union {g}, archive' = archive,
           \A h \in At(t) \ {f} : h.whole => Gone(h.what)'
    PROVE  Out(c)' \/ Gone(c)'
<1>1. PICK h \in files \ archive : h.whole /\ c \in Inner(h.what)
  BY DEF Out
<1>2. g \notin archive
  BY DirsAssumption DEF ExtractInv
<1>3. CASE h = f
  BY <1>1, <1>2, <1>3 DEF Out
<1>4. CASE h # f /\ h \notin At(t)
  BY <1>1, <1>4 DEF Out
<1>5. CASE h # f /\ h \in At(t)
  <2>1. h.name = f.name
    BY <1>5, PathsAre DEF At, TypeOK
  <2>2. c = h.what
    BY <1>1, <2>1, NoArchive
  <2> QED
    BY <1>1, <1>5, <2>2
<1> QED
  BY <1>3, <1>4, <1>5

\* What is still to be unpacked is in the archive.
LEMMA ArchiveHolds ==
    ASSUME TypeOK, FilesInv, ExtractInv, NEW c, ToCome(c)
    PROVE  \E a \in files : archive = {a} /\ a.whole /\ epc = "unpack"
                            /\ a.what \in Archives /\ c \in Inner(a.what)
<1>1. PICK a \in archive \intersect files, d \in packed : a.whole /\ c \in Inner(d)
  BY DEF ToCome
<1>2. epc = "unpack" /\ archive = {a} /\ d \in Holds[a.what] /\ a.what \in Archives
  BY <1>1 DEF ExtractInv
<1> QED
  BY <1>1, <1>2, InnerIs

\* By the repair.
LEMMA RepairAccounts ==
    ASSUME TypeOK, FilesInv, ExtractInv, RepairInv, CleanInv, Repair, [Next]_vars,
           NEW c \in Goods, Somewhere(c)
    PROVE  Somewhere(c)'
<1>1. UNCHANGED <<cleanVars, archive, packed>> /\ SameElsewhere /\ RepairNext
  BY RepairFiles DEF Repair, extractVars
<1>2. CASE Gone(c)
  BY <1>2, GoneStays DEF Somewhere
<1>3. CASE Cleaned(c) \/ Held(c)
  BY <1>1, <1>3, ScriptsStay DEF Somewhere
<1>4. CASE ToCome(c)
  <2>1. \A a \in archive \intersect files : a \in files'
    BY <1>1, ArchivesStay DEF ExtractInv
  <2> QED
    BY <1>1, <1>4, <2>1 DEF ToCome, Somewhere
<1>5. CASE Out(c)
  <2>1. CASE files' = files
    BY <1>1, <1>5, <2>1 DEF Out, Somewhere
  <2>2. CASE RepairMove /\ files' # files
    <3>1. PICK f \in files, t \in Paths, g \in Files :
             /\ t.name = f.name /\ t.dir \in Folders
             /\ Known(f.name) /\ g.dir = t.dir /\ g.what = f.what /\ g.whole = f.whole
             /\ files' = (files \ ({f} \union At(t))) \union {g}
             /\ crossed' = crossed \union {h.what : h \in {i \in At(t) : i.whole}}
      BY <2>2, RepairMoves, Zenon
    <3>2. \A h \in At(t) \ {f} : h.whole => Gone(h.what)'
      BY <3>1 DEF Gone
    <3>3. g.dir \in Folders /\ archive' = archive
      BY <1>1, <3>1
    <3>4. Out(c)' \/ Gone(c)'
      BY <1>5, <3>1, <3>2, <3>3, RenameKeeps
    <3> QED
      BY <3>4 DEF Somewhere
  <2> QED
    BY <1>1, <2>1, <2>2 DEF RepairNext, RepairPlan, RepairCheck, RepairEnd, RepairKill
<1> QED
  BY <1>2, <1>3, <1>4, <1>5 DEF Somewhere

\* By the cleaning.
LEMMA CleaningAccounts ==
    ASSUME TypeOK, FilesInv, ExtractInv, RepairInv, CleanInv, Cleaning, [Next]_vars,
           NEW c \in Goods, Somewhere(c)
    PROVE  Somewhere(c)'
<1>1. UNCHANGED <<archive, packed>> /\ CleanNext /\ files \subseteq Files
  BY DEF Cleaning, extractVars, TypeOK
<1>2. CASE Gone(c)
  BY <1>2, GoneStays DEF Somewhere
<1>3. CASE ToCome(c)
  <2>1. \A a \in archive \intersect files : a \in files'
    BY <1>1, ArchivesStay DEF ExtractInv
  <2> QED
    BY <1>1, <1>3, <2>1 DEF ToCome, Somewhere
<1>4. ASSUME UNCHANGED <<files, archive>>, Out(c) \/ Cleaned(c)
      PROVE  Somewhere(c)'
  BY <1>4 DEF Out, Cleaned, Somewhere
<1>5. CASE CleanWalk \/ CleanJunkDone \/ CleanEnd
  BY <1>1, <1>2, <1>3, <1>4, <1>5 DEF Somewhere, Held, CleanWalk, CleanJunkDone, CleanEnd
<1>6. CASE CleanKill
  <2>1. Held(c) => c \in cut'
    BY <1>6 DEF Held, CleanKill
  <2> QED
    BY <1>1, <1>2, <1>3, <1>4, <1>6, <2>1 DEF Somewhere, Gone, CleanKill
<1>7. ASSUME NEW p \in junk, RemoveJunk(p) PROVE Somewhere(c)'
  <2>1. /\ \A f \in files \ files' : f.name \in JunkNames
        /\ UNCHANGED <<cpc, scripts>>
    BY <1>7, JunkGoes DEF RemoveJunk
  <2>2. CASE Out(c)
    <3>1. PICK f \in files \ archive : f.whole /\ c \in Inner(f.what)
      BY <2>2 DEF Out
    <3>2. f \in files'
      BY <2>1, <3>1, NoArchive
    <3> QED
      BY <1>1, <3>1, <3>2 DEF Out, Somewhere
  <2>3. CASE Cleaned(c)
    <3>1. PICK f \in files :
             Home(f.dir) \in Elsewhere /\ f.whole /\ f.what = Unix[c] /\ c \in DOMAIN Unix
      BY <2>3 DEF Cleaned
    <3>2. f.name = NameOf[c] /\ NameOf[c] \notin JunkNames
      BY <3>1, ContentsAssumption DEF FilesInv, Goods
    <3> QED
      BY <2>1, <3>1, <3>2 DEF Cleaned, Somewhere
  <2>4. CASE Held(c)
    <3>1. PICK f \in files : ~f.whole /\ f.what = c /\ PathOf(f) \in scripts /\ cpc = "write"
      BY <2>4 DEF Held
    <3> QED
      BY <1>7, <3>1 DEF RemoveJunk
  <2> QED
    BY <1>2, <1>3, <2>2, <2>3, <2>4 DEF Somewhere
<1>7a. ASSUME NEW h \in heaps, HeapGoes(h) PROVE Somewhere(c)'
  <2>1. /\ \A g \in files \ files' : g \in Inside(h)
        /\ h \in Heaps
    BY <1>7a, HeapGoesIs DEF TypeOK
  <2>2. \A g \in archive : g.dir = Inbox
    BY DEF ExtractInv
  <2>3. Held(c) => Held(c)'
    BY <1>7a DEF HeapGoes, Sweep, SetAside, HeapDone, Held
  <2>4. CASE HeapDone(h)
    BY <1>1, <1>2, <1>3, <1>4, <2>3, <2>4 DEF HeapDone, Somewhere
  <2>5. ASSUME NEW f \in Inside(h), Sweep(h, f), Out(c) \/ Cleaned(c)
        PROVE  Somewhere(c)'
    <3>1. files' = files \ {f} /\ (f.whole => Lost(f) \subseteq swept')
      BY <2>5 DEF Sweep
    <3>2. CASE Out(c)
      <4>1. PICK g \in files \ archive : g.whole /\ c \in Inner(g.what)
        BY <3>2 DEF Out
      <4>2. CASE g = f
        BY <3>1, <4>1, <4>2 DEF Lost, Gone, Somewhere
      <4>3. CASE g # f
        BY <1>1, <3>1, <4>1, <4>3 DEF Out, Somewhere
      <4> QED
        BY <4>2, <4>3
    <3>3. CASE Cleaned(c)
      <4>1. PICK g \in files :
               Home(g.dir) \in Elsewhere /\ g.whole /\ g.what = Unix[c] /\ c \in DOMAIN Unix
        BY <3>3 DEF Cleaned
      <4>2. CASE g = f
        BY <3>1, <4>1, <4>2 DEF Lost, Gone, Somewhere
      <4>3. CASE g # f
        BY <3>1, <4>1, <4>3 DEF Cleaned, Somewhere
      <4> QED
        BY <4>2, <4>3
    <3> QED
      BY <2>5, <3>2, <3>3
  <2>6. ASSUME NEW d \in Aside, SetAside(h, d), Out(c) \/ Cleaned(c)
        PROVE  Somewhere(c)'
    <3>1. /\ files' = (files \ Inside(h)) \union {[g EXCEPT !.dir = d] : g \in Inside(h)}
          /\ d \in Dirs /\ d # Inbox /\ Home(d) \in Elsewhere
      BY <2>6, HomeIs DEF SetAside
    <3>2. ASSUME NEW g \in Inside(h)
          PROVE  \E k \in files' : /\ k.what = g.what /\ k.whole = g.whole
                                    /\ k \notin archive /\ Home(k.dir) \in Elsewhere
      <4> DEFINE k == [g EXCEPT !.dir = d]
      <4>1. k \in files' /\ g \in Files
        BY <1>1, <3>1 DEF Inside
      <4>2. k.what = g.what /\ k.whole = g.whole /\ k.dir = d
        BY <3>1, <4>1, AsideIs
      <4> QED
        BY <2>2, <3>1, <4>1, <4>2
    <3>3. CASE Out(c)
      <4>1. PICK g \in files \ archive : g.whole /\ c \in Inner(g.what)
        BY <3>3 DEF Out
      <4>2. CASE g \in Inside(h)
        BY <1>1, <3>2, <4>1, <4>2 DEF Out, Somewhere
      <4>3. CASE g \notin Inside(h)
        BY <1>1, <3>1, <4>1, <4>3 DEF Out, Somewhere
      <4> QED
        BY <4>2, <4>3
    <3>4. CASE Cleaned(c)
      <4>1. PICK g \in files :
               Home(g.dir) \in Elsewhere /\ g.whole /\ g.what = Unix[c] /\ c \in DOMAIN Unix
        BY <3>4 DEF Cleaned
      <4>2. CASE g \in Inside(h)
        BY <3>2, <4>1, <4>2 DEF Cleaned, Somewhere
      <4>3. CASE g \notin Inside(h)
        BY <3>1, <4>1, <4>3 DEF Cleaned, Somewhere
      <4> QED
        BY <4>2, <4>3
    <3> QED
      BY <2>6, <3>3, <3>4
  <2> QED
    BY <1>2, <1>3, <1>7a, <2>3, <2>4, <2>5, <2>6 DEF HeapGoes, Somewhere
<1>7b. CASE \E p \in scripts : NoScript(p)
  <2>1. Held(c) => Held(c)'
    BY <1>7b DEF Held, NoScript
  <2> QED
    BY <1>1, <1>2, <1>3, <1>4, <1>7b, <2>1 DEF NoScript, Somewhere
<1>8. ASSUME NEW p \in scripts, Truncate(p) \/ Rewrite(p) PROVE Somewhere(c)'
  <2>0. Present(p)
    BY <1>8 DEF Truncate, Rewrite, Present
  <2>1. PICK f \in files :
             /\ At(p) = {f} /\ PathOf(f) = p /\ f.what \in DOMAIN Unix
             /\ PathOf([f EXCEPT !.whole = FALSE]) = p
             /\ Converted(f).what = Unix[f.what] /\ Converted(f).whole
             /\ Home(Converted(f).dir) \in Elsewhere
    BY <2>0, ScriptIs, HomeIs
  <2>2. f.what \notin Archives /\ Unix[f.what] \notin DOMAIN Unix
    BY <2>1, ContentsAssumption
  <2>3. CASE Truncate(p)
    <3> DEFINE g == [f EXCEPT !.whole = FALSE]
    <3>1. /\ files' = (files \ {f}) \union {g} /\ cpc = "scripts" /\ cpc' = "write"
          /\ scripts' = scripts
      BY <2>1, <2>3 DEF Truncate
    <3>2. g.what = f.what /\ PathOf(g) = p /\ ~g.whole
      BY <1>1, <2>1 DEF Files
    <3> HIDE DEF g
    <3>3. CASE Out(c)
      <4>1. PICK h \in files \ archive : h.whole /\ c \in Inner(h.what)
        BY <3>3 DEF Out
      <4>2. CASE h # f
        BY <1>1, <3>1, <4>1, <4>2 DEF Out, Somewhere
      <4>3. CASE h = f
        <5>1. c = f.what
          BY <2>1, <4>1, <4>3, NoArchive
        <5> QED
          BY <3>1, <3>2, <5>1 DEF Held, Somewhere
      <4> QED
        BY <4>2, <4>3
    <3>4. CASE Cleaned(c)
      <4>1. PICK h \in files :
               Home(h.dir) \in Elsewhere /\ h.whole /\ h.what = Unix[c] /\ c \in DOMAIN Unix
        BY <3>4 DEF Cleaned
      <4>2. Unix[c] \notin DOMAIN Unix
        BY <4>1, ContentsAssumption
      <4> QED
        BY <2>1, <3>1, <4>1, <4>2 DEF Cleaned, Somewhere
    <3> QED
      BY <1>2, <1>3, <3>1, <3>3, <3>4 DEF Somewhere, Held
  <2>4. CASE Rewrite(p)
    <3>1. {g \in At(p) : g.what \in DOMAIN Unix} = {f}
      BY <2>1
    <3>2. files' = (files \ {f}) \union {Converted(f)} /\ ~f.whole
      BY <2>1, <2>4, <3>1 DEF Rewrite
    <3>3. CASE Out(c)
      BY <1>1, <3>2, <3>3 DEF Out, Somewhere
    <3>4. CASE Cleaned(c)
      BY <3>2, <3>4 DEF Cleaned, Somewhere
    <3>5. CASE Held(c)
      <4>1. PICK h \in files : ~h.whole /\ h.what = c /\ PathOf(h) \in scripts
        BY <3>5 DEF Held
      <4>2. PathOf(h) = PathOf(f)
        BY <2>1, <3>2, <4>1 DEF CleanInv
      <4>3. h = f
        BY <4>2 DEF FilesInv
      <4> QED
        BY <2>1, <3>2, <4>1, <4>3 DEF Cleaned, Somewhere
    <3> QED
      BY <1>2, <1>3, <3>3, <3>4, <3>5 DEF Somewhere
  <2> QED
    BY <1>8, <2>3, <2>4
<1> QED
  BY <1>1, <1>5, <1>6, <1>7, <1>7a, <1>7b, <1>8 DEF CleanNext, HeapGoes

\* By extraction.
LEMMA ExtractionAccounts ==
    ASSUME TypeOK, FilesInv, ExtractInv, ExtractInv', CleanInv, Extraction, [Next]_vars,
           NEW c \in Goods, Somewhere(c)
    PROVE  Somewhere(c)'
<1>1. /\ UNCHANGED cleanVars /\ SameElsewhere /\ ExtractNext
      /\ files \subseteq Files /\ temp \in Temps /\ Inbox \notin Temps
  BY ExtractFiles, DirsAssumption DEF Extraction, TypeOK
<1>2. CASE Gone(c)
  BY <1>2, GoneStays DEF Somewhere
<1>3. CASE Cleaned(c) \/ Held(c)
  BY <1>1, <1>3, ScriptsStay DEF Somewhere
<1>4. ASSUME UNCHANGED <<files, archive, packed>> PROVE Somewhere(c)'
  BY <1>2, <1>3, <1>4 DEF Somewhere, Out, ToCome
<1>5. ASSUME NEW f \in files, Known(f.name), UNCHANGED <<archive, packed>>,
             files' = Renamed(f, Target(f)),
             replaced' = replaced \union Overwritten(f, Target(f)), packed = {}
      PROVE  Somewhere(c)'
  <2> DEFINE t == Target(f)
             g == Moved(f, t)
  <2>1. /\ t \in Paths /\ t.name = f.name /\ g \in Files /\ g.dir \in Folders
        /\ g.what = f.what /\ g.whole = f.whole
        /\ files' = (files \ ({f} \union At(t))) \union {g}
    BY <1>1, <1>5, RouteIs DEF Renamed
  <2>2. \A h \in At(t) \ {f} : h.whole => Gone(h.what)'
    BY <1>5 DEF Overwritten, Gone
  <2> HIDE DEF g, t
  <2>3. Out(c) => Out(c)' \/ Gone(c)'
    BY <1>5, <2>1, <2>2, RenameKeeps
  <2> QED
    BY <1>2, <1>3, <1>5, <2>3 DEF Somewhere, ToCome
<1>6. CASE ExtractBegin \/ Walk \/ ExtractEnd
  BY <1>4, <1>6 DEF ExtractBegin, Walk, ExtractEnd
<1>7. ASSUME NEW f \in todo, RouteLoose(f) PROVE Somewhere(c)'
  <2>1. packed = {} /\ UNCHANGED <<archive, packed>>
    BY <1>7 DEF RouteLoose, ExtractInv
  <2> QED
    BY <1>4, <1>5, <1>7, <2>1 DEF RouteLoose
<1>8. ASSUME NEW f \in todo, Open(f) PROVE Somewhere(c)'
  <2>1. UNCHANGED files /\ archive = {} /\ packed = {} /\ f.what \in Archives
    BY <1>8 DEF Open, ExtractInv
  <2>2. CASE f \in files /\ f.whole
    <3>1. archive' = {f} /\ packed' = Holds[f.what]
      BY <1>8, <2>2 DEF Open
    <3>2. ASSUME NEW h \in files, h.whole, c \in Inner(h.what)
          PROVE  Out(c)' \/ ToCome(c)'
      <4>1. CASE h = f
        <5>1. c # f.what
          BY <2>1 DEF Goods
        <5>2. \E d \in Holds[f.what] : c \in Inner(d)
          BY <2>1, <3>2, <4>1, <5>1, InnerIs
        <5> QED
          BY <2>1, <2>2, <3>1, <5>2 DEF ToCome
      <4>2. CASE h # f
        BY <2>1, <3>1, <3>2, <4>2 DEF Out
      <4> QED
        BY <4>1, <4>2
    <3> QED
      BY <1>2, <1>3, <2>1, <3>2 DEF Somewhere, Out, ToCome
  <2>3. CASE ~(f \in files /\ f.whole)
    BY <1>4, <1>8, <2>1, <2>3 DEF Open
  <2> QED
    BY <2>2, <2>3
<1>9. ASSUME NEW d \in packed, Unpack(d) PROVE Somewhere(c)'
  <2>1. epc = "unpack" /\ ~InTheWay(d) /\ archive' = archive /\ packed' = packed \ {d}
    BY <1>9 DEF Unpack
  <2> DEFINE g == Unpacked(d, TRUE)
  <2>2. g.what = d /\ g.whole /\ ~Present(PathOf(g))
    BY <2>1, UnpackedIs
  <2>3. files' = files \union {g}
    BY <1>9 DEF Unpack
  <2> HIDE DEF g
  <2>4. g \notin archive
    <3>1. g \notin files
      BY <2>2 DEF Present, At
    <3>2. archive \subseteq files
      BY <2>1 DEF ExtractInv
    <3> QED
      BY <3>1, <3>2
  <2>5. CASE Out(c)
    BY <2>1, <2>3, <2>5 DEF Out, Somewhere
  <2>6. CASE ToCome(c)
    <3>1. PICK a \in archive \intersect files, e \in packed : a.whole /\ c \in Inner(e)
      BY <2>6 DEF ToCome
    <3>2. CASE e = d
      BY <2>1, <2>2, <2>3, <2>4, <3>1, <3>2 DEF Out, Somewhere
    <3>3. CASE e # d
      BY <2>1, <2>3, <3>1, <3>3 DEF ToCome, Somewhere
    <3> QED
      BY <3>2, <3>3
  <2> QED
    BY <1>2, <1>3, <2>5, <2>6 DEF Somewhere
<1>10. ASSUME NEW d \in packed, ToolFails(d) PROVE Somewhere(c)'
  <2>1. /\ epc = "unpack" /\ archive' = {} /\ files' = files \ In(temp)
    BY <1>10 DEF ToolFails, AfterError
  <2>2. PICK a \in files :
          /\ archive = {a} /\ a.whole /\ a.dir = Inbox /\ a.what \in Archives
          /\ \A f \in In(temp) : f.what \in Holds[a.what]
    BY <2>1 DEF ExtractInv
  <2>3. a \in files'
    BY <1>1, <2>1, <2>2 DEF In
  <2>4. CASE c \in Inner(a.what)
    BY <2>1, <2>2, <2>3, <2>4 DEF Out, Somewhere
  <2>5. CASE Out(c) /\ c \notin Inner(a.what)
    <3>1. PICK f \in files : f.whole /\ c \in Inner(f.what)
      BY <2>5 DEF Out
    <3>2. f \notin In(temp)
      BY <2>2, <2>5, <3>1, InnerIs
    <3> QED
      BY <2>1, <3>1, <3>2 DEF Out, Somewhere
  <2>6. ToCome(c) => c \in Inner(a.what)
    BY <2>2, ArchiveHolds
  <2> QED
    BY <1>2, <1>3, <2>4, <2>5, <2>6 DEF Somewhere
<1>11. ASSUME NEW f \in queue, Route(f) PROVE Somewhere(c)'
  <2>1. packed = {} /\ UNCHANGED <<archive, packed>>
    BY <1>11 DEF Route, ExtractInv
  <2>2. CASE f \in files /\ f.name \in Junk
    <3>1. files' = files \ {f}
      BY <1>11, <2>2 DEF Route
    <3>2. ASSUME Out(c) PROVE Out(c)'
      <4>1. PICK h \in files \ archive : h.whole /\ c \in Inner(h.what)
        BY <3>2 DEF Out
      <4>2. h # f
        BY <2>2, <4>1, NoArchive
      <4> QED
        BY <2>1, <3>1, <4>1, <4>2 DEF Out
    <3> QED
      BY <1>2, <1>3, <2>1, <3>2 DEF Somewhere, ToCome
  <2> QED
    BY <1>4, <1>5, <1>11, <2>1, <2>2 DEF Route
<1>12. ASSUME NEW f \in queue, CopyFails(f) PROVE Somewhere(c)'
  <2> DEFINE t == Target(f)
             g == [Moved(f, t) EXCEPT !.whole = FALSE]
  <2>1. /\ f \in files /\ Known(f.name) /\ packed = {} /\ archive' = archive
        /\ files' = (files \ ({f} \union At(t))) \union {g}
        /\ replaced' = replaced \union Overwritten(f, t)
        /\ dropped' = dropped \union {f.what}
    BY <1>12 DEF CopyFails, ExtractInv
  <2>2. t.name = f.name
    BY <1>1, <2>1, RouteIs
  <2> HIDE DEF g, t
  <2>3. ASSUME Out(c) PROVE Out(c)' \/ Gone(c)'
    <3>1. PICK h \in files \ archive : h.whole /\ c \in Inner(h.what)
      BY <2>3 DEF Out
    <3>2. CASE h = f
      <4>1. c = f.what
        BY <2>1, <3>1, <3>2, NoArchive
      <4> QED
        BY <2>1, <4>1 DEF Gone
    <3>3. CASE h # f /\ h \in At(t)
      <4>1. h.name = f.name
        BY <1>1, <2>2, <3>3, PathsAre DEF At
      <4>2. c = h.what
        BY <2>1, <3>1, <4>1, NoArchive
      <4>3. h.what \in Overwritten(f, t)
        BY <3>1, <3>3 DEF Overwritten
      <4> QED
        BY <2>1, <4>2, <4>3 DEF Gone
    <3>4. CASE h # f /\ h \notin At(t)
      BY <2>1, <3>1, <3>4 DEF Out
    <3> QED
      BY <3>2, <3>3, <3>4
  <2> QED
    BY <1>2, <1>3, <2>1, <2>3 DEF Somewhere, ToCome
<1>13. CASE RemoveTemp
  <2>1. /\ files' = files \ In(temp) /\ archive' = archive /\ packed = {}
        /\ dropped' = dropped \union UNION {Inner(f.what) : f \in In(temp)}
    BY <1>13 DEF RemoveTemp, ExtractInv
  <2>2. Out(c) => Out(c)' \/ Gone(c)'
    BY <2>1 DEF Out, Gone
  <2> QED
    BY <1>2, <1>3, <2>1, <2>2 DEF Somewhere, ToCome
<1>14. CASE RemoveArchive
  <2>1. files \ archive \subseteq files' /\ archive' = {} /\ packed = {}
    BY <1>14 DEF RemoveArchive, ExtractInv
  <2>2. Out(c) => Out(c)'
    BY <2>1 DEF Out
  <2> QED
    BY <1>2, <1>3, <2>1, <2>2 DEF Somewhere, ToCome
<1>15. CASE ExtractKill
  <2>1. files \subseteq files' /\ archive' = {}
    BY <1>15 DEF ExtractKill
  <2>2. Out(c) => Out(c)'
    BY <2>1 DEF Out
  <2>3. ToCome(c) => Out(c)'
    BY <2>1, ArchiveHolds DEF Out
  <2> QED
    BY <1>2, <1>3, <2>2, <2>3 DEF Somewhere
<1> QED
  BY <1>1, <1>6, <1>7, <1>8, <1>9, <1>10, <1>11, <1>12, <1>13, <1>14, <1>15
     DEF ExtractNext, ExtractStep

-----------------------------------------------------------------------------
(* The theorems *)

\* The invariant holds, by any interleaving of the three commands and wherever they are
\* killed.
LEMMA IInvHolds == Spec => []IInv
<1>1. Init => IInv
  <2> SUFFICES ASSUME Init PROVE IInv
    OBVIOUS
  <2>1. /\ files \in InitialCards /\ owned = Goods \intersect Safe /\ raced = {}
        /\ epc = "idle" /\ todo = {} /\ archive = {} /\ packed = {} /\ queue = {}
        /\ temp = (CHOOSE t \in Temps : TRUE) /\ replaced = {} /\ dropped = {} /\ faults = 0
        /\ rpc = "idle" /\ plan = {} /\ source = {} /\ target = {} /\ crossed = {}
        /\ cpc = "idle" /\ heaps = {} /\ junk = {} /\ scripts = {} /\ cut = {} /\ swept = {}
    BY DEF Init, ExtractInit, RepairInit, CleanInit, NoPath
  <2>2. temp \in Temps
    BY <2>1, DirsAssumption
  <2>3. TypeOK
    BY <2>1, <2>2, InitialAssumption, FaultsAssumption DEF TypeOK
  <2>4. FilesInv
    BY <2>1, InitialAssumption DEF FilesInv
  <2>5. ExtractInv /\ RepairInv /\ CleanInv
    BY <2>1 DEF ExtractInv, RepairInv, CleanInv
  <2>6. \A c \in owned : Out(c)
    BY <2>1 DEF Out, Safe
  <2> QED
    BY <2>3, <2>4, <2>5, <2>6 DEF IInv, Somewhere
<1>2. IInv /\ [Next]_vars => IInv'
  <2> SUFFICES ASSUME IInv, [Next]_vars PROVE IInv'
    OBVIOUS
  <2> USE DEF IInv
  <2>1. TypeOK' /\ FilesInv' /\ RepairInv'
    BY TypeStep, RepairStep
  <2>2. CASE Extraction
    <3>1. ExtractInv' /\ files' \subseteq Files /\ SameElsewhere
      BY <2>2, ExtractStep1, ExtractFiles DEF Extraction
    <3>2. CleanInv'
      BY <2>2, <3>1, CleanStays DEF Extraction
    <3>3. \A c \in owned : Somewhere(c)'
      BY <2>2, <3>1, ExtractionAccounts DEF TypeOK
    <3>4. owned' = owned
      BY <2>2 DEF Extraction
    <3> QED
      BY <2>1, <3>1, <3>2, <3>3, <3>4
  <2>3. CASE Repair
    <3>1. files' \subseteq Files /\ SameElsewhere
      BY <2>3, RepairFiles DEF Repair
    <3>2. ExtractInv' /\ CleanInv'
      BY <2>3, <3>1, ExtractStays, CleanStays DEF Repair
    <3>3. \A c \in owned : Somewhere(c)'
      BY <2>3, RepairAccounts DEF TypeOK
    <3>4. owned' = owned
      BY <2>3 DEF Repair
    <3> QED
      BY <2>1, <3>2, <3>3, <3>4
  <2>4. CASE Cleaning
    <3>1. ExtractInv' /\ CleanInv'
      BY <2>4, ExtractStays, CleanStep DEF Cleaning
    <3>2. \A c \in owned : Somewhere(c)'
      BY <2>4, CleaningAccounts DEF TypeOK
    <3>3. owned' = owned
      BY <2>4 DEF Cleaning
    <3> QED
      BY <2>1, <3>1, <3>2, <3>3
  <2>5. CASE UNCHANGED vars
    <3>1. ExtractInv' /\ CleanInv'
      BY <2>5 DEF vars, extractVars, cleanVars, ExtractInv, CleanInv, In, At
    <3>2. \A c \in owned : Somewhere(c)'
      BY <2>5 DEF vars, extractVars, repairVars, cleanVars, Somewhere, Gone, Out, ToCome,
                  Cleaned, Held
    <3>3. owned' = owned
      BY <2>5 DEF vars
    <3> QED
      BY <2>1, <3>1, <3>2, <3>3
  <2> QED
    BY <2>2, <2>3, <2>4, <2>5 DEF Next
<1> QED
  BY <1>1, <1>2, PTL DEF Spec

\* Every variable of extract.rs, repair.rs and clean.rs keeps its type, and no path ever has
\* two files.
THEOREM TypeCorrect == Spec => []TypeOK
<1>1. IInv => TypeOK
  BY DEF IInv
<1> QED
  BY <1>1, IInvHolds, PTL

\* NothingLost: no ROM and no script that was on the card at first, packed or not, leaves it
\* by any interleaving of extraction, repair and cleaning and wherever one is killed, but for
\* the losses that are named: replaced, dropped, crossed, cut, and swept away with a
\* directory called like junk.
THEOREM NoRomIsLost == Spec => []NothingLost
<1>1. IInv => NothingLost
  <2> SUFFICES ASSUME IInv, NEW c \in owned
               PROVE  Kept(c) \/ c \in replaced \union dropped \union crossed \union cut
                                       \union swept
    BY DEF NothingLost
  <2>1. CASE Out(c)
    BY <2>1 DEF Out, Kept, Safe
  <2>2. CASE ToCome(c)
    <3>1. \E a \in files : a.whole /\ c \in Inner(a.what)
      BY <2>2, ArchiveHolds DEF IInv
    <3> QED
      BY <3>1 DEF Kept, Safe
  <2>3. CASE Cleaned(c)
    <3>1. PICK f \in files : f.whole /\ f.what = Unix[c] /\ c \in DOMAIN Unix
      BY <2>3 DEF Cleaned
    <3>2. f.what \in Inner(f.what)
      BY InnerIs, PathsAre DEF IInv, TypeOK
    <3> QED
      BY <3>1, <3>2 DEF Kept, Safe
  <2>4. CASE Held(c)
    BY <2>4 DEF Held, Kept
  <2> QED
    BY <2>1, <2>2, <2>3, <2>4 DEF IInv, Somewhere, Gone
<1> QED
  BY <1>1, IInvHolds, PTL

-----------------------------------------------------------------------------
(* The repair never overwrites *)

\* While a file is to be moved there is a name left for it: repair.rs stops looking after
\* .dup-999 and then takes the name itself, and whatever is there is overwritten.
NameIsFree ==
    \A p \in plan : \E k \in 0..MaxDup : ~Present(Path(FolderOf(p.name), p.name, k))

\* Whatever is at the name that was free came to it after the repair had looked.
RacedInv ==
    /\ crossed \subseteq raced
    /\ \A g \in files : PathOf(g) \in target => g.what \in raced

\* What the cleaning writes is where nothing is routed to.
LEMMA CleaningArrives ==
    ASSUME TypeOK, FilesInv, CleanInv, CleanNext, NEW f \in files' \ files
    PROVE  f.dir \notin Folders
<1>1. files \subseteq Files /\ Quarantine \notin Folders /\ Aside \intersect Folders = {}
  BY DirsAssumption DEF TypeOK
<1>2. CASE \E p \in junk : RemoveJunk(p)
  BY <1>1, <1>2, JunkGoes
<1>2a. CASE \E h \in heaps : HeapGoes(h)
  BY <1>1, <1>2a, HeapGoesIs
<1>3. ASSUME NEW p \in scripts, Truncate(p) \/ Rewrite(p) PROVE f.dir \notin Folders
  <2>0. Present(p)
    BY <1>3 DEF Truncate, Rewrite, Present
  <2>1. PICK g \in files :
             /\ At(p) = {g} /\ Home(g.dir) = Ports /\ Converted(g).dir = g.dir
             /\ [g EXCEPT !.whole = FALSE].dir = g.dir
    BY <2>0, ScriptIs
  <2>2. g.dir \notin Folders
    BY <2>1, HomeIs
  <2>3. files' \subseteq files \union {[g EXCEPT !.whole = FALSE], Converted(g)}
    BY <1>3, <2>1 DEF Truncate, Rewrite
  <2> QED
    BY <1>1, <2>1, <2>2, <2>3
<1>4. CASE UNCHANGED files
  BY <1>4
<1> QED
  BY <1>2, <1>2a, <1>3, <1>4
     DEF CleanNext, HeapGoes, CleanWalk, CleanJunkDone, NoScript, CleanEnd, CleanKill

\* The name the repair finds is free while there is one.
LEMMA CheckFinds ==
    ASSUME TypeOK, RepairInv, NameIsFree, NEW p \in plan, RepairCheck(p)
    PROVE  \E t \in Paths : target' = {t} /\ ~Present(t)
<1> DEFINE q == Path(FolderOf(p.name), p.name, 0)
<1>1. p \in Paths /\ FolderOf(p.name) \in Folders
  BY FolderOfKnown DEF RepairInv, TypeOK
<1>2. q \in Paths /\ q.dup = 0
  BY <1>1, FilesAssumption DEF Path, Paths, Dirs
<1>3. \A k \in 0..MaxDup : [q EXCEPT !.dup = k] = Path(FolderOf(p.name), p.name, k)
  BY DEF Path
<1>4. target' = {CollisionSafe(q)}
  BY DEF RepairCheck
<1> HIDE DEF q
<1>5. \E k \in 0..MaxDup : ~Present([q EXCEPT !.dup = k])
  <2>1. PICK k \in 0..MaxDup : ~Present(Path(FolderOf(p.name), p.name, k))
    BY DEF NameIsFree
  <2>2. ~Present([q EXCEPT !.dup = k])
    BY <1>3, <2>1
  <2> QED
    BY <2>2
<1>6. CollisionSafe(q) \in Paths /\ ~Present(CollisionSafe(q))
  BY <1>2, <1>5, CollisionSafeIs
<1> QED
  BY <1>4, <1>6

\* Every step keeps what is at the free name recorded.
LEMMA RacedStep ==
    ASSUME IInv, NameIsFree, RacedInv, [Next]_vars
    PROVE  RacedInv'
<1> USE DEF IInv
<1>1. CASE Extraction
  <2>1. /\ UNCHANGED <<crossed, target>> /\ raced' = raced \union Arrived
    BY <1>1 DEF Extraction, repairVars
  <2>2. ASSUME NEW g \in files' \ files, PathOf(g) \in target PROVE g.what \in raced'
    BY <2>1, <2>2 DEF Arrived
  <2> QED
    BY <2>1, <2>2 DEF RacedInv
<1>2. CASE Cleaning
  <2>1. UNCHANGED <<crossed, target, raced>> /\ CleanNext
    BY <1>2 DEF Cleaning, repairVars
  <2>2. ASSUME NEW g \in files' \ files PROVE PathOf(g) \notin target
    <3>1. g.dir \notin Folders
      BY <2>1, CleaningArrives
    <3>2. PathOf(g).dir = g.dir
      BY DEF PathOf, Path
    <3>3. \A t \in target : t.dir \in Folders
      BY DEF RepairInv
    <3> QED
      BY <3>1, <3>2, <3>3
  <2> QED
    BY <2>1, <2>2 DEF RacedInv
<1>3. ASSUME NEW p \in plan, RepairCheck(p), raced' = raced PROVE RacedInv'
  <2>1. UNCHANGED <<files, crossed>>
    BY <1>3 DEF RepairCheck
  <2>2. PICK t \in Paths : target' = {t} /\ ~Present(t)
    BY <1>3, CheckFinds
  <2> QED
    BY <1>3, <2>1, <2>2 DEF RacedInv, Present, At
<1>4. CASE RepairMove /\ raced' = raced
  <2>1. target' = {}
    BY <1>4 DEF RepairMove, NoPath
  <2>2. \A g \in UNION {At(p) : p \in target} : g.what \in raced
    BY DEF RacedInv, At
  <2>3. crossed' \subseteq crossed \union {g.what : g \in UNION {At(p) : p \in target}}
    BY <1>4 DEF RepairMove
  <2> QED
    BY <1>4, <2>1, <2>2, <2>3 DEF RacedInv
<1>5. CASE (RepairPlan \/ RepairEnd \/ RepairKill) /\ raced' = raced
  BY <1>5 DEF RepairPlan, RepairEnd, RepairKill, NoPath, RacedInv
<1>6. CASE UNCHANGED vars
  BY <1>6 DEF vars, repairVars, RacedInv
<1> QED
  BY <1>1, <1>2, <1>3, <1>4, <1>5, <1>6 DEF Next, Repair, RepairNext

\* OverwritesOnlyRaced, while names are left: what a rename of repair.rs overwrites came to
\* the free name between the look and the rename.
THEOREM OverwritesAreRaced == Spec /\ []NameIsFree => []OverwritesOnlyRaced
<1>1. Init => RacedInv
  BY DEF Init, RepairInit, NoPath, RacedInv
<1>2. IInv /\ NameIsFree /\ RacedInv /\ [Next]_vars => RacedInv'
  BY RacedStep
<1>3. RacedInv => OverwritesOnlyRaced
  BY DEF RacedInv, OverwritesOnlyRaced
<1> QED
  BY <1>1, <1>2, <1>3, IInvHolds, PTL DEF Spec
=============================================================================
