---------------------------- MODULE FileBrowser -----------------------------
(***************************************************************************)
(* The file browser of the agent (fileserver.rs): uploads, moves, removals  *)
(* and downloads, which a client resumes with a Range where the last answer *)
(* broke off.  A file is its sequence of bytes, a byte the upload it came   *)
(* with.  Positions are unsigned words: release builds wrap around.         *)
(***************************************************************************)
EXTENDS Naturals, Sequences, FiniteSets, SequencesExt

CONSTANTS
    Paths, Inodes, MaxUploads,
    MaxSize,        \* of an upload
    Word,           \* 2^64
    MaxBreaks       \* bounds

VARIABLES
    entry,          \* the inode of a path, or None
    content,        \* of an inode
    uploads,        \* uploads that have begun, with what they are at
    stream,         \* the answer that is being sent
    client,         \* what the client has of the file it wants
    breaks,
    mixed,          \* history: inodes two uploads were writing at the same time
    changed         \* history: the file changed since the client's first request

browserVars == <<entry, content, uploads, stream, client, breaks, mixed, changed>>

None == 0
NoStream == [open |-> FALSE, inode |-> None, at |-> 0, left |-> 0]
NoClient == [state |-> "new", path |-> None, total |-> 0, have |-> <<>>]

Init ==
    /\ entry = [p \in Paths |-> None]
    /\ content = [i \in Inodes |-> <<>>]
    /\ uploads = <<>> /\ stream = NoStream /\ client = NoClient /\ breaks = 0
    /\ mixed = {} /\ changed = FALSE

Linked == {entry[p] : p \in Paths}
InUse == Linked \union {stream.inode} \union {uploads[u].inode : u \in DOMAIN uploads}
Writing(i) == {u \in DOMAIN uploads : uploads[u].inode = i /\ uploads[u].writing}

-----------------------------------------------------------------------------
(* Changes: upload_file, move_path, delete_path *)

Note(path) == changed' = (changed \/ (client.state # "new" /\ client.path = path))

\* Mutant: a file that is there is written over without being cut.
NotCut(i) == content[i]

Cut(i) == <<>>

\* The bytes of the upload have all arrived; its file is opened for writing.
BeginUpload(p) ==
    /\ Len(uploads) < MaxUploads
    /\ \E size \in 1..MaxSize, i \in IF entry[p] # None THEN {entry[p]} ELSE Inodes \ InUse :
        /\ entry' = [entry EXCEPT ![p] = i]
        /\ content' = [content EXCEPT ![i] = Cut(i)]
        /\ uploads' = Append(uploads, [inode |-> i, size |-> size, writing |-> TRUE])
        /\ mixed' = IF Writing(i) # {} THEN mixed \union {i} ELSE mixed \ {i}
    /\ Note(p)
    /\ UNCHANGED <<stream, client, breaks>>

WriteUpload(u) ==
    /\ uploads[u].writing
    /\ LET i == uploads[u].inode
       IN content' = [content EXCEPT ![i] =
              [k \in 1..uploads[u].size |-> u] \o SubSeq(@, uploads[u].size + 1, Len(@))]
    /\ uploads' = [uploads EXCEPT ![u].writing = FALSE]
    /\ changed' = (changed \/ client.state # "new")
    /\ UNCHANGED <<entry, stream, client, breaks, mixed>>

\* rename(2)
Move(p, q) ==
    /\ entry[p] # None /\ p # q
    /\ entry' = [entry EXCEPT ![q] = entry[p], ![p] = None]
    /\ changed' = (changed \/ (client.state # "new" /\ client.path \in {p, q}))
    /\ UNCHANGED <<content, uploads, stream, client, breaks, mixed>>

Delete(p) ==
    /\ entry[p] # None
    /\ entry' = [entry EXCEPT ![p] = None]
    /\ Note(p)
    /\ UNCHANGED <<content, uploads, stream, client, breaks, mixed>>

-----------------------------------------------------------------------------
(* download_file *)

Minus(a, b) == (a + Word - b) % Word

\* Mutant: the position is that of the last byte the client has.
OneBefore(from) == IF from = 0 THEN 0 ELSE from - 1

From(from) == from

\* parse_range of "bytes=from-", and without a Range
Span(from, total) == [start |-> From(from), end |-> Minus(total, 1)]

\* Mutant: one byte more than the span has.
OneMore(span) == Minus(span.end + 2, span.start)

\* CONTENT_LENGTH
Claimed(span) == Minus(span.end + 1, span.start)

Request(p) ==
    /\ client.state \in {"new", "broken"} /\ ~stream.open
    /\ client.state = "broken" => client.path = p
    /\ entry[p] # None
    /\ LET total == Len(content[entry[p]])
           span == Span(Len(client.have), total)
       IN /\ stream' = [open |-> TRUE, inode |-> entry[p], at |-> span.start, left |-> Claimed(span)]
          /\ client' = [client EXCEPT !.state = "reading", !.path = p, !.total = total]
    /\ changed' = (changed \/ Writing(entry[p]) # {})
    /\ UNCHANGED <<entry, content, uploads, breaks, mixed>>

Vanished(p) ==
    /\ client.state = "broken" /\ client.path = p /\ entry[p] = None
    /\ client' = NoClient /\ changed' = FALSE
    /\ UNCHANGED <<entry, content, uploads, stream, breaks, mixed>>

Body == content[stream.inode]

Send ==
    /\ stream.open /\ stream.left > 0 /\ stream.at < Len(Body)
    /\ client' = [client EXCEPT !.have = Append(@, Body[stream.at + 1])]
    /\ stream' = [stream EXCEPT !.at = @ + 1, !.left = @ - 1]
    /\ UNCHANGED <<entry, content, uploads, breaks, mixed, changed>>

Sent ==
    /\ stream.open /\ stream.left = 0
    /\ stream' = NoStream
    /\ client' = [client EXCEPT !.state = "done"]
    /\ UNCHANGED <<entry, content, uploads, breaks, mixed, changed>>

\* The connection breaks, or the file ends before the length that was announced.
Break ==
    /\ stream.open
    /\ breaks < MaxBreaks \/ (stream.left > 0 /\ stream.at >= Len(Body))
    /\ breaks' = IF breaks < MaxBreaks THEN breaks + 1 ELSE breaks
    /\ stream' = NoStream
    /\ client' = [client EXCEPT !.state = "broken"]
    /\ UNCHANGED <<entry, content, uploads, mixed, changed>>

Download == Send \/ Sent \/ \E p \in Paths : (client.state = "broken" /\ Request(p)) \/ Vanished(p)

Next ==
    \/ \E p \in Paths : BeginUpload(p) \/ Delete(p) \/ Request(p) \/ Vanished(p)
    \/ \E p, q \in Paths : Move(p, q)
    \/ \E u \in DOMAIN uploads : WriteUpload(u)
    \/ Send \/ Sent \/ Break

Spec == Init /\ [][Next]_browserVars

\* A client that was cut off tries again, and what it asked for is sent.
FairSpec == Spec /\ WF_browserVars(Download)

-----------------------------------------------------------------------------
(* Properties *)

\* Every variable has its type; lengths stay within what the file can have.
TypeOK ==
    /\ entry \in [Paths -> Inodes \union {None}]
    /\ \A i \in Inodes : Len(content[i]) <= MaxSize
    /\ client.state \in {"new", "reading", "broken", "done"}
    /\ stream.left \in 0..Word - 1 /\ breaks \in 0..MaxBreaks

\* A file is one upload, whatever was there before, unless two uploads of it were
\* written at the same time.
FileIsOneUpload ==
    \A i \in Linked \ (mixed \union {None}) : Writing(i) = {} => Cardinality(ToSet(content[i])) <= 1

\* What a client has pieced together is the file, however often the download broke
\* off, as long as the file did not change meanwhile.
ResumedIsWhole ==
    client.state = "done" /\ ~changed /\ entry[client.path] # None =>
        client.have = content[entry[client.path]]

\* A download that broke off comes to its end.
Broken == client.state = "broken"
OverOrChanged == client.state \in {"done", "new"} \/ changed
DownloadEnds == Broken ~> OverOrChanged
=============================================================================
