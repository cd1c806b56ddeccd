---------------------------- MODULE LibraryIndex ----------------------------
(***************************************************************************)
(* What is known of the ROMs of a card: the table games of the agent, which *)
(* a scan fills (cmd_scan in scanner.rs), its table of covers               *)
(* (cmd_fetch_covers in metadata.rs), and the server's table of metadata,   *)
(* which the events of both change (events_batch in routes.rs).  EventSync  *)
(* carries the events in their order.                                       *)
(***************************************************************************)
EXTENDS Naturals, Sequences, FiniteSets, SequencesExt

CONSTANTS
    Roms,           \* paths
    Titles,         \* what is left of names when they are cleaned
    TitleOf,        \* of a path
    InitialRows,    \* titles of the agent's cover table, oldest row first
    Batch,          \* LIMIT 50
    Sizes, MaxScans, MaxFetches, MaxFaults      \* bounds

IndexAssumption ==
    /\ TitleOf \in [Roms -> Titles] /\ InitialRows \in Seq(Titles)
    /\ {MaxScans, MaxFetches, MaxFaults} \subseteq Nat

VARIABLES
    disk,           \* size of a ROM, Absent if it is not there
    games,          \* sizes the agent's index has
    scan,           \* a running scan: what is left to look at, its transaction
    coverRows,      \* rows of the agent's cover table
    fetch,          \* rows a running fetch is to look up
    stored,         \* the cover that is stored and not yet reported
    outbox,
    known,          \* size of a ROM in the last event the server has of it
    metadata,       \* of a title on the server: does it have a row, has it a cover
    scans, fetches, faults,
    stale           \* history: ROMs no complete scan has read as they are now: changed
                    \* since, or passed over

indexVars == <<disk, games, scan, coverRows, fetch, stored, outbox, known, metadata,
               scans, fetches, faults, stale>>

Absent == 0
NoScan == [on |-> FALSE, todo |-> {}, games |-> <<>>, events |-> <<>>, seen |-> {}]
NoFetch == [on |-> FALSE, todo |-> {}]
NoTitle == "no title"

Init ==
    /\ disk \in [Roms -> Sizes \union {Absent}]
    /\ games = [r \in Roms |-> Absent] /\ known = games
    /\ scan = NoScan /\ fetch = NoFetch /\ stored = NoTitle
    /\ coverRows = {[id |-> i, title |-> InitialRows[i], cover |-> FALSE] : i \in DOMAIN InitialRows}
    /\ outbox = <<>>
    /\ metadata = [t \in Titles |-> [row |-> FALSE, cover |-> FALSE]]
    /\ scans = 0 /\ fetches = 0 /\ faults = 0 /\ stale = Roms

\* Uploads, extraction, deletion
Change(r) ==
    /\ faults < MaxFaults
    /\ faults' = faults + 1
    /\ \E s \in Sizes \union {Absent} : disk' = [disk EXCEPT ![r] = s]
    /\ stale' = stale \union {r}
    /\ scan' = [scan EXCEPT !.seen = @ \ {r}]
    /\ UNCHANGED <<games, coverRows, fetch, stored, outbox, known, metadata, scans, fetches>>

-----------------------------------------------------------------------------
(* cmd_scan: one transaction *)

BeginScan ==
    /\ ~scan.on /\ scans < MaxScans
    /\ scans' = scans + 1
    /\ scan' = [on |-> TRUE, todo |-> Roms, games |-> games, events |-> <<>>, seen |-> {}]
    /\ UNCHANGED <<disk, games, coverRows, fetch, stored, outbox, known, metadata, fetches, faults, stale>>

Scanned(r) == [kind |-> "rom", rom |-> r, size |-> disk[r], title |-> TitleOf[r]]
Blank(r) == [kind |-> "metadata", title |-> TitleOf[r], cover |-> FALSE]

\* Mutant: whatever is in the index is skipped.
InIndex(r) == scan.games[r] # Absent

\* Nothing there, or the same size as in the index
Unchanged(r) == disk[r] \in {Absent, scan.games[r]}

LookAt(r) ==
    /\ scan.on /\ r \in scan.todo
    /\ scan' = IF Unchanged(r) \/ disk[r] = Absent THEN [scan EXCEPT !.todo = @ \ {r}, !.seen = @ \union {r}]
               ELSE [scan EXCEPT !.todo = @ \ {r}, !.seen = @ \union {r}, !.games[r] = disk[r],
                                 !.events = @ \o <<Scanned(r), Blank(r)>>]
    /\ UNCHANGED <<disk, games, coverRows, fetch, stored, outbox, known, metadata,
                   scans, fetches, faults, stale>>

\* A ROM that is there is not read: its metadata or its hash fails, or the walk cannot
\* read the folder it is in.  The scan goes on without it, and succeeds.
PassOver(r) ==
    /\ scan.on /\ r \in scan.todo /\ disk[r] # Absent
    /\ scan' = [scan EXCEPT !.todo = @ \ {r}]
    /\ UNCHANGED <<disk, games, coverRows, fetch, stored, outbox, known, metadata,
                   scans, fetches, faults, stale>>

Commit ==
    /\ scan.on /\ scan.todo = {}
    /\ games' = scan.games
    /\ outbox' = outbox \o scan.events
    /\ stale' = stale \ scan.seen
    /\ scan' = NoScan
    /\ UNCHANGED <<disk, coverRows, fetch, stored, known, metadata, scans, fetches, faults>>

\* Mutant: every row is committed on its own, and the events at the end.
RowByRow == scan.games

RolledBack == games

\* Killed, the power, the database, or the folder of all systems cannot be read
ScanEnds ==
    /\ scan.on /\ faults < MaxFaults
    /\ faults' = faults + 1
    /\ games' = RolledBack
    /\ scan' = NoScan
    /\ UNCHANGED <<disk, coverRows, fetch, stored, outbox, known, metadata, scans, fetches, stale>>

-----------------------------------------------------------------------------
(* cmd_fetch_covers *)

\* ORDER BY id LIMIT 50
Uncovered ==
    LET rows == {row \in coverRows : ~row.cover}
    IN  {row \in rows : Cardinality({other \in rows : other.id < row.id}) < Batch}

BeginFetch ==
    /\ ~fetch.on /\ fetches < MaxFetches
    /\ fetches' = fetches + 1
    /\ fetch' = [on |-> Uncovered # {}, todo |-> Uncovered]
    /\ UNCHANGED <<disk, games, scan, coverRows, stored, outbox, known, metadata, scans, faults, stale>>

\* The row of the fetch whose turn it is
Oldest(row) == row \in fetch.todo /\ \A other \in fetch.todo : row.id <= other.id

\* INSERT OR REPLACE: the row goes to the end.
Store(row) ==
    /\ fetch.on /\ Oldest(row) /\ stored = NoTitle
    /\ coverRows' = {other \in coverRows : other.title # row.title}
                      \union {[id |-> 1 + Max({other.id : other \in coverRows}),
                               title |-> row.title, cover |-> TRUE]}
    /\ stored' = row.title
    /\ fetch' = [fetch EXCEPT !.todo = @ \ {row}]
    /\ UNCHANGED <<disk, games, scan, outbox, known, metadata, scans, fetches, faults, stale>>

ReportCover ==
    /\ stored # NoTitle
    /\ outbox' = Append(outbox, [kind |-> "metadata", title |-> stored, cover |-> TRUE])
    /\ stored' = NoTitle
    /\ UNCHANGED <<disk, games, scan, coverRows, fetch, known, metadata, scans, fetches, faults, stale>>

\* No match, no network
LookUpFails(row) ==
    /\ fetch.on /\ Oldest(row) /\ stored = NoTitle
    /\ fetch' = [fetch EXCEPT !.todo = @ \ {row}]
    /\ UNCHANGED <<disk, games, scan, coverRows, stored, outbox, known, metadata,
                   scans, fetches, faults, stale>>

EndFetch ==
    /\ fetch.on /\ fetch.todo = {} /\ stored = NoTitle
    /\ fetch' = NoFetch
    /\ UNCHANGED <<disk, games, scan, coverRows, stored, outbox, known, metadata,
                   scans, fetches, faults, stale>>

FetchKilled ==
    /\ fetch.on /\ faults < MaxFaults
    /\ faults' = faults + 1
    /\ fetch' = NoFetch /\ stored' = NoTitle
    /\ UNCHANGED <<disk, games, scan, coverRows, outbox, known, metadata, scans, fetches, stale>>

-----------------------------------------------------------------------------
(* The server *)

\* Mutant: what the event says, blank or not.
Overwritten(row, event) == [row |-> TRUE, cover |-> event.cover]

\* COALESCE(NULLIF(new, ''), old)
Merged(row, event) == [row |-> TRUE, cover |-> event.cover \/ row.cover]

\* A ROM is known by its stored event; the row of a title is a statement of its own, which
\* may fail or be cut off.
Deliver ==
    /\ outbox # <<>>
    /\ outbox' = Tail(outbox)
    /\ LET event == Head(outbox)
       IN IF event.kind = "rom"
          THEN known' = [known EXCEPT ![event.rom] = event.size] /\ UNCHANGED metadata
          ELSE /\ \/ metadata' = [metadata EXCEPT ![event.title] = Merged(@, event)]
                  \/ UNCHANGED metadata
               /\ UNCHANGED known
    /\ UNCHANGED <<disk, games, scan, coverRows, fetch, stored, scans, fetches, faults, stale>>

Next ==
    \/ \E r \in Roms : Change(r) \/ LookAt(r) \/ PassOver(r)
    \/ BeginScan \/ Commit \/ ScanEnds
    \/ \E row \in fetch.todo : Store(row) \/ LookUpFails(row)
    \/ BeginFetch \/ ReportCover \/ EndFetch \/ FetchKilled
    \/ Deliver

Spec == Init /\ [][Next]_indexVars

-----------------------------------------------------------------------------
(* Properties *)

\* Every variable has its type.
TypeOK ==
    /\ {disk, games, known} \subseteq [Roms -> Sizes \union {Absent}]
    /\ scan.on => scan.games \in [Roms -> Sizes \union {Absent}]
    /\ \A row \in coverRows \union fetch.todo : row.title \in Titles
    /\ stored \in Titles \union {NoTitle}
    /\ scans \in 0..MaxScans /\ fetches \in 0..MaxFetches /\ faults \in 0..MaxFaults
    /\ stale \subseteq Roms

\* The size of a ROM in the last event of the queue that has one
SizeIn(queue, r, otherwise) ==
    LET at == {i \in DOMAIN queue : queue[i].kind = "rom" /\ queue[i].rom = r}
    IN  IF at = {} THEN otherwise ELSE queue[CHOOSE i \in at : \A j \in at : j <= i].size

Announced(r) == SizeIn(outbox, r, known[r])

\* The index never runs ahead of what the server is told: a ROM whose size is in it
\* would be skipped by every later scan.
IndexIsAnnounced == \A r \in Roms : Announced(r) = games[r]

\* Once the events are delivered, the server knows every ROM of the card as a complete
\* scan has read it, if it did not change since.  A ROM that every scan since its last
\* change passed over stays stale: the scans succeed and say nothing of it.
CardIsKnown ==
    outbox = <<>> => \A r \in Roms \ stale : disk[r] # Absent => known[r] = disk[r]

\* A cover the server has stays, whatever is scanned again.
CoverStays == \A t \in Titles : metadata[t].cover => metadata'[t].cover
CoversStay == [][CoverStays]_indexVars

\* install-to-sd.sh:452, of fetch-covers: "Look up missing covers + metadata for every
\* scanned ROM": a run after a scan has something to look up.
CoversLookedUp ==
    [][ BeginFetch /\ (\E r \in Roms : games[r] # Absent) => fetch'.todo # {} ]_indexVars
=============================================================================
