----------------------------- MODULE RomListing -----------------------------
(***************************************************************************)
(* The list of a device's ROMs on the dashboard (dashboard.rs): the         *)
(* rom_scanned rows of the server's table events, which scans add           *)
(* (scanner.rs, cmd_sync_once) and the answers to deletions take away       *)
(* (delete_ack in routes.rs).  The table is also what events are            *)
(* deduplicated by, and DELETE ... LIKE looks neither at the device nor at   *)
(* where in the payload the path stands.                                    *)
(***************************************************************************)
EXTENDS Naturals, Sequences, FiniteSets, SequencesExt

CONSTANTS
    Devices, Paths, None,
    Matching,       \* of a path: the paths LIKE '%' || path || '%' finds
    Sizes, MaxChanges, MaxScans, MaxRequests, MaxFaults     \* bounds

VARIABLES
    card,           \* size of a ROM, Absent if it is not there
    games,          \* sizes the agent's index has; the rows of deleted ROMs stay
    outbox,         \* events to be sent
    batch,          \* how many of them a request of cmd_sync_once carries
    rows,           \* rom_scanned rows of the table events
    wanted,         \* pending rows of delete_requests
    answer,         \* the path an agent has dealt with, and whether it could
    sweeping,       \* the ROM whose rows delete_ack is about to drop
    swept,          \* history: ROMs whose rows a deletion took away
    unmet,          \* history: requests the list does not show yet
    scans, changes, requests, faults

listVars == <<card, games, outbox, batch, rows, wanted, answer, sweeping, swept,
              unmet, scans, changes, requests, faults>>

Absent == 0
Roms == Devices \X Paths
Events == [id : Nat, device : Devices, path : Paths]
NoAnswer == [path |-> None, ok |-> FALSE]

ListAssumption ==
    /\ Matching \in [Paths -> SUBSET Paths]
    /\ \A p \in Paths : p \in Matching[p]
    /\ None \notin Paths

Init ==
    /\ card \in [Devices -> [Paths -> Sizes \union {Absent}]]
    /\ games = [d \in Devices |-> [p \in Paths |-> Absent]]
    /\ outbox = [d \in Devices |-> <<>>] /\ batch = [d \in Devices |-> 0]
    /\ rows = {} /\ wanted = {}
    /\ answer = [d \in Devices |-> NoAnswer] /\ sweeping = {}
    /\ swept = {} /\ unmet = {}
    /\ scans = 0 /\ changes = 0 /\ requests = 0 /\ faults = 0

\* Uploads and deletions on the device
Change(d, p) ==
    /\ changes < MaxChanges
    /\ changes' = changes + 1
    /\ \E s \in (Sizes \union {Absent}) \ {card[d][p]} : card' = [card EXCEPT ![d][p] = s]
    /\ UNCHANGED <<games, outbox, batch, rows, wanted, answer, sweeping, swept, unmet,
                   scans, requests, faults>>

-----------------------------------------------------------------------------
(* Agent: cmd_scan and cmd_sync_once *)

\* What the index does not have in this size
News(d) == {p \in Paths : card[d][p] \notin {Absent, games[d][p]}}

Found(d) ==
    LET found == SetToSeq(News(d))
        sent == scans * Cardinality(Paths)
    IN [i \in DOMAIN found |-> [id |-> sent + i, device |-> d, path |-> found[i]]]

Scan(d) ==
    /\ scans < MaxScans
    /\ scans' = scans + 1
    /\ games' = [games EXCEPT ![d] =
                    [p \in Paths |-> IF p \in News(d) THEN card[d][p] ELSE @[p]]]
    /\ outbox' = [outbox EXCEPT ![d] = @ \o Found(d)]
    /\ UNCHANGED <<card, batch, rows, wanted, answer, sweeping, swept, unmet, changes,
                   requests, faults>>

Fresh(event) == event \notin rows

\* events_batch, under the mutex: a row that is there is a duplicate.
Store(d) ==
    /\ batch[d] = 0 /\ outbox[d] # <<>> /\ sweeping = {}
    /\ batch' = [batch EXCEPT ![d] = Len(outbox[d])]
    /\ LET new == {event \in Range(outbox[d]) : Fresh(event)}
       IN /\ rows' = rows \union new
          /\ swept' = swept \ {<<d, event.path>> : event \in new}
    /\ UNCHANGED <<card, games, outbox, wanted, answer, sweeping, unmet, scans, changes,
                   requests, faults>>

\* Mutant: whatever is pending by now is marked.
Emptied(box, n) == <<>>

\* mark_sent: what the answer names
Marked(box, n) == SubSeq(box, n + 1, Len(box))

Confirm(d) ==
    /\ batch[d] > 0
    /\ outbox' = [outbox EXCEPT ![d] = Marked(@, batch[d])]
    /\ batch' = [batch EXCEPT ![d] = 0]
    /\ UNCHANGED <<card, games, rows, wanted, answer, sweeping, swept, unmet, scans,
                   changes, requests, faults>>

\* The answer is lost: the batch is sent again.
Unconfirmed(d) ==
    /\ batch[d] > 0 /\ faults < MaxFaults
    /\ faults' = faults + 1
    /\ batch' = [batch EXCEPT ![d] = 0]
    /\ UNCHANGED <<card, games, outbox, rows, wanted, answer, sweeping, swept, unmet,
                   scans, changes, requests>>

-----------------------------------------------------------------------------
(* Deletions: "Queue delete" is a button of a listed ROM. *)

Listed(d, p) == \E event \in rows : event.device = d /\ event.path = p

Request(d, p) ==
    /\ requests < MaxRequests /\ Listed(d, p) /\ sweeping = {}
    /\ requests' = requests + 1
    /\ wanted' = wanted \union {<<d, p>>}
    /\ unmet' = unmet \union {<<d, p>>}
    /\ UNCHANGED <<card, games, outbox, batch, rows, answer, sweeping, swept, scans,
                   changes, faults>>

\* delete_one; the agent's index keeps its row.
DeleteOne(d, p) ==
    /\ answer[d] = NoAnswer /\ <<d, p>> \in wanted
    /\ card' = [card EXCEPT ![d][p] = Absent]
    /\ answer' = [answer EXCEPT ![d] = [path |-> p, ok |-> TRUE]]
    /\ UNCHANGED <<games, outbox, batch, rows, wanted, sweeping, swept, unmet, scans,
                   changes, requests, faults>>

DeleteFails(d, p) ==
    /\ answer[d] = NoAnswer /\ <<d, p>> \in wanted /\ card[d][p] # Absent
    /\ faults < MaxFaults
    /\ faults' = faults + 1
    /\ answer' = [answer EXCEPT ![d] = [path |-> p, ok |-> FALSE]]
    /\ unmet' = unmet \ {<<d, p>>}
    /\ UNCHANGED <<card, games, outbox, batch, rows, wanted, sweeping, swept, scans,
                   changes, requests>>

\* delete_ack: the UPDATE, which commits by itself
Ack(d) ==
    /\ answer[d] # NoAnswer /\ sweeping = {}
    /\ wanted' = wanted \ {<<d, answer[d].path>>}
    /\ sweeping' = IF answer[d].ok THEN {<<d, answer[d].path>>} ELSE {}
    /\ answer' = [answer EXCEPT ![d] = NoAnswer]
    /\ UNCHANGED <<card, games, outbox, batch, rows, swept, unmet, scans, changes,
                   requests, faults>>

\* The answer does not arrive, or the agent dies before it sends one.
AckLost(d) ==
    /\ answer[d] # NoAnswer /\ faults < MaxFaults
    /\ faults' = faults + 1
    /\ answer' = [answer EXCEPT ![d] = NoAnswer]
    /\ UNCHANGED <<card, games, outbox, batch, rows, wanted, sweeping, swept, unmet,
                   scans, changes, requests>>

\* Mutant: LIKE without the two %
Alike(p) == {}

Matched(p) == Matching[p]

\* delete_ack: the DELETE
Sweep ==
    /\ sweeping # {}
    /\ \E rom \in sweeping :
          /\ rows' = {event \in rows : event.path \notin Matched(rom[2])}
          /\ swept' = swept \union (Devices \X Matching[rom[2]])
    /\ unmet' = {rom \in unmet : Listed(rom[1], rom[2])'}
    /\ sweeping' = {}
    /\ UNCHANGED <<card, games, outbox, batch, wanted, answer, scans, changes, requests,
                   faults>>

\* The server dies between the two statements, or the second one fails.
SweepFails ==
    /\ sweeping # {} /\ faults < MaxFaults
    /\ faults' = faults + 1
    /\ unmet' = unmet \ sweeping
    /\ sweeping' = {}
    /\ UNCHANGED <<card, games, outbox, batch, rows, wanted, answer, swept, scans,
                   changes, requests>>

Cleanup(d) == Ack(d) \/ \E p \in Paths : DeleteOne(d, p)

Synchronise(d) == Store(d) \/ Confirm(d)

Next ==
    \/ \E d \in Devices :
          \/ Scan(d) \/ Synchronise(d) \/ Unconfirmed(d)
          \/ Cleanup(d) \/ AckLost(d)
          \/ \E p \in Paths : Change(d, p) \/ Request(d, p) \/ DeleteFails(d, p)
    \/ Sweep \/ SweepFails

Spec == Init /\ [][Next]_listVars

\* cmd_run synchronises and cleans up in every round; a handler ends.
FairSpec ==
    /\ Spec
    /\ WF_listVars(Sweep)
    /\ \A d \in Devices : WF_listVars(Cleanup(d)) /\ WF_listVars(Synchronise(d))

-----------------------------------------------------------------------------
(* Properties *)

\* Every variable has its type.
TypeOK ==
    /\ {card, games} \subseteq [Devices -> [Paths -> Sizes \union {Absent}]]
    /\ \A d \in Devices : outbox[d] \in Seq(Events) /\ batch[d] \in 0..Len(outbox[d])
    /\ rows \subseteq Events
    /\ wanted \union swept \union unmet \subseteq Roms
    /\ \A d \in Devices : answer[d].path \in Paths \union {None}
    /\ sweeping \subseteq Roms

Underway(d, p) == \E event \in Range(outbox[d]) : event.path = p

\* A ROM a scan has recorded, and will not announce again, is on the list or on its
\* way there, unless a deletion took its row away: its own, or one whose path matches.
ScannedIsListed ==
    \A d \in Devices, p \in Paths :
        games[d][p] # Absent /\ <<d, p>> \notin swept => Listed(d, p) \/ Underway(d, p)

\* A ROM the dashboard asks to be deleted leaves the list, unless the deletion fails
\* or the server dies in the middle of the answer.
AllMet == unmet = {}
RequestedLeaves == []<>AllMet

\* dashboard.rs:1155: "No ROMs scanned for this device. Run Playora Scan ROMs": a scan
\* whose events have arrived puts the ROMs of the card on the list.
ScanLists ==
    [][ \A d \in Devices :
          (Scan(d) /\ outbox'[d] = <<>>)
          => \A p \in Paths : card[d][p] # Absent => Listed(d, p) ]_listVars

\* dashboard.rs:1116, "Per-device ROMs": what is deleted on one device leaves the list
\* of no other one.
OthersStay ==
    [][ \A d \in Devices, p \in Paths :
          Listed(d, p) /\ ~Listed(d, p)' => card[d][p] = Absent ]_listVars

\* routes.rs:624, "Also drop from games table on success": a ROM that was deleted and
\* is not on the card again is not on the list again.
DeletedStaysOff ==
    [][ \A d \in Devices, p \in Paths :
          <<d, p>> \in swept /\ Listed(d, p)' => Listed(d, p) \/ card[d][p] # Absent ]_listVars
=============================================================================
