---------------------------- MODULE EventStream -----------------------------
(***************************************************************************)
(* The stream of new events a dashboard reads from the server:             *)
(* device_events_stream in playora-server/src/routes.rs.                   *)
(*                                                                         *)
(* A row is its id in the table events (AUTOINCREMENT).  When a client     *)
(* connects, the last id is read; then, every 2 s, up to Limit rows above  *)
(* it are pushed.  The future of a poll has a copy of last_id (an i64 in   *)
(* an `async move` block): what it assigns to it is gone when it returns,  *)
(* and the next poll starts where the first one did.                       *)
(***************************************************************************)
EXTENDS Integers, FiniteSets

CONSTANTS
    MaxRows,    \* bound: rows in the table
    Clients,    \* connections
    Limit       \* LIMIT 100

StreamAssumption == MaxRows \in Nat /\ Limit \in Nat \ {0}

VARIABLES
    top,        \* ids 1 .. top are in the table, for this device
    online,     \* clients connected
    lastId,     \* last_id in the closure of a connection, not in a poll's copy
    pushed,     \* rows pushed to a client on this connection
    twice       \* history: rows pushed to a client more than once

vars == <<top, online, lastId, pushed, twice>>

Init ==
    /\ top = 0
    /\ online = {}
    /\ lastId = [c \in Clients |-> 0]
    /\ pushed = [c \in Clients |-> {}]
    /\ twice = [c \in Clients |-> {}]

\* events_batch stores an event of the device.
InsertRow ==
    /\ top < MaxRows
    /\ top' = top + 1
    /\ UNCHANGED <<online, lastId, pushed, twice>>

\* Mutant: the id the next row will have.
NextId == top + 1

\* SELECT COALESCE(MAX(id), 0)
MaxId == top

Connect(c) ==
    /\ c \notin online
    /\ online' = online \union {c}
    /\ lastId' = [lastId EXCEPT ![c] = MaxId]
    /\ pushed' = [pushed EXCEPT ![c] = {}]
    /\ twice' = [twice EXCEPT ![c] = {}]
    /\ UNCHANGED top

\* Mutant: the newest rows instead of the oldest.
NewestRows(from) == {row \in from + 1 .. top : row > top - Limit}

\* Mutant: the row after the last id is skipped.
SkipsOne(from) == {row \in from + 2 .. top : row <= from + 1 + Limit}

\* SELECT ... WHERE id > last_id ORDER BY id LIMIT ...
NewRows(from) == {row \in from + 1 .. top : row <= from + Limit}

Poll(c) ==
    /\ c \in online
    /\ pushed' = [pushed EXCEPT ![c] = @ \union NewRows(lastId[c])]
    /\ twice' = [twice EXCEPT ![c] = @ \union (pushed[c] \intersect NewRows(lastId[c]))]
    /\ UNCHANGED <<top, online, lastId>>

Disconnect(c) ==
    /\ c \in online
    /\ online' = online \ {c}
    /\ UNCHANGED <<top, lastId, pushed, twice>>

Next ==
    \/ InsertRow
    \/ \E c \in Clients : Connect(c) \/ Poll(c) \/ Disconnect(c)

Spec == Init /\ [][Next]_vars

\* The interval of a connection keeps ticking; whether anybody connects and
\* stays is up to the clients.
FairSpec == Spec /\ \A c \in Clients : WF_vars(Poll(c))

-----------------------------------------------------------------------------
(* Properties *)

\* Every variable has its type and only rows of the table are pushed.
TypeOK ==
    /\ top \in 0 .. MaxRows
    /\ online \in SUBSET Clients
    /\ lastId \in [Clients -> 0 .. top]
    /\ pushed \in [Clients -> SUBSET (1 .. top)]
    /\ twice \in [Clients -> SUBSET (1 .. top)]

\* A client has no gap in what it was pushed: everything between the moment
\* of its connection and the newest row it has.
NoGaps ==
    \A c \in Clients : \A row \in pushed[c] : lastId[c] + 1 .. row \subseteq pushed[c]

\* A client that stays gets the first Limit rows that follow its connection.
Due(c) == {row \in lastId[c] + 1 .. lastId[c] + Limit : row <= top}
UpToDate(c) == c \in online => Due(c) \subseteq pushed[c]
FirstRowsArrive == \A c \in Clients : []<>UpToDate(c)

\* routes.rs:1021: "Polls every 2s for new rows in `events` since the last
\* id", so that no row is news twice.
PushedOnce == \A c \in Clients : twice[c] = {}
=============================================================================
