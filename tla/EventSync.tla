----------------------------- MODULE EventSync ------------------------------
(***************************************************************************)
(* The path of an event from the agent's outbox to the server's tables.    *)
(*                                                                         *)
(* Several agent processes (the run loop, and the `activity` commands the  *)
(* scripts call) share one SQLite outbox and each may run cmd_sync_once    *)
(* (playora-agent/src/sync.rs) at any time: read a batch of pending rows,  *)
(* POST it, mark what the answer acknowledges, record the outcome.  The    *)
(* server (events_batch in playora-server/src/routes.rs) takes its one     *)
(* connection for a whole batch and commits each event, and then each      *)
(* event's projection, on its own.                                         *)
(*                                                                         *)
(* Faults: connections fail with the request or the answer on them, the    *)
(* client gives up after 15 s while the server goes on, an answer cannot   *)
(* be decoded, agent processes are killed, the device loses power (WAL     *)
(* with synchronous=NORMAL: what was committed since the last flush may    *)
(* go), the server process dies in the middle of a batch, an INSERT or a   *)
(* projection fails.  MaxFaults bounds how many of them a behaviour has.   *)
(***************************************************************************)
EXTENDS Integers, FiniteSets

CONSTANTS
    NumEvents,      \* bound: events a behaviour enqueues
    Syncers,        \* agent processes that run cmd_sync_once
    RunLoop,        \* the one that runs it forever, cmd_run
    Conns,          \* bound: HTTP requests that exist at the same time
    Nobody,         \* owner of a request its client has given up
    NoConn,         \* the server's connection is not taken
    BatchSize,      \* cfg.max_batch_size
    Sessions,       \* game sessions among the events
    StartOf,        \* StartOf[s], FinishOf[s]: the events that report
    FinishOf,       \*    the beginning and the end of session s
    MaxFaults       \* bound: faults of all kinds together

Event == 1 .. NumEvents

ASSUME SizesAreNatural ==
    NumEvents \in Nat \ {0} /\ BatchSize \in Nat \ {0} /\ MaxFaults \in Nat
ASSUME ActorsAreDistinct ==
    RunLoop \in Syncers /\ Nobody \notin Syncers /\ NoConn \notin Conns
ASSUME SessionsAreReportedInOrder ==
    /\ StartOf \in [Sessions -> Event]
    /\ FinishOf \in [Sessions -> Event]
    /\ \A s \in Sessions : StartOf[s] < FinishOf[s]
    /\ \A s, t \in Sessions :
          /\ StartOf[s] # FinishOf[t]
          /\ s # t => StartOf[s] # StartOf[t] /\ FinishOf[s] # FinishOf[t]

VARIABLES
    \* -- the agent's database, shared by its processes
    next,           \* id of the row enqueued next (AUTOINCREMENT)
    box,            \* events_outbox.status, "none" where there is no row
    lastSync,       \* sync_state: what `status` would tell of the last sync
    disk,           \* the part of that database a power cut cannot take
    \* -- the agent's processes and their requests
    pc,
    conn,
    \* -- the server's connection, held by one batch at a time
    serving,        \* the request that holds it
    todo,           \* events of the batch still to be inserted
    answer,         \* the SyncAck under construction
    fresh,          \* the event inserted whose projection is next, or 0
    \* -- the server's database
    device,         \* is there a row for the device?
    events,         \* rows of events, by event_id
    rows,           \* rows[e]: how often the projection of e was executed
    session,        \* row of game_sessions: "none", "open" or "closed"
    \* -- history
    rejected,       \* events some INSERT failed for
    skipped,        \* stored events whose projection was not executed
    faults

agentDB == <<next, box, lastSync, disk>>
agent   == <<pc, conn>>
server  == <<serving, todo, answer, fresh>>
tables  == <<device, events, rows, session>>
history == <<rejected, skipped>>
vars    == <<agentDB, agent, server, tables, history, faults>>

-----------------------------------------------------------------------------
(* Data *)

NoAnswer == [accepted |-> {}, duplicates |-> {}]
Answer   == [accepted : SUBSET Event, duplicates : SUBSET Event]

FreeConn == [phase |-> "free", owner |-> Nobody, batch |-> {}, ack |-> NoAnswer]
Conn     == [phase : {"free", "sent", "serving", "answered", "failed"},
             owner : Syncers \union {Nobody},
             batch : SUBSET Event,
             ack   : Answer]

Least(S) == CHOOSE e \in S : \A f \in S : e <= f

Pending == {e \in Event : box[e] = "pending"}

\* A row that was enqueued and then lost with the power.
Lost == {e \in Event : e < next /\ box[e] = "none"}

\* Mutant: ORDER BY id DESC.
NewestFirst(limit) ==
    {e \in Pending : Cardinality({f \in Pending : f > e}) < limit}

\* pending_events: SELECT ... WHERE status='pending' ORDER BY id LIMIT ?1
PendingEvents(limit) ==
    {e \in Pending : Cardinality({f \in Pending : f < e}) < limit}

\* Mutant: every event of the batch is taken as delivered.
WholeBatch(c) == conn[c].batch

\* Mutant: only accepted events are taken as delivered.
AcceptedOnly(c) == conn[c].ack.accepted

\* The ids cmd_sync_once hands to mark_sent.
Acked(c) == conn[c].ack.accepted \union conn[c].ack.duplicates

\* UPDATE events_outbox SET status='sent' WHERE event_id = each of S
MarkSent(S) ==
    [e \in Event |-> IF e \in S /\ box[e] # "none" THEN "sent" ELSE box[e]]

Fault == faults < MaxFaults /\ faults' = faults + 1

-----------------------------------------------------------------------------
(* The agent *)

Init ==
    /\ next = 1
    /\ box = [e \in Event |-> "none"]
    /\ lastSync = "never"
    /\ disk = [box |-> box, lastSync |-> lastSync]
    /\ pc = [p \in Syncers |-> "idle"]
    /\ conn = [c \in Conns |-> FreeConn]
    /\ serving = NoConn
    /\ todo = {}
    /\ answer = NoAnswer
    /\ fresh = 0
    /\ device = FALSE
    /\ events = {}
    /\ rows = [e \in Event |-> 0]
    /\ session = [s \in Sessions |-> "none"]
    /\ rejected = {}
    /\ skipped = {}
    /\ faults = 0

\* db::enqueue, called by whatever produces events: a fresh event_id, so
\* INSERT OR IGNORE never ignores.
Enqueue ==
    /\ next \in Event
    /\ box' = [box EXCEPT ![next] = "pending"]
    /\ next' = next + 1
    /\ UNCHANGED <<lastSync, disk, agent, server, tables, history, faults>>

\* cmd_sync_once up to send(): offline or with nothing pending it returns.
BeginSync(p) ==
    /\ pc[p] = "idle"
    /\ PendingEvents(BatchSize) # {}
    /\ \E c \in Conns :
          /\ conn[c].phase = "free"
          /\ conn' = [conn EXCEPT ![c] = [phase |-> "sent", owner |-> p,
                                         batch |-> PendingEvents(BatchSize),
                                         ack   |-> NoAnswer]]
    /\ pc' = [pc EXCEPT ![p] = "waiting"]
    /\ UNCHANGED <<agentDB, server, tables, history, faults>>

\* A 2xx answer that decodes: mark_sent, one transaction.
TakeAck(p, c) ==
    /\ conn[c].owner = p
    /\ conn[c].phase = "answered"
    /\ box' = MarkSent(Acked(c))
    /\ pc' = [pc EXCEPT ![p] = "marked"]
    /\ conn' = [conn EXCEPT ![c] = FreeConn]
    /\ UNCHANGED <<next, lastSync, disk, server, tables, history, faults>>

\* set_sync_success, which clears last_error.
RecordSuccess(p) ==
    /\ pc[p] = "marked"
    /\ lastSync' = "ok"
    /\ pc' = [pc EXCEPT ![p] = "idle"]
    /\ UNCHANGED <<next, box, disk, conn, server, tables, history, faults>>

\* A 2xx answer that does not decode: `?` leaves before anything is marked.
BadAck(p, c) ==
    /\ Fault
    /\ conn[c].owner = p
    /\ conn[c].phase = "answered"
    /\ pc' = [pc EXCEPT ![p] = "idle"]
    /\ conn' = [conn EXCEPT ![c] = FreeConn]
    /\ UNCHANGED <<agentDB, server, tables, history>>

\* send() failed or the status is not 2xx: set_sync_error.
SyncFailed(p, c) ==
    /\ conn[c].owner = p
    /\ conn[c].phase = "failed"
    /\ lastSync' = "error"
    /\ pc' = [pc EXCEPT ![p] = "idle"]
    /\ conn' = [conn EXCEPT ![c] = FreeConn]
    /\ UNCHANGED <<next, box, disk, server, tables, history, faults>>

\* Mutant: only the owner is forgotten, the slot of a finished request stays.
LeakedSlot(r) == [r EXCEPT !.owner = Nobody]

\* What is left of a request whose client is gone.
Abandoned(r) ==
    IF r.phase \in {"sent", "serving"} THEN [r EXCEPT !.owner = Nobody]
                                       ELSE FreeConn

\* The 15 s timeout of the client: set_sync_error, and the request lives on.
Timeout(p, c) ==
    /\ Fault
    /\ conn[c].owner = p
    /\ conn[c].phase \in {"sent", "serving"}
    /\ lastSync' = "error"
    /\ pc' = [pc EXCEPT ![p] = "idle"]
    /\ conn' = [conn EXCEPT ![c] = Abandoned(@)]
    /\ UNCHANGED <<next, box, disk, server, tables, history>>

\* An agent process dies (kill -9, a restart of the service).
Kill(p) ==
    /\ Fault
    /\ pc[p] # "idle"
    /\ pc' = [pc EXCEPT ![p] = "idle"]
    /\ conn' = [c \in Conns |->
                  IF conn[c].owner = p THEN Abandoned(conn[c]) ELSE conn[c]]
    /\ UNCHANGED <<agentDB, server, tables, history>>

\* SQLite flushes its log (WAL checkpoint).
Flush ==
    /\ disk # [box |-> box, lastSync |-> lastSync]
    /\ disk' = [box |-> box, lastSync |-> lastSync]
    /\ UNCHANGED <<next, box, lastSync, agent, server, tables, history, faults>>

\* The device goes off: every process dies and the unflushed commits go.
PowerLoss ==
    /\ Fault
    /\ box' = disk.box
    /\ lastSync' = disk.lastSync
    /\ pc' = [p \in Syncers |-> "idle"]
    /\ conn' = [c \in Conns |-> Abandoned(conn[c])]
    /\ UNCHANGED <<next, disk, server, tables, history>>

-----------------------------------------------------------------------------
(* The network *)

\* A connection fails, or the request on it is answered with an error
\* status before events_batch runs.
ConnFails(c) ==
    /\ Fault
    /\ conn[c].owner # Nobody
    /\ conn[c].phase \in {"sent", "answered"}
    /\ conn' = [conn EXCEPT ![c] = [@ EXCEPT !.phase = "failed", !.ack = NoAnswer]]
    /\ UNCHANGED <<agentDB, pc, server, tables, history>>

\* A request nobody waits for never arrives, or its handler is dropped while
\* it waits for the mutex.
DropLate(c) ==
    /\ conn[c].owner = Nobody
    /\ conn[c].phase = "sent"
    /\ conn' = [conn EXCEPT ![c] = FreeConn]
    /\ UNCHANGED <<agentDB, pc, server, tables, history, faults>>

-----------------------------------------------------------------------------
(* The server: events_batch *)

\* state.lock().await returns; the device is upserted.
Accept(c) ==
    /\ serving = NoConn
    /\ conn[c].phase = "sent"
    /\ serving' = c
    /\ todo' = conn[c].batch
    /\ conn' = [conn EXCEPT ![c].phase = "serving"]
    /\ device' = TRUE
    /\ UNCHANGED <<agentDB, pc, answer, fresh, events, rows, session, history,
                   faults>>

\* Mutant: events.event_id is not UNIQUE.
NeverDuplicate(e) == FALSE

\* The INSERT violates the UNIQUE constraint of events.event_id.
IsDuplicate(e) == e \in events

\* Mutant: the batch is served newest event first.
Greatest(S) == CHOOSE e \in S : \A f \in S : f <= e

\* The events of a batch are served in the order the agent sent them.
NextOf(S) == Least(S)

\* One round of the loop, up to the INSERT INTO events.
Insert ==
    /\ serving # NoConn
    /\ fresh = 0
    /\ todo # {}
    /\ LET e == NextOf(todo) IN
         /\ todo' = todo \ {e}
         /\ IF IsDuplicate(e)
              THEN /\ answer' = [answer EXCEPT !.duplicates = @ \union {e}]
                   /\ UNCHANGED <<fresh, events>>
              ELSE /\ events' = events \union {e}
                   /\ answer' = [answer EXCEPT !.accepted = @ \union {e}]
                   /\ fresh' = e
    /\ UNCHANGED <<agentDB, agent, serving, device, rows, session, history,
                   faults>>

\* The INSERT fails for another reason than UNIQUE.
Reject ==
    /\ Fault
    /\ serving # NoConn
    /\ fresh = 0
    /\ todo # {}
    /\ LET e == NextOf(todo) IN
         /\ todo' = todo \ {e}
         /\ rejected' = rejected \union {e}
    /\ UNCHANGED <<agentDB, agent, serving, answer, fresh, tables, skipped>>

\* game_sessions after the projection of e: INSERT OR REPLACE with ended_at
\* NULL for Started, an UPDATE that needs the row for Finished.
ProjectedSessions(e) ==
    [s \in Sessions |->
       CASE e = StartOf[s] -> "open"
         [] e = FinishOf[s] /\ session[s] # "none" -> "closed"
         [] OTHER -> session[s]]

\* The statements that follow an accepted INSERT, according to its payload.
Project ==
    /\ fresh # 0
    /\ rows' = [rows EXCEPT ![fresh] = @ + 1]
    /\ session' = ProjectedSessions(fresh)
    /\ fresh' = 0
    /\ UNCHANGED <<agentDB, agent, serving, todo, answer, device, events,
                   history, faults>>

\* They fail, and `let _ =` drops the error.
SkipProjection ==
    /\ Fault
    /\ fresh # 0
    /\ skipped' = skipped \union {fresh}
    /\ fresh' = 0
    /\ UNCHANGED <<agentDB, agent, serving, todo, answer, tables, rejected>>

\* The handler returns the SyncAck and drops the guard of the mutex.
Reply ==
    /\ serving # NoConn
    /\ fresh = 0
    /\ todo = {}
    /\ conn' = [conn EXCEPT ![serving] =
                  IF @.owner = Nobody THEN FreeConn
                  ELSE [@ EXCEPT !.phase = "answered", !.ack = answer]]
    /\ serving' = NoConn
    /\ answer' = NoAnswer
    /\ UNCHANGED <<agentDB, pc, todo, fresh, tables, history, faults>>

\* The server process dies and is started again: what it committed stays,
\* every request it holds fails.
ServerCrash ==
    /\ Fault
    /\ conn' = [c \in Conns |->
                  CASE conn[c].phase \notin {"sent", "serving"} -> conn[c]
                    [] conn[c].owner = Nobody -> FreeConn
                    [] OTHER -> [conn[c] EXCEPT !.phase = "failed"]]
    /\ skipped' = IF fresh = 0 THEN skipped ELSE skipped \union {fresh}
    /\ serving' = NoConn
    /\ todo' = {}
    /\ answer' = NoAnswer
    /\ fresh' = 0
    /\ UNCHANGED <<agentDB, pc, tables, rejected>>

-----------------------------------------------------------------------------

SyncStep(p) ==
    \/ BeginSync(p)
    \/ RecordSuccess(p)
    \/ Kill(p)
    \/ \E c \in Conns :
          TakeAck(p, c) \/ BadAck(p, c) \/ SyncFailed(p, c) \/ Timeout(p, c)

NetworkStep == \E c \in Conns : ConnFails(c) \/ DropLate(c)

ServerStep ==
    \/ \E c \in Conns : Accept(c)
    \/ Insert
    \/ Reject
    \/ Project
    \/ SkipProjection
    \/ Reply
    \/ ServerCrash

Next ==
    \/ Enqueue
    \/ \E p \in Syncers : SyncStep(p)
    \/ Flush
    \/ PowerLoss
    \/ NetworkStep
    \/ ServerStep

Spec == Init /\ [][Next]_vars

(***************************************************************************)
(* cmd_run calls cmd_sync_once in an endless loop and a client never waits *)
(* for more than 15 s; the server serves what reaches it (the mutex is     *)
(* fair) and its loop is straight-line code.  Nothing is assumed of the    *)
(* processes that sync once and exit, or of Flush and Enqueue.             *)
(***************************************************************************)
Fairness ==
    /\ WF_vars(BeginSync(RunLoop))
    /\ \A p \in Syncers :
         /\ WF_vars(RecordSuccess(p))
         /\ WF_vars(\E c \in Conns : TakeAck(p, c) \/ SyncFailed(p, c))
    /\ WF_vars(\E c \in Conns : Accept(c))
    /\ WF_vars(Insert \/ Project \/ Reply)

FairSpec == Spec /\ Fairness

-----------------------------------------------------------------------------
(* Properties *)

WellFormed(c) ==
    /\ conn[c].phase = "free" => conn[c] = FreeConn
    /\ conn[c].phase = "serving" <=> serving = c
    /\ conn[c].owner = Nobody => conn[c].phase \in {"free", "sent", "serving"}

ConnsOK ==
    /\ conn \in [Conns -> Conn]
    /\ serving \in Conns \union {NoConn}
    /\ \A c \in Conns : WellFormed(c)

AgentOK ==
    /\ next \in 1 .. NumEvents + 1
    /\ box \in [Event -> {"none", "pending", "sent"}]
    /\ lastSync \in {"never", "ok", "error"}
    /\ disk \in [box : [Event -> {"none", "pending", "sent"}],
                 lastSync : {"never", "ok", "error"}]
    /\ pc \in [Syncers -> {"idle", "waiting", "marked"}]

ServerOK ==
    /\ todo \in SUBSET Event
    /\ answer \in Answer
    /\ fresh \in Event \union {0}
    /\ device \in BOOLEAN
    /\ events \in SUBSET Event
    /\ rows \in [Event -> Nat]
    /\ session \in [Sessions -> {"none", "open", "closed"}]
    /\ rejected \in SUBSET Event
    /\ skipped \in SUBSET Event
    /\ faults \in 0 .. MaxFaults

\* Every variable has its type, and a request is what its phase says.  A
\* free slot carries nothing, the request being served is the one that holds
\* the server's connection, and no answer waits for a client that is gone
\* (routes.rs, events_batch).
TypeOK == AgentOK /\ ConnsOK /\ ServerOK

\* An event the agent has forgotten is on the server: whatever is lost,
\* late, refused or repeated, mark_sent never runs for an event that the
\* server has not committed.
NothingLost == \A e \in Event : box[e] = "sent" => e \in events

\* An event takes effect once, however often it is sent: its projection ran
\* once, unless the server died or the statement failed right after the
\* event was inserted.  (It is then never run: see README.)
AppliedOnce ==
    \A e \in Event :
        rows[e] = IF e \in events \ (skipped \union {fresh}) THEN 1 ELSE 0

\* An event reaches the server after every earlier event, except those an
\* INSERT failed for and those the device lost with its power.  It holds
\* although batches of several processes overlap and arrive late.
InOrder ==
    \A e \in events : \A i \in Event :
        i < e => i \in events \union rejected \union Lost

\* A session whose two events the server has worked off is closed, unless
\* its Started event was overtaken: refused once, or lost with the power
\* while a copy of it was on its way.
FinishedIsClosed ==
    \A s \in Sessions :
        /\ rows[StartOf[s]] > 0 /\ rows[FinishOf[s]] > 0
        /\ StartOf[s] \notin rejected \union Lost
        => session[s] = "closed"

\* A closed session is never opened again: the INSERT OR REPLACE of its
\* Started event runs only when that event is new to the server.
NeverReopened ==
    [][\A s \in Sessions : session[s] = "closed" => session'[s] = "closed"]_vars

\* When faults end, every event in the outbox is delivered and forgotten, or
\* was lost with the power.
EveryEventDelivered ==
    \A e \in Event : box[e] = "pending" ~> box[e] \in {"sent", "none"}

\* What happens is a behaviour of the abstract outbox.
Abstract ==
    INSTANCE Delivery WITH
        stored  <- events,
        applied <- {e \in Event : rows[e] > 0}

Delivers == Abstract!Spec
=============================================================================
