--------------------------- MODULE DeviceReports ----------------------------
(***************************************************************************)
(* What the pages of a device say of it.  Commands on the device put what   *)
(* they found into the outbox (doctor.rs, audit.rs, hw.rs), the run loop    *)
(* and one-shot commands send it (sync.rs), the server stores it and notes  *)
(* who sent it from where (events_batch in routes.rs), and the pages read   *)
(* it back (dashboard.rs).  EventSync has the protocol in detail; here one  *)
(* request at a time waits for its answer.                                  *)
(***************************************************************************)
EXTENDS Naturals, Sequences, FiniteSets, SequencesExt

CONSTANTS
    Commands,       \* processes on the device
    Items,          \* entries of the catalog a server is born with
    BatchSize,      \* max_batch_size
    Severities,     \* of what the doctor finds: of "critical" and "warning"
    Counts,         \* how many problems it may find in one run
    MaxRuns, MaxBeats, MaxChanges, MaxFaults    \* bounds

ReportsAssumption == Items \in Nat \ {0} /\ BatchSize \in Nat /\ Counts \subseteq Nat

VARIABLES
    command,        \* per process: the events it has still to put into the outbox
    runs,           \* what the runs of commands found, in the order they began
    outbox,         \* pending events, oldest first
    sending,        \* the request that waits for its answer, or NoRequest
    late,           \* requests given up by the agent that the server may still serve
    version, ip,    \* of the agent
    server,         \* "down", "seeding", "up"
    catalog,        \* number of rows of catalog_items
    events,         \* the table, in the order of its ids
    snapshots,      \* the table hardware_snapshots, likewise
    device,         \* its row in devices, if there is one
    changes, faults,
    excused,        \* history: runs that overlapped another of their kind
    dropped,        \* history: runs with an event that did not get into the outbox
    refused,        \* history: runs with an event the server rejected once
    cut,            \* history: runs the server stored without their projection
    seedCut         \* history: the first start of the server was cut off

deviceVars == <<command, runs, outbox, sending, version, ip>>
serverVars == <<server, catalog, events, snapshots, device>>
boundVars == <<changes, faults>>
history == <<excused, dropped, refused, cut, seedCut>>
vars == <<deviceVars, late, serverVars, boundVars, history>>

Unrated == "none"
This == "this device"
NoRequest == [events |-> <<>>, version |-> 0, ip |-> 0]
Kinds == {"doctor", "audit", "snapshot"}

Init ==
    /\ command = [c \in Commands |-> <<>>]
    /\ runs = <<>> /\ outbox = <<>> /\ sending = NoRequest /\ late = {}
    /\ version = 1 /\ ip = 1
    /\ server = "down" /\ catalog = 0
    /\ events = <<>> /\ snapshots = <<>> /\ device = {}
    /\ changes = 0 /\ faults = 0
    /\ excused = {} /\ dropped = {} /\ refused = {} /\ cut = {} /\ seedCut = FALSE

Fault == faults < MaxFaults /\ faults' = faults + 1
Change == changes < MaxChanges /\ changes' = changes + 1

-----------------------------------------------------------------------------
(* Commands on the device *)

Report(kind, n) == [kind |-> kind, run |-> n, nth |-> 0, severity |-> Unrated]
Issue(n, i, s) == [kind |-> "issue", run |-> n, nth |-> i, severity |-> s]
Beat == [kind |-> "heartbeat", run |-> 0, nth |-> 0, severity |-> Unrated]

\* Mutant: the report goes ahead of what it sums up.
ReportFirst(n, found) ==
    <<Report("doctor", n)>> \o [i \in DOMAIN found |-> Issue(n, i, found[i])]

\* An issue for each check that failed or warns, and the report behind them.
Emission(n, found) ==
    [i \in DOMAIN found |-> Issue(n, i, found[i])] \o <<Report("doctor", n)>>

Same(kind) == {Head(command[c]).run : c \in {c \in Commands :
                  command[c] # <<>> /\ Last(command[c]).kind = kind}}

Capture(c, kind, found, todo) ==
    /\ command[c] = <<>> /\ Len(runs) < MaxRuns
    /\ runs' = Append(runs, [kind |-> kind, found |-> found])
    /\ command' = [command EXCEPT ![c] = todo]
    /\ excused' = excused \union Same(kind)
                     \union (IF Same(kind) = {} THEN {} ELSE {Len(runs) + 1})
    /\ UNCHANGED <<outbox, sending, version, ip, late, serverVars, boundVars,
                   dropped, refused, cut, seedCut>>

Doctor(c) ==
    \E found \in UNION {[1..n -> Severities] : n \in Counts} :
        Capture(c, "doctor", found, Emission(Len(runs) + 1, found))
Audit(c) == Capture(c, "audit", <<>>, <<Report("audit", Len(runs) + 1)>>)
Snapshot(c) == Capture(c, "snapshot", <<>>, <<Report("snapshot", Len(runs) + 1)>>)

Enqueue(c) ==
    /\ command[c] # <<>>
    /\ command' = [command EXCEPT ![c] = Tail(@)]
    /\ outbox' = Append(outbox, Head(command[c]))
    /\ UNCHANGED <<runs, sending, version, ip, late, serverVars, boundVars, history>>

\* The error of enqueue is ignored: the command goes on with the next event.
EnqueueFails(c) ==
    /\ command[c] # <<>> /\ Fault
    /\ command' = [command EXCEPT ![c] = Tail(@)]
    /\ dropped' = dropped \union {Head(command[c]).run}
    /\ UNCHANGED <<runs, outbox, sending, version, ip, late, serverVars, changes,
                   excused, refused, cut, seedCut>>

Kill(c) ==
    /\ command[c] # <<>> /\ Fault
    /\ command' = [command EXCEPT ![c] = <<>>]
    /\ UNCHANGED <<runs, outbox, sending, version, ip, late, serverVars, changes, history>>

\* An update of the agent, another address.
NewVersion ==
    /\ Change /\ version' = version + 1
    /\ UNCHANGED <<command, runs, outbox, sending, ip, late, serverVars, faults, history>>
NewAddress ==
    /\ Change /\ ip' = ip + 1
    /\ UNCHANGED <<command, runs, outbox, sending, version, late, serverVars, faults, history>>

-----------------------------------------------------------------------------
(* Synchronisation *)

\* cmd_sync_once sends the oldest pending events, and nothing if there are none.
BeginSend(pending) ==
    /\ sending = NoRequest
    /\ outbox' = pending
    /\ sending' = IF pending = <<>> THEN NoRequest
                  ELSE [events |-> SubSeq(pending, 1, Min({Len(pending), BatchSize})),
                        version |-> version, ip |-> ip]
    /\ UNCHANGED <<command, runs, version, ip, late, serverVars, boundVars, history>>

\* Mutant: a round queues no heartbeat.
WithoutBeat == outbox

\* What cmd_heartbeat leaves; more than MaxBeats that wait make no difference.
WithBeat ==
    IF Cardinality({i \in DOMAIN outbox : outbox[i] = Beat}) < MaxBeats
    THEN Append(outbox, Beat) ELSE outbox

\* A round of the run loop.
Round == BeginSend(WithBeat)

\* playora-agent sync, the menu, the end of another command
SyncOnce == BeginSend(outbox)

\* 15 s are over; a server that is up may have the request.
GiveUp ==
    /\ sending # NoRequest /\ Fault
    /\ sending' = NoRequest /\ late' = IF server = "up" THEN late \union {sending} ELSE late
    /\ UNCHANGED <<command, runs, outbox, version, ip, serverVars, changes, history>>

NoServer ==
    /\ sending # NoRequest /\ server # "up"
    /\ sending' = NoRequest
    /\ UNCHANGED <<command, runs, outbox, version, ip, late, serverVars, boundVars, history>>

-----------------------------------------------------------------------------
(* The server *)

\* "only seed if catalog is empty"
Seeds == catalog = 0

Open ==
    /\ server = "down"
    /\ server' = IF Seeds THEN "seeding" ELSE "up"
    /\ UNCHANGED <<deviceVars, late, catalog, events, snapshots, device, boundVars, history>>

\* Mutant: the server listens before the last entry is there.
SeedMost ==
    /\ server = "seeding"
    /\ catalog' = catalog + 1
    /\ server' = IF catalog' + 1 = Items THEN "up" ELSE "seeding"
    /\ UNCHANGED <<deviceVars, late, events, snapshots, device, boundVars, history>>

SeedItem ==
    /\ server = "seeding"
    /\ catalog' = catalog + 1
    /\ server' = IF catalog' = Items THEN "up" ELSE "seeding"
    /\ UNCHANGED <<deviceVars, late, events, snapshots, device, boundVars, history>>

\* Every INSERT is a transaction of its own, and requests go with their connections.
ServerCrash ==
    /\ server # "down" /\ Fault
    /\ server' = "down"
    /\ late' = {}
    /\ seedCut' = (seedCut \/ server = "seeding")
    /\ UNCHANGED <<deviceVars, catalog, events, snapshots, device, changes,
                   excused, dropped, refused, cut>>

Known == ToSet(events)

\* What of a sequence is in a set, in its order
Only(q, S) ==
    LET f[i \in 0..Len(q)] ==
            IF i = 0 THEN <<>>
            ELSE IF q[i] \in S THEN Append(f[i - 1], q[i]) ELSE f[i - 1]
    IN  f[Len(q)]

Accepted(sent, rejects) ==
    Only(sent, {e \in ToSet(sent) : e.kind # "heartbeat"} \ (Known \union rejects))

Projected(stored) ==
    LET taken == Only(stored, {e \in ToSet(stored) : e.kind = "snapshot"})
    IN  [i \in DOMAIN taken |-> [device |-> This, run |-> taken[i].run]]

\* Mutant: ON CONFLICT leaves the address alone.
AddressKept(request) ==
    {[version |-> request.version,
      ip |-> IF device = {} THEN request.ip ELSE (CHOOSE r \in device : TRUE).ip]}

Upserted(request) == {[version |-> request.version, ip |-> request.ip]}

\* events_batch without its answer; some events are rejected.
Handle(request, rejects) ==
    LET stored == Accepted(request.events, rejects)
    IN /\ server = "up"
       /\ device' = Upserted(request)
       /\ events' = events \o stored
       /\ snapshots' = snapshots \o Projected(stored)
       /\ UNCHANGED <<server, catalog>>

Rejected(rejects) == Only(sending.events, rejects)

\* Mutant: what was rejected counts as sent.
AllSent(rejects) == SubSeq(outbox, Len(sending.events) + 1, Len(outbox))

Remaining(rejects) ==
    Rejected(rejects) \o SubSeq(outbox, Len(sending.events) + 1, Len(outbox))

\* The answer comes in time, and the agent marks what was accepted or a duplicate.
Answer(rejects) ==
    /\ Handle(sending, rejects)
    /\ outbox' = Remaining(rejects)
    /\ sending' = NoRequest
    /\ UNCHANGED <<command, runs, version, ip, late, changes,
                   excused, dropped, cut, seedCut>>

Serve ==
    /\ sending # NoRequest
    /\ Answer({})
    /\ UNCHANGED <<faults, refused>>

ServeRejecting ==
    /\ sending # NoRequest /\ Fault
    /\ \E e \in ToSet(sending.events) \ ({Beat} \union Known) :
          /\ Answer({e})
          /\ refused' = refused \union {e.run}

ServeLate ==
    /\ \E request \in late :
          /\ Handle(request, {})
          /\ late' = late \ {request}
    /\ UNCHANGED <<deviceVars, boundVars, history>>

\* The server dies when it has stored the event, before its projection.
ServeCut ==
    /\ sending # NoRequest /\ server = "up" /\ Fault
    /\ \E n \in DOMAIN sending.events :
          LET stored == Accepted(SubSeq(sending.events, 1, n), {})
          IN /\ sending.events[n] \in ToSet(stored)
             /\ events' = events \o stored
             /\ snapshots' = snapshots \o Projected(Front(stored))
             /\ cut' = cut \union {sending.events[n].run}
    /\ device' = Upserted(sending)
    /\ server' = "down" /\ late' = {}
    /\ sending' = NoRequest
    /\ UNCHANGED <<command, runs, outbox, version, ip, catalog, changes,
                   excused, dropped, refused, seedCut>>

\* A client registers the device with another version.
Register ==
    /\ server = "up" /\ Change
    /\ device' = IF device = {} THEN {[version |-> 0, ip |-> 0]}
                 ELSE {[r EXCEPT !.version = 0] : r \in device}
    /\ UNCHANGED <<deviceVars, late, server, catalog, events, snapshots, faults, history>>

\* A snapshot posted by itself belongs to no device.
PostSnapshot ==
    /\ server = "up" /\ Change
    /\ snapshots' = Append(snapshots, [device |-> "", run |-> 0])
    /\ UNCHANGED <<deviceVars, late, server, catalog, events, device, faults, history>>

Next ==
    \/ \E c \in Commands :
          Doctor(c) \/ Audit(c) \/ Snapshot(c) \/ Enqueue(c) \/ EnqueueFails(c) \/ Kill(c)
    \/ NewVersion \/ NewAddress
    \/ Round \/ SyncOnce \/ GiveUp \/ NoServer
    \/ Open \/ SeedItem \/ ServerCrash
    \/ Serve \/ ServeRejecting \/ ServeLate \/ ServeCut \/ Register \/ PostSnapshot

Spec == Init /\ [][Next]_vars

\* systemd starts loop and server again; a request is served or given up.
FairSpec ==
    /\ Spec
    /\ WF_vars(Round) /\ WF_vars(NoServer)
    /\ WF_vars(Open) /\ WF_vars(SeedItem) /\ WF_vars(Serve)

-----------------------------------------------------------------------------
(* The pages *)

\* Mutant: the oldest of the rows.
FirstRun(rows, ids) == IF ids = {} THEN 0 ELSE rows[Min(ids)].run

\* WHERE ... ORDER BY id DESC LIMIT 1
LastRun(rows, ids) == IF ids = {} THEN 0 ELSE rows[Max(ids)].run

ShownEvent(kind) == LastRun(events, {i \in DOMAIN events : events[i].kind = kind})

\* Mutant: the last snapshot of any device.
AnySnapshot == LastRun(snapshots, DOMAIN snapshots)

ShownSnapshot == LastRun(snapshots, {i \in DOMAIN snapshots : snapshots[i].device = This})

Shown(kind) == IF kind = "snapshot" THEN ShownSnapshot ELSE ShownEvent(kind)

\* The stored JSON is that of the whole event: what was found is in its payload.
Json(e) ==
    [event_id |-> <<e.run, e.nth>>, device_id |-> This, created_at |-> e.run,
     payload |-> [kind |-> e.kind, data |-> [severity |-> e.severity]]]

Get(json, key, default) == IF key \in DOMAIN json THEN json[key] ELSE default

\* The row of an issue: data of what is stored, or all of it.
ShownSeverity(e) == Get(Get(Json(e), "data", Json(e)), "severity", "info")

-----------------------------------------------------------------------------
(* Properties *)

\* Every variable has its type.
TypeOK ==
    /\ \A i \in DOMAIN runs : runs[i].kind \in Kinds
    /\ \A i \in DOMAIN events : events[i].run \in DOMAIN runs
    /\ server \in {"down", "seeding", "up"} /\ catalog \in 0..Items
    /\ \A r \in {excused, dropped, refused, cut} : r \subseteq DOMAIN runs

Stored(kind) == {e.run : e \in {e \in Known : e.kind = kind}}

\* Of the reports of a kind the server has, the last one that was made is shown: not one
\* of them is behind it, unless the two were made at once, the one shown was rejected
\* before, or the server died when it had stored the other one.
LatestIsNewest ==
    \A kind \in Kinds : \A n \in Stored(kind) :
        \/ n <= Shown(kind)
        \/ n \in excused \union cut \/ Shown(kind) \in refused

\* Whoever sees a doctor's report finds each issue of that run stored as well, or it
\* waits in the outbox, unless it never got there.
IssuesWithReport ==
    LET n == Shown("doctor")
    IN n \notin dropped \union {0} =>
         \A i \in DOMAIN runs[n].found :
            Issue(n, i, runs[n].found[i]) \in Known \union ToSet(outbox)

\* A server that listens has its whole catalog, unless its first start was cut off (later
\* starts find a row and leave it at that).
CatalogIsWhole == server = "up" => catalog = Items \/ seedCut

\* The page of a device comes to show its version and the address of its file browser,
\* again and again, whether there is something to report or not.
Current == device = {[version |-> version, ip |-> ip]}
CaughtUp == []<>Current

\* docs/DARKOSRE_CARD_AUDIT.md:38: "Each finding lands as a `SystemIssueDetected` event in
\* the dashboard device feed with severity, evidence, and suggested fix."
IssuesAsReported == \A e \in Known : e.kind = "issue" => ShownSeverity(e) = e.severity
=============================================================================
