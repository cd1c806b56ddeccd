---------------------------- MODULE ActivityFeed ----------------------------
(***************************************************************************)
(* The feed of what a device is doing.  A run of a script reports that it   *)
(* begins, how far it is and how it ended (activity.rs); the events travel  *)
(* in their order (EventSync).  The server has one row per run in mind:     *)
(* a report of a running script changes the newest running row of that      *)
(* script unless it is older than ten minutes, and the report of its end    *)
(* closes the newest running row (events_batch in routes.rs).               *)
(***************************************************************************)
EXTENDS Naturals, Sequences, FiniteSets, SequencesExt

CONSTANTS
    Runs, Scripts,
    Window,         \* the age up to which a running row is taken for the same run
    MaxTime, MaxProgress    \* bounds

VARIABLES
    clock,          \* device and server have the same
    script,         \* of a run; None before it begins
    status,         \* of a run: "new", "running", "over", "killed"
    outbox,         \* reports on their way, oldest first
    rows,           \* the table activities of the device, in the order of their ids
    sent,           \* number of progress reports
    told,           \* history: runs whose end the server has been told of
    missed,         \* history: runs a report of which did not meet the row it was for:
                    \* progress came late, or the server could not look the row up
    skipped         \* history: runs the server was told the end of and has no row for

vars == <<clock, script, status, outbox, rows, sent, told, missed, skipped>>

None == "none"
NoRun == "no run"

Init ==
    /\ clock = 0
    /\ script = [r \in Runs |-> None]
    /\ status = [r \in Runs |-> "new"]
    /\ outbox = <<>> /\ rows = <<>> /\ sent = 0
    /\ told = {} /\ missed = {} /\ skipped = {}

Tick ==
    /\ clock < MaxTime
    /\ clock' = clock + 1
    /\ UNCHANGED <<script, status, outbox, rows, sent, told, missed, skipped>>

Report(r, s, kind) == [run |-> r, script |-> s, kind |-> kind, at |-> clock]

\* begin, or the first progress of a scheduled job
Begin(r, s) ==
    /\ status[r] = "new"
    /\ script' = [script EXCEPT ![r] = s]
    /\ status' = [status EXCEPT ![r] = "running"]
    /\ outbox' = Append(outbox, Report(r, s, "begin"))
    /\ UNCHANGED <<clock, rows, sent, told, missed, skipped>>

Progress(r) ==
    /\ status[r] = "running" /\ sent < MaxProgress
    /\ sent' = sent + 1
    /\ outbox' = Append(outbox, Report(r, script[r], "progress"))
    /\ UNCHANGED <<clock, script, status, rows, told, missed, skipped>>

End(r) ==
    /\ status[r] = "running"
    /\ status' = [status EXCEPT ![r] = "over"]
    /\ outbox' = Append(outbox, Report(r, script[r], "end"))
    /\ UNCHANGED <<clock, script, rows, sent, told, missed, skipped>>

\* Killed, or the device goes off: nobody reports the end.
Kill(r) ==
    /\ status[r] = "running"
    /\ status' = [status EXCEPT ![r] = "killed"]
    /\ UNCHANGED <<clock, script, outbox, rows, sent, told, missed, skipped>>

-----------------------------------------------------------------------------
Message == Head(outbox)
Running(i) == rows[i].running /\ rows[i].script = Message.script

\* Mutant: closed rows count as well.
AnyRow == {i \in DOMAIN rows : rows[i].script = Message.script}

\* ORDER BY id DESC LIMIT 1 of these
RowsToClose == {i \in DOMAIN rows : Running(i)}

\* Mutant: every report of a running script opens a row.
NoneFits == {}

RowsToUpdate == {i \in DOMAIN rows : Running(i) /\ rows[i].at + Window >= clock}

Newest(ids) == CHOOSE i \in ids : \A k \in ids : k <= i

Row(running) == [script |-> Message.script, at |-> Message.at, running |-> running,
                 end |-> IF running THEN NoRun ELSE Message.run]

\* A progress report finds a row of its script that is too old.
Late ==
    /\ Message.kind = "progress"
    /\ \E i \in DOMAIN rows : Running(i) /\ rows[i].at + Window < clock

\* What the report makes of the rows of which it has found these
Project(found) ==
    LET ending == Message.kind = "end"
    IN rows' = IF found = {} THEN Append(rows, Row(~ending))
               ELSE IF ending THEN [rows EXCEPT ![Newest(found)].running = FALSE,
                                                ![Newest(found)].end = Message.run]
               ELSE rows

Found == IF Message.kind = "end" THEN RowsToClose ELSE RowsToUpdate

Projected ==
    /\ Project(Found)
    /\ missed' = IF Late THEN missed \union {Message.run} ELSE missed
    /\ UNCHANGED skipped

\* The SELECT fails, which reads as no row (.ok()).
LookUpFails ==
    /\ Found # {} /\ Project({})
    /\ missed' = IF Message.kind = "begin" THEN missed ELSE missed \union {Message.run}
    /\ UNCHANGED skipped

\* The event is stored and answered as accepted, its row is neither written nor closed:
\* the statement fails, which is ignored, or the server stops in between, and the report
\* that is sent again is a duplicate.
NotProjected ==
    /\ skipped' = IF Message.kind = "end" THEN skipped \union {Message.run} ELSE skipped
    /\ UNCHANGED <<rows, missed>>

\* events_batch stores the report, in a transaction of its own, and then changes rows.
Deliver ==
    /\ outbox # <<>>
    /\ outbox' = Tail(outbox)
    /\ told' = IF Message.kind = "end" THEN told \union {Message.run} ELSE told
    /\ Projected \/ LookUpFails \/ NotProjected
    /\ UNCHANGED <<clock, script, status, sent>>

Next ==
    \/ Tick \/ Deliver
    \/ \E r \in Runs : (\E s \in Scripts : Begin(r, s)) \/ Progress(r) \/ End(r) \/ Kill(r)

Spec == Init /\ [][Next]_vars

\* EventSync delivers what is pending.
FairSpec == Spec /\ WF_vars(Deliver)

-----------------------------------------------------------------------------
(* Properties *)

\* Every variable has its type, and a row that is closed says by which run.
TypeOK ==
    /\ clock \in 0..MaxTime /\ sent \in 0..MaxProgress
    /\ script \in [Runs -> Scripts \union {None}]
    /\ status \in [Runs -> {"new", "running", "over", "killed"}]
    /\ {told, missed, skipped} \subseteq SUBSET Runs
    /\ \A i \in DOMAIN rows :
        rows[i].script \in Scripts /\ (rows[i].running <=> rows[i].end = NoRun)

EndsOf(r) == {i \in DOMAIN rows : rows[i].end = r}

\* How a run ended is in the feed from the moment the server was told, in one row
\* of its script, and no later run or report takes it away; unless the server stopped
\* between the event and its row, or the database refused the row (skipped).
OutcomesKept ==
    \A r \in told \ skipped :
        Cardinality(EndsOf(r)) = 1 /\ \A i \in EndsOf(r) : rows[i].script = script[r]

Quiet(s) ==
    /\ outbox = <<>>
    /\ \A r \in Runs : script[r] = s => status[r] = "over" /\ r \notin missed \union skipped

\* A script that is done does not stay "running" in the feed, unless a run of it was
\* killed, its progress came when the row was too old, or the server failed to look up or
\* to close its row.
RunningIsExplained ==
    \A s \in Scripts : Quiet(s) => \A i \in DOMAIN rows : rows[i].script = s => ~rows[i].running

\* The outcome of every run that ends gets into the feed, in the row of its script or in
\* one of its own, unless the server failed between the event and the row.
Shown(r) == EndsOf(r) # {}
EndShown(r) == status[r] = "over" => Shown(r) \/ r \in skipped
EveryEndShown == \A r \in Runs : <>[]EndShown(r)

\* activity.rs:23: "Server upserts the still-running row by (device, script)."
ProgressMerges ==
    [][ Deliver /\ Projected /\ Message.kind = "progress"
          /\ (\E i \in DOMAIN rows : Running(i)) => rows' = rows ]_vars
=============================================================================
