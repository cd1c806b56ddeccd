------------------------------ MODULE Launcher ------------------------------
(***************************************************************************)
(* launcher::cmd_launch stands between the front end and an emulator: it    *)
(* notes the start, runs the game, waits for its end and notes that, with   *)
(* a database that may be locked, full or missing at any point, and may be  *)
(* killed itself while the game goes on.                                    *)
(***************************************************************************)
EXTENDS Naturals, Sequences

CONSTANTS
    Codes,          \* exit codes; 99 stands for an end by a signal
    MaxLaunches     \* bound

LauncherAssumption == MaxLaunches \in Nat

VARIABLES
    launcher,       \* what the process is at, and whether it has the database
    game,           \* the child process
    outbox,         \* events noted, in order
    launches

launcherVars == <<launcher, game, outbox, launches>>

Idle == [at |-> "idle", db |-> FALSE]
NoGame == [state |-> "none", code |-> 0]

Init ==
    /\ launcher = Idle /\ game = NoGame
    /\ outbox = <<>> /\ launches = 0

\* Events of the present launch bear its number as session_id.
Event(kind, code) == [kind |-> kind, session |-> launches, code |-> code]

\* enqueue with the connection there is, if it lets us: errors are ignored.
Noted(kind, code) == IF launcher.db THEN {outbox, Append(outbox, Event(kind, code))} ELSE {outbox}

\* Mutant: without the database the launch ends.
OnlyWithDb(open) == IF open THEN "begun" ELSE "refused"

Anyway(open) == "begun"

Begin ==
    /\ launcher.at = "idle" /\ game.state # "running" /\ launches < MaxLaunches
    /\ \E open \in BOOLEAN : launcher' = [at |-> Anyway(open), db |-> open]
    /\ launches' = launches + 1
    /\ game' = NoGame
    /\ UNCHANGED outbox

NoteStart ==
    /\ launcher.at = "begun"
    /\ outbox' \in Noted("started", 0)
    /\ launcher' = [launcher EXCEPT !.at = "noted"]
    /\ UNCHANGED <<game, launches>>

\* No command after --, or one that cannot be run: the start stays without an end.
CannotRun ==
    /\ launcher.at = "noted"
    /\ launcher' = [launcher EXCEPT !.at = "norun"]
    /\ UNCHANGED <<game, outbox, launches>>

Spawn ==
    /\ launcher.at = "noted"
    /\ launcher' = [launcher EXCEPT !.at = "wait"]
    /\ game' = [state |-> "running", code |-> 0]
    /\ UNCHANGED <<outbox, launches>>

Play ==
    /\ game.state = "running"
    /\ \E c \in Codes : game' = [state |-> "over", code |-> c]
    /\ UNCHANGED <<launcher, outbox, launches>>

\* Mutant: a game that still runs is taken for one that is over.
NotYetToo == TRUE

Ended == game.state = "over"

\* try_wait every half second, then wait
SeeEnd ==
    /\ launcher.at = "wait" /\ Ended
    /\ launcher' = [launcher EXCEPT !.at = "ended"]
    /\ UNCHANGED <<game, outbox, launches>>

NoteEnd ==
    /\ launcher.at = "ended"
    /\ outbox' \in Noted("finished", game.code)
    /\ launcher' = Idle
    /\ UNCHANGED <<game, launches>>

Leave == launcher.at = "norun" /\ launcher' = Idle /\ UNCHANGED <<game, outbox, launches>>

\* SIGKILL, to the launcher alone
Kill ==
    /\ launcher.at # "idle"
    /\ launcher' = Idle
    /\ UNCHANGED <<game, outbox, launches>>

Next == \/ Begin \/ NoteStart \/ CannotRun \/ Spawn \/ Play \/ SeeEnd \/ NoteEnd \/ Leave \/ Kill

Work == NoteStart \/ CannotRun \/ Spawn \/ SeeEnd \/ NoteEnd \/ Leave

FairSpec == Init /\ [][Next]_launcherVars /\ WF_launcherVars(Work)

-----------------------------------------------------------------------------
(* Properties *)

\* Every variable has its type.
TypeOK ==
    /\ launcher.at \in {"idle", "begun", "noted", "norun", "wait", "ended"}
    /\ launcher.db \in BOOLEAN /\ launches \in 0..MaxLaunches
    /\ game.state \in {"none", "running", "over"} /\ game.code \in Codes \union {0}
    /\ Len(outbox) <= 2 * MaxLaunches

\* A finished event is about a game that is over and tells its exit code, a
\* session has one at the most, and no start follows it, whatever the database
\* let through.
FinishedIsTrue ==
    \A i \in DOMAIN outbox : outbox[i].kind = "finished" =>
        /\ outbox[i].session = launches => game.state = "over" /\ outbox[i].code = game.code
        /\ \A j \in DOMAIN outbox : j > i => outbox[j].session > outbox[i].session

GameRan == game.state # "none"

\* "NEVER block the game" (launcher.rs:44): a launch runs the game, with or
\* without the database, unless the command cannot be run or the launcher is
\* killed first.
RanOrGone == GameRan \/ launcher.at \in {"norun", "idle"}
NeverBlocks == []<>RanOrGone
=============================================================================
