--------------------------- MODULE SessionTracker ---------------------------
(***************************************************************************)
(* Game sessions as playora-agent/src/sessions.rs sees them.               *)
(*                                                                         *)
(* The run loop looks at the process list once per round (SessionTracker:: *)
(* tick) and turns what it finds into events; the session it is in is kept *)
(* in memory and in current-session.json, from which SessionTracker::new   *)
(* goes on after a restart.  Every enqueue, write and remove is a step of  *)
(* its own: the agent may die between any two of them, and each may fail   *)
(* with its error dropped (`let _ =`).  Players start and quit games and   *)
(* games write their save files at any time.                               *)
(***************************************************************************)
EXTENDS Integers, Sequences, SequencesExt

CONSTANTS
    Roms,
    MaxLaunches,    \* bound: processes started in a behaviour
    MaxSessions,    \* bound: sessions begun in a behaviour
    MaxSaves,       \* bound: versions of a save file
    MaxFaults,      \* bound: crashes, power cuts and failed steps
    SyncInterval,   \* cfg.sync_interval_seconds
    CrashThreshold, \* CRASH_THRESHOLD_SECS
    None,           \* no session, no process, no file
    Torn            \* what is left of a file whose writing was cut off

ASSUME BoundsAreNatural ==
    /\ MaxLaunches \in Nat /\ MaxSessions \in Nat /\ MaxSaves \in Nat
    /\ MaxFaults \in Nat /\ SyncInterval \in Nat /\ CrashThreshold \in Nat

Pid     == 1 .. MaxLaunches
Id      == 1 .. MaxSessions
Process == [pid : Pid, rom : Roms]

\* Current: save is the version of the save file found at the start, where 0
\* stands for save_path = None (find_save returns only files that exist).
Session == [id : Id, rom : Roms, pid : Pid, save : 0 .. MaxSaves]

Report == {"started", "finished", "crashed", "orphaned", "saved"}

ASSUME NothingIsNoSession ==
    /\ None \notin Session \union Process
    /\ Torn \notin Session

VARIABLES
    \* -- the device
    procs,      \* running games, in the order they were started
    launches,   \* processes started so far
    save,       \* version of the save file of a ROM, 0 when there is none
    \* -- the agent
    pc,
    current,    \* SessionTracker.current
    file,       \* current-session.json: None, Torn or a session
    subject,    \* the session the running function is about
    found,      \* what detect_running_rom returned: None or a process
    kind,       \* FinishKind of the session being finished
    changed,    \* save_changed of the session being finished
    young,      \* sessions that began less than CrashThreshold seconds ago
    \* -- what it has enqueued
    begun,      \* sessions begun so far
    sent,       \* sent[s][r]: events of kind r for session s
    \* -- history
    trace,      \* trace[s]: process, save file at the first and last look
    fast,       \* sessions whose process ended while they were young
    hit,        \* sessions with a step that a fault cut off or made fail
    faults

device  == <<procs, launches, save>>
locals  == <<subject, found, kind, changed>>
memory  == <<current, locals>>
events  == <<begun, sent>>
history == <<trace, fast, hit>>
vars == <<device, pc, memory, file, young, events, history, faults>>

NoTrace == [pid |-> 0, first |-> 0, last |-> 0]
Silence == [r \in Report |-> 0]

Init ==
    /\ procs = <<>>
    /\ launches = 0
    /\ save = [r \in Roms |-> 0]
    /\ pc = "down"
    /\ current = None
    /\ file = None
    /\ subject = None
    /\ found = None
    /\ kind = "normal"
    /\ changed = FALSE
    /\ young = {}
    /\ begun = 0
    /\ sent = [s \in Id |-> Silence]
    /\ trace = [s \in Id |-> NoTrace]
    /\ fast = {}
    /\ hit = {}
    /\ faults = 0

Fault == faults < MaxFaults /\ faults' = faults + 1

Forget == subject' = None /\ found' = None /\ kind' = "normal" /\ changed' = FALSE

\* Mutant: the locals go with every step.
ForgetEarly(next) == pc' = next /\ Forget

\* The step after this one.  The locals go when new() or tick() returns.
GoTo(next) ==
    /\ pc' = next
    /\ IF next \in {"awake", "asleep"} THEN Forget ELSE UNCHANGED locals

-----------------------------------------------------------------------------
(* The device *)

Launch(r) ==
    /\ launches < MaxLaunches
    /\ launches' = launches + 1
    /\ procs' = Append(procs, [pid |-> launches + 1, rom |-> r])
    /\ UNCHANGED <<save, pc, memory, file, young, events, history, faults>>

Exit(i) ==
    /\ procs' = RemoveAt(procs, i)
    /\ fast' = fast \union {s \in young : trace[s].pid = procs[i].pid}
    /\ UNCHANGED <<launches, save, pc, memory, file, young, events, trace, hit,
                   faults>>

WriteSave(i) ==
    LET r == procs[i].rom IN
      /\ save[r] < MaxSaves
      /\ save' = [save EXCEPT ![r] = @ + 1]
      /\ UNCHANGED <<procs, launches, pc, memory, file, young, events, history,
                     faults>>

\* CrashThreshold seconds go by.
Age ==
    /\ young # {}
    /\ young' = {}
    /\ UNCHANGED <<device, pc, memory, file, events, history, faults>>

-----------------------------------------------------------------------------
(* SessionTracker::new *)

\* Mutant: nobody reads the file.
NeverLoaded == None

\* load_persisted: a file that cannot be parsed is no session.
LoadPersisted == IF file = Torn THEN None ELSE file

\* Mutant: the process is never recognised.
NeverOwns(s) == FALSE

\* pid_still_owns: the process of s still has the ROM on its command line.
PidStillOwns(s) == [pid |-> s.pid, rom |-> s.rom] \in Range(procs)

Boot ==
    /\ pc = "down"
    /\ LET prev == LoadPersisted IN
         \/ /\ prev = None
            /\ pc' = "awake"
            /\ UNCHANGED <<current, subject, kind>>
         \/ /\ prev # None
            /\ PidStillOwns(prev)
            /\ current' = prev
            /\ pc' = "awake"
            /\ UNCHANGED <<subject, kind>>
         \/ /\ prev # None
            /\ ~PidStillOwns(prev)
            /\ subject' = prev
            /\ kind' = "orphan"
            /\ pc' = "orphaned"
            /\ UNCHANGED current
    /\ UNCHANGED <<device, found, changed, file, young, events, history, faults>>

-----------------------------------------------------------------------------
(* SessionTracker::tick *)

\* detect_running_rom: the youngest process with a ROM on its command line.
Detected == IF procs = <<>> THEN None ELSE Last(procs)

\* Mutant: the tracker waits for the next game before it ends a session.
OnlyReplaced(cur, d) == cur # None /\ d # None /\ cur.rom # d.rom

\* The session cur is over when d is what runs now.
Over(cur, d) == cur # None /\ (d # None => cur.rom # d.rom)

\* classify_finish
FinishKind(cur) == IF cur.id \in young THEN "crash" ELSE "normal"

Tick ==
    /\ pc = "awake"
    /\ found' = Detected
    /\ \/ /\ Over(current, Detected)
          /\ subject' = current
          /\ kind' = FinishKind(current)
          /\ pc' = "finish"
       \/ /\ ~Over(current, Detected)
          /\ current # None /\ Detected # None
          /\ subject' = current
          /\ pc' = "persist"
          /\ UNCHANGED kind
       \/ /\ ~Over(current, Detected)
          /\ current = None /\ Detected # None
          /\ pc' = "start"
          /\ UNCHANGED <<subject, kind>>
       \/ /\ ~Over(current, Detected)
          /\ Detected = None
          /\ pc' = "asleep"
          /\ UNCHANGED <<subject, kind>>
    /\ UNCHANGED <<device, current, changed, file, young, events, history, faults>>

\* The sleep between two rounds of cmd_run.
Wake ==
    /\ pc = "asleep"
    /\ pc' = "awake"
    /\ young' = IF SyncInterval >= CrashThreshold THEN {} ELSE young
    /\ UNCHANGED <<device, memory, file, events, history, faults>>

-----------------------------------------------------------------------------
(* emit_orphaned, emit_finish *)

Enqueue(s, r) == sent' = [sent EXCEPT ![s.id][r] = @ + 1]

EmitOrphaned ==
    /\ pc = "orphaned"
    /\ Enqueue(subject, "orphaned")
    /\ GoTo("finish")
    /\ UNCHANGED <<device, current, file, young, begun, history, faults>>

\* Mutant: only a save file that was not there at the start counts.
SaveAppeared(s) == s.save = 0 /\ save[s.rom] # 0

\* save_changed: with save_path = None nothing is compared.
SaveChanged(s) == s.save # 0 /\ save[s.rom] # s.save

AfterFinished(k, c) ==
    IF k = "crash" THEN "crashed" ELSE IF c THEN "save" ELSE "remove"

LookAtSave ==
    /\ changed' = SaveChanged(subject)
    /\ trace' = [trace EXCEPT ![subject.id].last = save[subject.rom]]

EmitFinished ==
    /\ pc = "finish"
    /\ LookAtSave
    /\ Enqueue(subject, "finished")
    /\ pc' = AfterFinished(kind, changed')
    /\ UNCHANGED <<device, current, subject, found, kind, file, young, begun,
                   fast, hit, faults>>

EmitCrashed ==
    /\ pc = "crashed"
    /\ Enqueue(subject, "crashed")
    /\ pc' = AfterFinished("normal", changed)
    /\ UNCHANGED <<device, memory, file, young, begun, history, faults>>

EmitSaveChanged ==
    /\ pc = "save"
    /\ Enqueue(subject, "saved")
    /\ pc' = "remove"
    /\ UNCHANGED <<device, memory, file, young, begun, history, faults>>

\* What follows the removal of the file: new() returns, or tick() starts the
\* session of the other game, or the round is over.
AfterRemoval ==
    IF kind = "orphan" THEN "awake"
    ELSE IF found # None THEN "start" ELSE "asleep"

\* Mutant: the file is left behind.
KeptFile == file

\* remove_file(PERSIST_PATH)
RemovedFile == None

RemoveFile ==
    /\ pc = "remove"
    /\ file' = RemovedFile
    /\ current' = None
    /\ GoTo(AfterRemoval)
    /\ UNCHANGED <<device, young, events, history, faults>>

-----------------------------------------------------------------------------
(* SessionTracker::start, persist *)

NewSession ==
    [id |-> begun + 1, rom |-> found.rom, pid |-> found.pid,
     save |-> save[found.rom]]

Begin ==
    /\ begun < MaxSessions
    /\ begun' = begun + 1
    /\ subject' = NewSession
    /\ young' = young \union {NewSession.id}
    /\ trace' = [trace EXCEPT ![NewSession.id] =
                   [pid |-> found.pid, first |-> save[found.rom], last |-> 0]]
    /\ pc' = "persist"

EmitStarted ==
    /\ pc = "start"
    /\ Begin
    /\ Enqueue(NewSession, "started")
    /\ UNCHANGED <<device, current, found, kind, changed, file, fast, hit, faults>>

\* fs::write empties the file before it fills it.
Truncate ==
    /\ pc = "persist"
    /\ file' = Torn
    /\ pc' = "write"
    /\ UNCHANGED <<device, memory, young, events, history, faults>>

\* Mutant: the content never reaches the file.
Unwritten(s) == Torn

Written(s) == s

Fill ==
    /\ pc = "write"
    /\ file' = Written(subject)
    /\ current' = subject
    /\ GoTo("asleep")
    /\ UNCHANGED <<device, young, events, history, faults>>

-----------------------------------------------------------------------------
(* Faults *)

Busy == {"orphaned", "finish", "crashed", "save", "remove", "persist", "write"}

\* The session some step of which is still to be done.
InWork == IF pc \in Busy THEN {subject.id} ELSE {}

\* The step the agent is at fails and is passed over.  When the database
\* cannot be opened, emit_finish passes over all of its events.
StepFails ==
    /\ Fault
    /\ \/ /\ pc = "orphaned" /\ GoTo("finish")
          /\ UNCHANGED <<current, young, begun, trace>>
       \/ /\ pc = "finish"
          /\ LookAtSave
          /\ pc' \in {"remove", AfterFinished(kind, changed')}
          /\ UNCHANGED <<current, subject, found, kind, young, begun>>
       \/ /\ pc = "crashed" /\ GoTo(AfterFinished("normal", changed))
          /\ UNCHANGED <<current, young, begun, trace>>
       \/ /\ pc = "save" /\ GoTo("remove")
          /\ UNCHANGED <<current, young, begun, trace>>
       \/ /\ pc = "remove" /\ GoTo(AfterRemoval)
          /\ current' = None
          /\ UNCHANGED <<young, begun, trace>>
       \/ /\ pc = "start" /\ Begin
          /\ UNCHANGED <<current, found, kind, changed>>
       \/ /\ pc \in {"persist", "write"} /\ GoTo("asleep")
          /\ current' = subject
          /\ UNCHANGED <<young, begun, trace>>
    /\ hit' = hit \union InWork \union (1 .. begun' \ 1 .. begun)
    /\ UNCHANGED <<device, file, sent, fast>>

\* The agent's memory after its process died.
Died ==
    /\ pc' = "down"
    /\ current' = None
    /\ Forget

\* The agent dies (kill -9, restart by self-update); systemd starts it again.
Crash ==
    /\ Fault
    /\ pc # "down"
    /\ Died
    /\ hit' = hit \union InWork
    /\ UNCHANGED <<device, file, young, events, trace, fast>>

\* The device goes off, and may take the content of a file that nobody
\* synced with it.
PowerCut ==
    /\ Fault
    /\ Died
    /\ procs' = <<>>
    /\ fast' = fast \union {s \in young : \E p \in Range(procs) : trace[s].pid = p.pid}
    /\ \/ /\ hit' = hit \union InWork
          /\ UNCHANGED file
       \/ /\ LoadPersisted # None
          /\ file' = Torn
          /\ hit' = hit \union InWork \union {file.id}
    /\ UNCHANGED <<launches, save, young, events, trace>>

-----------------------------------------------------------------------------

Player == \/ \E r \in Roms : Launch(r)
          \/ \E i \in 1 .. Len(procs) : Exit(i) \/ WriteSave(i)
          \/ Age

Agent == \/ Boot \/ Tick \/ Wake
         \/ EmitOrphaned \/ EmitFinished \/ EmitCrashed \/ EmitSaveChanged
         \/ RemoveFile
         \/ EmitStarted \/ Truncate \/ Fill

Next == Player \/ Agent \/ StepFails \/ Crash \/ PowerCut

Spec == Init /\ [][Next]_vars

\* The loop of cmd_run never ends and systemd restarts it when it dies.
FairSpec == Spec /\ WF_vars(Agent)

-----------------------------------------------------------------------------
(* Properties *)

\* Every variable has its type; what the agent works on is a session.
TypeOK ==
    /\ procs \in Seq(Process) /\ launches \in 0 .. MaxLaunches
    /\ save \in [Roms -> 0 .. MaxSaves]
    /\ pc \in Busy \union {"down", "awake", "asleep", "start"}
    /\ current \in Session \union {None}
    /\ file \in Session \union {None, Torn}
    /\ subject \in Session \union {None}
    /\ pc \in Busy => subject # None
    /\ pc = "start" => found # None
    /\ found \in Process \union {None}
    /\ kind \in {"normal", "crash", "orphan"}
    /\ changed \in BOOLEAN
    /\ young \in SUBSET Id
    /\ begun \in 0 .. MaxSessions
    /\ sent \in [Id -> [Report -> Nat]]
    /\ trace \in [Id -> [pid : Pid \union {0}, first : 0 .. MaxSaves,
                         last : 0 .. MaxSaves]]
    /\ fast \in SUBSET Id /\ hit \in SUBSET Id /\ faults \in 0 .. MaxFaults

\* A session no fault interfered with is reported once: one Started, at most
\* one of everything else, and never as crashed and as orphaned.  Restarts
\* of the agent between two of its steps do not count as interference.
ReportedOnce ==
    \A s \in 1 .. begun \ hit :
        /\ sent[s]["started"] = 1
        /\ \A r \in Report : sent[s][r] <= 1
        /\ sent[s]["crashed"] + sent[s]["orphaned"] <= 1

\* A session that was begun and not finished is not forgotten: the agent
\* holds it, or will find it in the file when it comes back.
OpenIsTracked ==
    \A s \in 1 .. begun \ hit :
        sent[s]["finished"] = 0 =>
            \/ s \in InWork
            \/ current # None /\ current.id = s
            \/ pc = "down" /\ LoadPersisted # None /\ file.id = s

\* A device plays one game at a time: when a session begins, every earlier
\* one has been finished.
NoOverlap ==
    \A s \in 1 .. begun \ hit : s < begun => sent[s]["finished"] = 1

\* The same run of a game is not reported as two sessions in a row, unless
\* another game was started over it: a restarted agent goes on with the
\* session it finds in the file.
NewSessionNewProcess ==
    \A s, t \in 1 .. begun \ hit :
        t = s + 1 /\ trace[s].pid = trace[t].pid => launches > trace[s].pid

\* A save file that was there when the session began, and is another when it
\* ends, is reported, across restarts too.
SaveReported ==
    \A s \in 1 .. begun \ hit :
        /\ sent[s]["finished"] = 1 /\ s \notin InWork
        /\ trace[s].first # 0
        => (sent[s]["saved"] = 1 <=> trace[s].last # trace[s].first)

\* If the player leaves for good, every session is finished, or a fault has
\* interfered with it.
EndedOrPlaying ==
    procs # <<>> \/ \A s \in 1 .. begun : sent[s]["finished"] > 0 \/ s \in hit
SessionsEnd == []<>EndedOrPlaying

\* Header of sessions.rs: `GameSessionCrashed` when a session ended
\* unusually fast.
FastEndIsCrash ==
    \A s \in 1 .. begun :
        sent[s]["finished"] = 1 /\ s \notin InWork /\ s \in fast =>
            sent[s]["crashed"] = 1

\* sessions.rs:183: a save that appeared during the session counts as
\* changed.
NewSaveReported ==
    \A s \in 1 .. begun :
        sent[s]["finished"] = 1 /\ s \notin InWork /\ trace[s].first # trace[s].last
            => sent[s]["saved"] = 1

\* Games may be interchanged.
Symmetric == Permutations(Roms)
=============================================================================
