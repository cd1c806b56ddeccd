---------------------------- MODULE DeviceQueues ----------------------------
(***************************************************************************)
(* Requests the dashboard makes of a device: delete this ROM, download     *)
(* that one (delete_requests, cloud_download_requests and their handlers   *)
(* in playora-server/src/routes.rs), and the agent that polls and applies  *)
(* them (cleanup.rs, poll_cloud_downloads in sync.rs, cmd_download in      *)
(* cloud.rs), next to the local delete_queue.txt.                          *)
(*                                                                         *)
(* A request has an id but is answered by path: an answer settles every    *)
(* request for the path that is pending when the server serves it, and it  *)
(* may serve it long after the agent gave up waiting.                      *)
(***************************************************************************)
EXTENDS Naturals, Sequences

CONSTANTS
    Paths,          \* ROMs, named by their path under /roms
    Commands,       \* agent processes: the run loop and the menu's Cleanup
    RunLoop,
    Nobody,         \* holder of a free lock
    MaxRequests, MaxPuts, MaxLines, MaxMenuRuns, MaxFaults

ASSUME QueueAssumption ==
    /\ RunLoop \in Commands
    /\ Nobody \notin Commands
    /\ {MaxRequests, MaxPuts, MaxLines, MaxMenuRuns, MaxFaults} \subseteq Nat

VARIABLES
    requests,       \* rows of both tables by id
    late,           \* how many of each answer are on their way unawaited
    files,          \* ROMs on the SD card
    lines,          \* entries of delete_queue.txt
    stage, kind,    \* what a command is doing, and with which queue
    taken, todo,    \* entries it read from delete_queue.txt, and those left
    pulled,         \* requests it still has to apply, by id
    result,         \* outcome of the request it has just applied
    lock,           \* who holds playora-cleanup.lock
    met,            \* history: requests whose wish came true since they were made
    botched,        \* history: some entry of delete_queue.txt failed in this run
    puts, menuRuns, faults

agent == <<stage, kind, taken, todo, pulled, result, lock, botched>>
vars  == <<requests, late, files, lines, agent, met, puts, menuRuns, faults>>

Kinds    == {"delete", "download"}
Requests == [kind : Kinds, path : Paths, status : {"pending", "ok", "fail"}]
Answers  == [kind : Kinds, path : Paths, ok : BOOLEAN]

Init ==
    /\ requests = <<>>
    /\ late = [a \in Answers |-> 0]
    /\ files \in SUBSET Paths
    /\ lines = <<>>
    /\ stage = [c \in Commands |-> "idle"]
    /\ kind = [c \in Commands |-> "delete"]
    /\ taken = [c \in Commands |-> <<>>]
    /\ todo = [c \in Commands |-> <<>>]
    /\ pulled = [c \in Commands |-> {}]
    /\ result = [c \in Commands |-> TRUE]
    /\ lock = Nobody
    /\ met = {}
    /\ botched = [c \in Commands |-> FALSE]
    /\ puts = 0
    /\ menuRuns = 0
    /\ faults = 0

-----------------------------------------------------------------------------
(* Player and dashboard *)

\* A row for a ROM, whatever is pending for it already
Request(k, p) ==
    /\ Len(requests) < MaxRequests
    /\ requests' = Append(requests, [kind |-> k, path |-> p, status |-> "pending"])
    /\ UNCHANGED <<late, files, lines, agent, puts, menuRuns, faults>>

\* delete_rom_request, delete_rom_form
RequestDeletion(p) == Request("delete", p)

\* cloud_download_request, cloud_download_form
RequestDownload(p) == Request("download", p)

\* A ROM is uploaded, extracted or restored.
Put(p) ==
    /\ puts < MaxPuts
    /\ p \notin files
    /\ files' = files \union {p}
    /\ puts' = puts + 1
    /\ UNCHANGED <<requests, late, lines, agent, menuRuns, faults>>

\* The player edits delete_queue.txt.
WriteLine(p) ==
    /\ Len(lines) < MaxLines
    /\ lines' = Append(lines, p)
    /\ UNCHANGED <<requests, late, files, agent, puts, menuRuns, faults>>

-----------------------------------------------------------------------------
(* Server *)

\* Mutant: an answer is written whatever the row says.
AnyRow(r, a) == r.kind = a.kind /\ r.path = a.path

\* Mutant: only a success is an answer.
OkOnly(r, a) == r.kind = a.kind /\ r.path = a.path /\ r.status = "pending" /\ a.ok

\* WHERE rom_path = ? AND status = 'pending'
Settles(r, a) == r.kind = a.kind /\ r.path = a.path /\ r.status = "pending"

\* delete_ack, cloud_download_ack
Settled(a) ==
    [i \in DOMAIN requests |->
        IF Settles(requests[i], a)
        THEN [requests[i] EXCEPT !.status = IF a.ok THEN "ok" ELSE "fail"]
        ELSE requests[i]]

ServeLate(a) ==
    /\ late[a] > 0
    /\ requests' = Settled(a)
    /\ late' = [late EXCEPT ![a] = @ - 1]
    /\ UNCHANGED <<files, lines, agent, puts, menuRuns, faults>>

\* delete_pending, cloud_download_pending; the paths come in the order of ids.
Pending(k) ==
    {i \in DOMAIN requests : requests[i].kind = k /\ requests[i].status = "pending"}

-----------------------------------------------------------------------------
(* Agent *)

Goto(self, s, k) ==
    /\ stage' = [stage EXCEPT ![self] = s]
    /\ kind' = [kind EXCEPT ![self] = k]

\* cmd_cleanup: the lock, then read_queue.
Begin(self) ==
    /\ stage[self] = "idle"
    /\ lock = Nobody
    /\ self # RunLoop => menuRuns < MaxMenuRuns
    /\ menuRuns' = IF self = RunLoop THEN menuRuns ELSE menuRuns + 1
    /\ lock' = self
    /\ Goto(self, "lines", "delete")
    /\ todo' = [todo EXCEPT ![self] = lines]
    /\ taken' = [taken EXCEPT ![self] = lines]
    /\ botched' = [botched EXCEPT ![self] = FALSE]
    /\ UNCHANGED <<requests, late, files, lines, pulled, result, puts, faults>>

\* acquire fails: the run loop goes on with the downloads.
Refused ==
    /\ stage[RunLoop] = "idle"
    /\ lock # Nobody
    /\ Goto(RunLoop, "pull", "download")
    /\ UNCHANGED <<requests, late, files, lines, taken, todo, pulled, result, lock,
                   botched, puts, menuRuns, faults>>

\* delete_one: a missing file counts as deleted.  One that vanishes between
\* exists() and the removal fails, as if the failure had come first.
Deletion(p, ok) ==
    /\ p \notin files => ok
    /\ files' = IF ok THEN files \ {p} ELSE files

\* cmd_download: any failure of lock, rclone or network, or the file is there.
Download(p, ok) == files' = IF ok THEN files \union {p} ELSE files

\* An entry of delete_queue.txt
DeleteLine(self, ok) ==
    /\ stage[self] = "lines"
    /\ todo[self] # <<>>
    /\ Deletion(Head(todo[self]), ok)
    /\ todo' = [todo EXCEPT ![self] = Tail(@)]
    /\ botched' = [botched EXCEPT ![self] = @ \/ ~ok]
    /\ UNCHANGED <<requests, late, lines, stage, kind, taken, pulled, result, lock,
                   puts, menuRuns, faults>>

\* fs::write(QUEUE_PATH, ""), then the server queue unless the command was
\* started without --from-server.
EmptyQueue(self) ==
    /\ stage[self] = "lines"
    /\ todo[self] = <<>>
    /\ lines' = IF taken[self] = <<>> THEN lines ELSE <<>>
    /\ \/ Goto(self, "pull", "delete") /\ UNCHANGED lock
       \/ self # RunLoop /\ Goto(self, "idle", "delete") /\ lock' = Nobody
    /\ UNCHANGED <<requests, late, files, taken, todo, pulled, result, botched, puts,
                   menuRuns, faults>>

\* pull_server_queue, and the GET of poll_cloud_downloads
Pull(self) ==
    /\ stage[self] = "pull"
    /\ pulled' = [pulled EXCEPT ![self] = Pending(kind[self])]
    /\ Goto(self, "apply", kind[self])
    /\ UNCHANGED <<requests, late, files, lines, taken, todo, result, lock, botched,
                   puts, menuRuns, faults>>

PullFails(self) ==
    /\ faults < MaxFaults
    /\ stage[self] = "pull"
    /\ Goto(self, "apply", kind[self])
    /\ faults' = faults + 1
    /\ UNCHANGED <<requests, late, files, lines, taken, todo, pulled, result, lock,
                   botched, puts, menuRuns>>

\* The request whose turn it is
IsFirst(self, i) == i \in pulled[self] /\ \A j \in pulled[self] : i <= j

\* Mutant: the answer does not look at the outcome.
AlwaysOk(ok) == TRUE

\* The status sent: "ok" for Ok(_), "fail" for Err(_)
Outcome(ok) == ok

Apply(self, i, ok) ==
    /\ stage[self] = "apply"
    /\ IsFirst(self, i)
    /\ IF kind[self] = "delete" THEN Deletion(requests[i].path, ok)
                                ELSE Download(requests[i].path, ok)
    /\ result' = [result EXCEPT ![self] = Outcome(ok)]
    /\ Goto(self, "ack", kind[self])
    /\ UNCHANGED <<requests, late, lines, taken, todo, pulled, lock, botched, puts,
                   menuRuns, faults>>

Answer(self, i) ==
    [kind |-> kind[self], path |-> requests[i].path, ok |-> result[self]]

Answered(self, i) ==
    /\ stage[self] = "ack"
    /\ IsFirst(self, i)
    /\ pulled' = [pulled EXCEPT ![self] = @ \ {i}]
    /\ Goto(self, "apply", kind[self])
    /\ UNCHANGED <<files, lines, taken, todo, result, lock, botched, puts, menuRuns>>

\* ack_server: the server has served the answer when the agent goes on.
Ack(self, i) ==
    /\ Answered(self, i)
    /\ requests' = Settled(Answer(self, i))
    /\ UNCHANGED <<late, faults>>

\* The agent gives up after its time-out (`.ok()`, `let _`) and goes on; the
\* server may serve the answer later, or never.
AckLate(self, i) ==
    /\ faults < MaxFaults
    /\ Answered(self, i)
    /\ late' = [late EXCEPT ![Answer(self, i)] = @ + 1]
    /\ faults' = faults + 1
    /\ UNCHANGED requests

\* Mutant: the lock outlives the cleanup.
NotReleased(k) == lock

\* _lock is dropped where cmd_cleanup returns.
Released(k) == IF k = "delete" THEN Nobody ELSE lock

\* The end of a queue: cmd_cleanup drops its lock; the run loop goes on with
\* the downloads and then starts the next round.
EndQueue(self) ==
    /\ stage[self] = "apply"
    /\ pulled[self] = {}
    /\ lock' = Released(kind[self])
    /\ IF self = RunLoop /\ kind[self] = "delete"
       THEN Goto(self, "pull", "download")
       ELSE Goto(self, "idle", "delete")
    /\ UNCHANGED <<requests, late, files, lines, taken, todo, pulled, result,
                   botched, puts, menuRuns, faults>>

\* Killed; what it was sending may still arrive.  The lock is stale.
Crash(self) ==
    /\ faults < MaxFaults
    /\ stage[self] # "idle"
    /\ \/ UNCHANGED late
       \/ /\ stage[self] = "ack"
          /\ \E i \in pulled[self] :
                /\ IsFirst(self, i)
                /\ late' = [late EXCEPT ![Answer(self, i)] = @ + 1]
    /\ Goto(self, "idle", "delete")
    /\ todo' = [todo EXCEPT ![self] = <<>>]
    /\ pulled' = [pulled EXCEPT ![self] = {}]
    /\ lock' = IF lock = self THEN Nobody ELSE lock
    /\ faults' = faults + 1
    /\ UNCHANGED <<requests, files, lines, taken, result, botched, puts, menuRuns>>

-----------------------------------------------------------------------------

Step(self) ==
    \/ \E ok \in BOOLEAN :
          DeleteLine(self, ok) \/ \E i \in pulled[self] : Apply(self, i, ok)
    \/ \E i \in pulled[self] : Ack(self, i)
    \/ EmptyQueue(self) \/ Pull(self) \/ EndQueue(self)

\* The wish of a request: the ROM is gone, or there.
Granted(r, fs) == IF r.kind = "delete" THEN r.path \notin fs ELSE r.path \in fs

\* History: the requests whose wish was true at some time since they came.
Observe ==
    met' = met \union {i \in DOMAIN requests' : Granted(requests'[i], files')}

Next ==
    /\ \/ \E p \in Paths :
              RequestDeletion(p) \/ RequestDownload(p) \/ Put(p) \/ WriteLine(p)
       \/ \E a \in Answers : ServeLate(a)
       \/ Refused
       \/ \E self \in Commands :
              \/ Begin(self) \/ Step(self)
              \/ \E i \in pulled[self] : AckLate(self, i)
              \/ PullFails(self) \/ Crash(self)
    /\ Observe

Spec == Init /\ [][Next]_vars

\* cmd_run goes round for ever, and a command that has started ends.
Fairness ==
    /\ WF_vars((Begin(RunLoop) \/ Refused) /\ Observe)
    /\ \A self \in Commands : WF_vars(Step(self) /\ Observe)

FairSpec == Spec /\ Fairness

-----------------------------------------------------------------------------
(* Properties *)

Consistent(c) ==
    /\ stage[c] \in {"idle", "lines"} => kind[c] = "delete"
    /\ stage[c] = "ack" => pulled[c] # {}
    /\ stage[c] \notin {"apply", "ack"} => pulled[c] = {}
    /\ \A i \in pulled[c] : requests[i].kind = kind[c]
    /\ lock = c <=> (stage[c] # "idle" /\ kind[c] = "delete")

RowsTyped ==
    /\ requests \in Seq(Requests)
    /\ late \in [Answers -> Nat]
    /\ files \in SUBSET Paths
    /\ lines \in Seq(Paths)
    /\ met \in SUBSET DOMAIN requests
    /\ puts \in Nat /\ menuRuns \in Nat /\ faults \in Nat

AgentTyped ==
    /\ stage \in [Commands -> {"idle", "lines", "pull", "apply", "ack"}]
    /\ kind \in [Commands -> Kinds]
    /\ taken \in [Commands -> Seq(Paths)]
    /\ todo \in [Commands -> Seq(Paths)]
    /\ pulled \in [Commands -> SUBSET DOMAIN requests]
    /\ result \in [Commands -> BOOLEAN]
    /\ lock \in Commands \union {Nobody}
    /\ botched \in [Commands -> BOOLEAN]

\* Every variable has its type; a command that answers has something to
\* answer; the lock is held exactly while a cleanup runs.
TypeOK == RowsTyped /\ AgentTyped /\ \A c \in Commands : Consistent(c)

Same(i, j) ==
    requests[i].kind = requests[j].kind /\ requests[i].path = requests[j].path

\* A request is settled as "ok" only if its wish, or that of an earlier request
\* for the same path, has come true since it was made: whatever answers are
\* lost, late or given twice, and whoever else changes the ROMs.
OkWasEarned ==
    \A i \in DOMAIN requests :
        requests[i].status = "ok" => \E j \in met : j <= i /\ Same(i, j)

\* What was answered is not answered differently by a late or a second answer.
AnswersStand ==
    [][\A i \in DOMAIN requests :
          requests[i].status # "pending" => requests'[i] = requests[i]]_vars

\* Every request is settled in the end.
EveryRequestSettles ==
    \A i \in 1..MaxRequests :
        (i \in DOMAIN requests /\ requests[i].status = "pending")
        ~> (i \in DOMAIN requests /\ requests[i].status # "pending")

\* dashboard.rs:1315: "the agent processes the queue every ~60s and the file
\* is removed from the SD."
OkMeansRemoved ==
    \A i \in DOMAIN requests :
        requests[i].kind = "delete" /\ requests[i].status = "ok" => i \in met

\* cleanup.rs:2-3: "or pull pending delete requests from the dashboard server
\* and apply them."
AppliesPendingOnly ==
    [][\A c \in Commands :
          (stage[c] = "apply" /\ stage'[c] = "ack" /\ files' \subseteq files
               /\ files' # files)
          => \E i \in DOMAIN requests :
                 /\ requests[i].kind = "delete"
                 /\ requests[i].status = "pending"
                 /\ requests[i].path \in files \ files']_vars

\* cleanup.rs:30: "Empty queue file on success."
EmptiedOnSuccess ==
    [][\A c \in Commands :
          stage[c] = "lines" /\ stage'[c] # "lines" /\ lines' # lines
          => ~botched[c]]_vars

\* scripts/install-to-sd.sh:359: "wait for the autosync service to process
\* them": no entry leaves the file unread.
NoLineUnread ==
    [][\A c \in Commands :
          stage[c] = "lines" /\ stage'[c] # "lines" /\ lines' # lines
          => lines = taken[c]]_vars
=============================================================================
