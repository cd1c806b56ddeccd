----------------------------- MODULE Migrations -----------------------------
(***************************************************************************)
(* db::open and apply_migrations of the agent (playora-agent/src/db.rs):    *)
(* every function that reports something opens the database anew, in every  *)
(* process, also in one of an older agent that is still running after an    *)
(* update.  Each statement of a migration, and the row that records it,     *)
(* commits by itself.                                                       *)
(***************************************************************************)
EXTENDS Naturals, Sequences, Functions

CONSTANTS
    Processes,
    Known,          \* of a process: how many migrations its binary has
    RunLoop,        \* the process that opens the database again and again
    Parts,          \* MIGRATIONS: how many statements each of them has
    InitialLogs,    \* the commits in a new database, and in one an older agent has made
    MaxFaults

VARIABLES
    log,            \* commits, in their order: <<version, statement>>
    flushed,        \* how many of them a power cut leaves (synchronous=NORMAL)
    stage,          \* of a process
    version, part,  \* the statement it executes next
    faults

schemaVars == <<log, flushed, stage, version, part, faults>>

Recorded == 0       \* "statement" 0: the row of schema_migrations
Versions == DOMAIN Parts

\* What migration v commits, and what is committed before c where nothing fails: the
\* earlier migrations, and of its own, before the row that records it, every statement.
Commits(v) == {<<v, i>> : i \in 0..Parts[v]}
Before(c) == (UNION {Commits(v) : v \in 1..c[1] - 1})
             \union (IF c[2] = Recorded THEN Commits(c[1]) \ {c} ELSE {})

\* A log without a gap: before each commit is what has to be.
InOrder(l) == \A k \in DOMAIN l : \A c \in Before(l[k]) : \E j \in 1..k - 1 : l[j] = c

MigrationsAssumption ==
    /\ Parts \in Seq(Nat)
    /\ Known \in [Processes -> 0..Len(Parts)]
    /\ RunLoop \in Processes
    /\ \A l \in InitialLogs : /\ l \in Seq(UNION {Commits(v) : v \in Versions})
                              /\ IsInjective(l) /\ InOrder(l)
    /\ MaxFaults \in Nat

Init ==
    /\ log \in InitialLogs
    /\ flushed = Len(log)
    /\ stage = [p \in Processes |-> "closed"]
    /\ version = [p \in Processes |-> 1]
    /\ part = [p \in Processes |-> 1]
    /\ faults = 0

Executed(v, i) == <<v, i>> \in Range(log)

\* COALESCE(MAX(version), 0)
Current ==
    LET recorded == {v \in Versions : Executed(v, Recorded)}
    IN IF recorded = {} THEN 0 ELSE CHOOSE v \in recorded : \A w \in recorded : w <= v

\* Mutant: the newest recorded migration is applied again.
From(current) == IF current = 0 THEN 1 ELSE current

\* *v > current
After(current) == current + 1

Goes(p, v) ==
    /\ version' = [version EXCEPT ![p] = v]
    /\ part' = [part EXCEPT ![p] = 1]
    /\ stage' = [stage EXCEPT ![p] = IF v > Known[p] THEN "open" ELSE "migrating"]

\* apply_migrations up to the loop; SCHEMA is CREATE IF NOT EXISTS throughout.
Open(p) ==
    /\ stage[p] = "closed"
    /\ Goes(p, After(Current))
    /\ UNCHANGED <<log, flushed, faults>>

\* The SELECT fails: unwrap_or(0).
OpenBlind(p) ==
    /\ stage[p] = "closed" /\ faults < MaxFaults
    /\ faults' = faults + 1
    /\ Goes(p, After(0))
    /\ UNCHANGED <<log, flushed>>

\* Mutant: the row is written before the last statement is executed.
AlmostDone(p) == part[p] >= Parts[version[p]]

\* execute_batch has returned.
Done(p) == part[p] > Parts[version[p]]

Commit(c) == log' = Append(log, c)

\* A statement of execute_batch: CREATE ... IF NOT EXISTS
Execute(p) ==
    /\ stage[p] = "migrating" /\ ~Done(p)
    /\ IF Executed(version[p], part[p]) THEN UNCHANGED log ELSE Commit(<<version[p], part[p]>>)
    /\ part' = [part EXCEPT ![p] = @ + 1]
    /\ UNCHANGED <<flushed, stage, version, faults>>

Record(p) ==
    /\ stage[p] = "migrating" /\ Done(p) /\ ~Executed(version[p], Recorded)
    /\ Commit(<<version[p], Recorded>>)
    /\ Goes(p, version[p] + 1)
    /\ UNCHANGED <<flushed, faults>>

\* PRIMARY KEY: another process has recorded it, and open fails.
Refused(p) ==
    /\ stage[p] = "migrating" /\ Done(p) /\ Executed(version[p], Recorded)
    /\ stage' = [stage EXCEPT ![p] = "refused"]
    /\ UNCHANGED <<log, flushed, version, part, faults>>

\* The caller is done with the connection, or goes on without one.
Close(p) ==
    /\ stage[p] \in {"open", "refused"}
    /\ stage' = [stage EXCEPT ![p] = "closed"]
    /\ UNCHANGED <<log, flushed, version, part, faults>>

Kill(p) ==
    /\ stage[p] # "closed" /\ faults < MaxFaults
    /\ faults' = faults + 1
    /\ stage' = [stage EXCEPT ![p] = "closed"]
    /\ UNCHANGED <<log, flushed, version, part>>

\* A checkpoint
Flush ==
    /\ flushed # Len(log)
    /\ flushed' = Len(log)
    /\ UNCHANGED <<log, stage, version, part, faults>>

PowerCut ==
    /\ faults < MaxFaults
    /\ faults' = faults + 1
    /\ \E n \in flushed..Len(log) : log' = SubSeq(log, 1, n) /\ flushed' = n
    /\ stage' = [p \in Processes |-> "closed"]
    /\ UNCHANGED <<version, part>>

Step(p) == Open(p) \/ Execute(p) \/ Record(p) \/ Refused(p) \/ Close(p)

Next ==
    \/ \E p \in Processes : Step(p) \/ OpenBlind(p) \/ Kill(p)
    \/ Flush \/ PowerCut

Spec == Init /\ [][Next]_schemaVars

\* cmd_run goes round for ever, and systemd starts it again.
FairSpec == Spec /\ WF_schemaVars(Step(RunLoop))

-----------------------------------------------------------------------------
(* Properties *)

\* Every variable has its type; nothing is executed twice.
TypeOK ==
    /\ log \in Seq(UNION {Commits(v) : v \in Versions}) /\ IsInjective(log)
    /\ flushed \in 0..Len(log)
    /\ stage \in [Processes -> {"closed", "migrating", "open", "refused"}]
    /\ version \in [Processes -> 1..Len(Parts) + 1]
    /\ part \in [Processes -> Nat]
    /\ faults \in 0..MaxFaults

\* Whoever has the database open finds every table and index its binary knows of,
\* whatever other processes did meanwhile and wherever they were killed or the power
\* went.
SchemaIsWhole ==
    \A p \in Processes : stage[p] = "open" =>
        \A v \in 1..Known[p] : \A i \in 1..Parts[v] : Executed(v, i)

\* The run loop always gets at the database again.
Opened == stage[RunLoop] = "open"
OpensAgain == []<>Opened

\* db.rs:18, "wait up to 15s for other process to release lock": another process may
\* delay an open, and not make it fail.
OthersOnlyDelay == \A p \in Processes : stage[p] # "refused"
=============================================================================
