----------------------------- MODULE Scheduler -----------------------------
(***************************************************************************)
(* The run loop of playora-agent (cmd_run in sync.rs) as far as its daily   *)
(* jobs are concerned: rounds of polls, then Scheduler::tick, then a sleep  *)
(* that is shorter than an hour.  The jobs of a tick run one after the      *)
(* other, while the loop waits; the clock is read once per tick.            *)
(***************************************************************************)
EXTENDS Naturals, Sequences

CONSTANTS
    JobOrder,       \* the jobs in the order of tick
    HourOf,         \* the hour a job is configured for; HoursADay is never
    HoursADay,
    MaxTime,        \* hours
    MaxRestarts

Daily == {JobOrder[i] : i \in DOMAIN JobOrder}

SchedulerAssumption ==
    /\ HoursADay \in Nat \ {0} /\ {MaxTime, MaxRestarts} \subseteq Nat
    /\ HoursADay <= MaxTime        \* a day at least
    /\ JobOrder \in Seq(Daily) /\ \A j \in Daily : HourOf[j] \in 0..HoursADay

Days == 0..(MaxTime \div HoursADay)
Never == MaxTime + 1            \* no day

VARIABLES
    time,           \* hours since midnight of the first day
    phase,
    index,          \* the job the tick is at
    read,           \* the clock, as the tick has read it
    lastDay,        \* of each job
    fired,          \* history: starts of a job due on a day, since the restart
    ticked,         \* history: hours in which a tick began and came to its end
    late,           \* history: a job was started in another hour than its own
    restarts

vars == <<time, phase, index, read, lastDay, fired, ticked, late, restarts>>

DayOf(t) == t \div HoursADay
Hour(t) == t % HoursADay

Fresh ==
    /\ lastDay' = [j \in Daily |-> Never]
    /\ fired' = [j \in Daily |-> [d \in Days |-> 0]]

Init ==
    /\ time \in 0..(HoursADay - 1)
    /\ phase = "polls" /\ index = 1 /\ read = 0
    /\ lastDay = [j \in Daily |-> Never]
    /\ fired = [j \in Daily |-> [d \in Days |-> 0]]
    /\ ticked = {} /\ late = {} /\ restarts = 0

\* Polls and jobs may take hours, and so may a device that is off; a sleep does
\* not.
Advance ==
    /\ time < MaxTime
    /\ phase \in {"polls", "job", "down"} \/ (phase = "asleep" /\ time \in ticked)
    /\ time' = time + 1
    /\ UNCHANGED <<phase, index, read, lastDay, fired, ticked, late, restarts>>

BeginTick ==
    /\ phase = "polls"
    /\ phase' = "tick" /\ index' = 1 /\ read' = time
    /\ UNCHANGED <<time, lastDay, fired, ticked, late, restarts>>

Job == JobOrder[index]

\* Mutant: one day for all jobs.
DueOnce(j) == Hour(read) = HourOf[j] /\ \A k \in Daily : lastDay[k] # DayOf(read)

\* Mutant: a job that was missed is made up for.
DueOrMissed(j) == Hour(read) >= HourOf[j] /\ lastDay[j] # DayOf(read)

\* Mutant: every tick of the hour.
DueAlways(j) == Hour(read) = HourOf[j]

Due(j) == Hour(read) = HourOf[j] /\ lastDay[j] # DayOf(read)

\* run_inhibited
Fire ==
    /\ phase = "tick" /\ index \in DOMAIN JobOrder /\ Due(Job)
    /\ fired' = [fired EXCEPT ![Job][DayOf(read)] = @ + 1]
    /\ late' = IF time = read THEN late ELSE late \union {Job}
    /\ phase' = "job"
    /\ UNCHANGED <<time, index, read, lastDay, ticked, restarts>>

\* Whatever its exit code
Finished ==
    /\ phase = "job"
    /\ lastDay' = [lastDay EXCEPT ![Job] = DayOf(read)]
    /\ index' = index + 1
    /\ phase' = "tick"
    /\ UNCHANGED <<time, read, fired, ticked, late, restarts>>

NotDue ==
    /\ phase = "tick" /\ index \in DOMAIN JobOrder /\ ~Due(Job)
    /\ index' = index + 1
    /\ UNCHANGED <<time, phase, read, lastDay, fired, ticked, late, restarts>>

EndTick ==
    /\ phase = "tick" /\ index \notin DOMAIN JobOrder
    /\ ticked' = ticked \union {read}
    /\ phase' = "asleep"
    /\ UNCHANGED <<time, index, read, lastDay, fired, late, restarts>>

WakeUp ==
    /\ phase = "asleep"
    /\ phase' = "polls"
    /\ UNCHANGED <<time, index, read, lastDay, fired, ticked, late, restarts>>

\* The agent ends, or the device goes off.
Stop ==
    /\ phase # "down" /\ restarts < MaxRestarts
    /\ phase' = "down" /\ restarts' = restarts + 1
    /\ UNCHANGED <<time, index, read, lastDay, fired, ticked, late>>

\* Nothing of the scheduler is stored.
Start ==
    /\ phase = "down"
    /\ phase' = "polls"
    /\ Fresh
    /\ UNCHANGED <<time, index, read, ticked, late, restarts>>

Next ==
    \/ Advance \/ BeginTick \/ Fire \/ Finished \/ NotDue \/ EndTick \/ WakeUp
    \/ Stop \/ Start

Spec == Init /\ [][Next]_vars

-----------------------------------------------------------------------------
(* Properties *)

\* Every variable has its type; the clock a tick goes by is never ahead.
TypeOK ==
    /\ time \in 0..MaxTime /\ read \in 0..time
    /\ phase \in {"polls", "tick", "job", "asleep", "down"}
    /\ index \in 1..Len(JobOrder) + 1
    /\ lastDay \in [Daily -> Days \union {Never}]
    /\ fired \in [Daily -> [Days -> Nat]]
    /\ ticked \subseteq 0..MaxTime /\ late \subseteq Daily
    /\ restarts \in 0..MaxRestarts

\* Between two restarts of the agent, a job runs at most once a day, whatever the
\* rounds and the other jobs take.
OncePerDay == \A j \in Daily, d \in Days : fired[j][d] <= 1

\* A day goes by without a job only when the loop was busy or down for the whole
\* of its hour: an hour in which a tick began and ended had its jobs.
HourIsServed ==
    restarts = 0 => \A t \in ticked, j \in Daily :
        Hour(t) = HourOf[j] => fired[j][DayOf(t)] >= 1

\* A job starts late only behind another job of its own hour.
LateOnlyBehind ==
    \A j \in late : \E k \in Daily \ {j} : HourOf[k] = HourOf[j]

\* install-to-sd.sh:390-392: "Cloud Backup at 06:00 UTC", "Scan ROMs at 05:00 UTC
\* -- finishes before backup": the jobs of an hour are done before the next one.
DoneWithinTheHour == phase = "job" => time = read
=============================================================================
