------------------------------ MODULE Services ------------------------------
(***************************************************************************)
(* autosync.rs of playora-agent: enable, disable and recover, the service   *)
(* manager that keeps the run loop alive, and the heavy commands whose locks *)
(* recover sweeps.  Every one of these processes is called playora-agent,    *)
(* recover too.                                                             *)
(***************************************************************************)
EXTENDS Naturals, FiniteSets

CONSTANTS
    Jobs,           \* heavy commands; they share one lock here
    None,
    MaxStrays,      \* run loops started by nohup
    MaxEvents       \* failures, freezes, boots

ServicesAssumption ==
    None \notin Jobs /\ {MaxStrays, MaxEvents} \subseteq Nat

VARIABLES
    systemd,        \* systemctl is there
    enabled,        \* the unit is installed and enabled
    managed,        \* the run loop of the unit: off, on, or in RestartSec
    strays,
    jobs, lock,     \* running heavy commands; the one the lockfile names
    screen,         \* EmulationStation
    step,           \* where recover is; killed when it killed itself
    stopping,       \* disable is between systemctl and pkill
    disabled,       \* history: disabled since the last enable or boot
    blunt,          \* history: ... with systemctl failing
    sweptLive,      \* history: a lock was swept whose owner was alive
    events

vars == <<systemd, enabled, managed, strays, jobs, lock, screen, step, stopping,
          disabled, blunt, sweptLive, events>>

Init ==
    /\ systemd \in BOOLEAN
    /\ enabled = FALSE /\ managed = "off" /\ strays = 0
    /\ jobs = {} /\ lock = None
    /\ screen = "up" /\ step = "idle" /\ stopping = FALSE
    /\ disabled = FALSE /\ blunt = FALSE /\ sweptLive = FALSE
    /\ events = 0

Event == events < MaxEvents /\ events' = events + 1

\* Mutant: the fallback is started next to the unit.
Both == TRUE

\* spawn_background_fallback
NoServiceManager == ~systemd

\* tee of the unit, daemon-reload, enable --now; without systemctl one more
\* process in the background, whatever runs already.
Enable ==
    /\ ~stopping
    /\ IF systemd THEN enabled' = TRUE /\ managed' = "on"
                  ELSE UNCHANGED <<systemd, enabled, managed>>
    /\ IF NoServiceManager
       THEN strays < MaxStrays /\ strays' = strays + 1
       ELSE UNCHANGED strays
    /\ disabled' = FALSE /\ blunt' = FALSE
    /\ UNCHANGED <<systemd, jobs, lock, screen, step, stopping, sweptLive, events>>

\* disable --now, which stops the loop also while systemd waits to restart it
Disable ==
    /\ ~stopping
    /\ enabled' = FALSE /\ managed' = "off"
    /\ stopping' = TRUE
    /\ UNCHANGED <<systemd, strays, jobs, lock, screen, step, disabled, blunt, sweptLive, events>>

\* systemctl fails; its status is printed.
DisableFails ==
    /\ ~stopping /\ Event
    /\ stopping' = TRUE /\ blunt' = TRUE
    /\ UNCHANGED <<systemd, enabled, managed, strays, jobs, lock, screen, step, disabled, sweptLive>>

\* Mutant: a loop that systemd does not manage is not found.
ManagedOnly == strays

\* pkill -f "playora-agent.*run"
Unkilled == 0

\* SIGTERM is a clean exit: on-failure does not restart it.
Pkill ==
    /\ stopping
    /\ strays' = Unkilled
    /\ managed' = IF managed = "on" THEN "off" ELSE managed
    /\ stopping' = FALSE /\ disabled' = TRUE
    /\ UNCHANGED <<systemd, enabled, jobs, lock, screen, step, blunt, sweptLive, events>>

\* Mutant: Restart=no.
NotRestarted == "off"

\* Restart=on-failure: SIGKILL is a failure.
AfterFailure == "wait"

LoopFails ==
    /\ managed = "on" /\ Event
    /\ managed' = AfterFailure
    /\ UNCHANGED <<systemd, enabled, strays, jobs, lock, screen, step, stopping, disabled, blunt, sweptLive>>

\* RestartSec has passed.
Restart ==
    /\ managed = "wait"
    /\ managed' = "on"
    /\ UNCHANGED <<systemd, enabled, strays, jobs, lock, screen, step, stopping,
                   disabled, blunt, sweptLive, events>>

Boot ==
    /\ Event
    /\ managed' = IF enabled THEN "on" ELSE "off"
    /\ strays' = 0 /\ jobs' = {} /\ lock' = None
    /\ screen' = "up" /\ step' = "idle" /\ stopping' = FALSE
    /\ disabled' = FALSE /\ blunt' = FALSE
    /\ UNCHANGED <<systemd, enabled, sweptLive>>

\* Mutant: the lock of a running command is taken over.
Stealable == TRUE

\* lockfile::acquire, as Lockfile has it in detail
Free == lock = None \/ lock \notin jobs

StartJob(j) ==
    /\ j \notin jobs /\ Free
    /\ jobs' = jobs \union {j} /\ lock' = j
    /\ UNCHANGED <<systemd, enabled, managed, strays, screen, step, stopping, disabled,
                   blunt, sweptLive, events>>

\* Drop removes the file, whoever's it is.
EndJob(j) ==
    /\ j \in jobs
    /\ jobs' = jobs \ {j} /\ lock' = None
    /\ UNCHANGED <<systemd, enabled, managed, strays, screen, step, stopping, disabled,
                   blunt, sweptLive, events>>

Freeze ==
    /\ screen = "up" /\ Event
    /\ screen' = "frozen"
    /\ UNCHANGED <<systemd, enabled, managed, strays, jobs, lock, step, stopping,
                   disabled, blunt, sweptLive>>

Recover ==
    /\ step \in {"idle", "killed", "done"}
    /\ step' = "kill"
    /\ UNCHANGED <<systemd, enabled, managed, strays, jobs, lock, screen, stopping,
                   disabled, blunt, sweptLive, events>>

\* sudo killall -9 playora-agent: every process of that name, the caller
\* included; killall itself is another process and goes on.
Killall ==
    /\ step = "kill"
    /\ strays' = 0 /\ jobs' = {}
    /\ managed' = IF managed = "on" THEN AfterFailure ELSE managed
    /\ step' = "killed"
    /\ stopping' = FALSE
    /\ UNCHANGED <<systemd, enabled, lock, screen, disabled, blunt, sweptLive, events>>

\* No killall, or no sudo: best effort.
KillallFails ==
    /\ step = "kill" /\ Event
    /\ step' = "sweep"
    /\ UNCHANGED <<systemd, enabled, managed, strays, jobs, lock, screen, stopping,
                   disabled, blunt, sweptLive>>

Sweep ==
    /\ step = "sweep"
    /\ sweptLive' = (sweptLive \/ lock \in jobs)
    /\ lock' = None
    /\ step' = "screen"
    /\ UNCHANGED <<systemd, enabled, managed, strays, jobs, screen, stopping, disabled, blunt, events>>

\* restart_emulationstation, and the two events
RestartScreen ==
    /\ step = "screen"
    /\ screen' = "up"
    /\ step' = "done"
    /\ UNCHANGED <<systemd, enabled, managed, strays, jobs, lock, stopping, disabled,
                   blunt, sweptLive, events>>

Next ==
    \/ Enable \/ Disable \/ DisableFails \/ Pkill
    \/ LoopFails \/ Restart \/ Boot \/ Freeze
    \/ (\E j \in Jobs : StartJob(j) \/ EndJob(j))
    \/ Recover \/ Killall \/ KillallFails \/ Sweep \/ RestartScreen

Spec == Init /\ [][Next]_vars

Fairness == WF_vars(Restart)

-----------------------------------------------------------------------------
(* Properties *)

\* Every variable has its type; only systemd waits to restart a loop.
TypeOK ==
    /\ enabled \in BOOLEAN /\ managed \in {"off", "on", "wait"}
    /\ strays \in 0..MaxStrays
    /\ jobs \subseteq Jobs /\ lock \in Jobs \union {None}
    /\ screen \in {"up", "frozen"}
    /\ step \in {"idle", "kill", "sweep", "screen", "killed", "done"}
    /\ {stopping, disabled, blunt, sweptLive} \subseteq BOOLEAN
    /\ events \in 0..MaxEvents
    /\ ~systemd => managed = "off"

\* With a service manager there is never more than one run loop, however often
\* autosync is enabled, killed, recovered or booted: two loops would report every
\* session twice.
SingleLoop ==
    systemd => strays + (IF managed = "on" THEN 1 ELSE 0) <= 1

\* autosync disable leaves no run loop behind, and none comes back before the
\* next enable or boot, unless systemctl failed in it.
StaysDisabled ==
    disabled /\ ~blunt => managed = "off" /\ strays = 0

\* Two heavy commands of one lock run together only after recover swept a lock
\* whose owner it had not killed.
JobsExclude == Cardinality(jobs) <= 1 \/ sweptLive

\* A loop that fails or is killed by recover is running again in the end, as long
\* as the unit is not disabled.
Alive == managed = "on" \/ ~enabled \/ disabled \/ stopping

\* docs/R36S_BLACK_SCREEN_FIX.md:67-71: recover "Kills `playora-agent`", "Sweeps
\* any `/tmp/playora-*.lock` files", "Restarts EmulationStation" and emits two
\* events: it gets that far.
RecoverEnds == step # "killed"

\* autosync.rs:103-104, under "Sweeping lockfiles": a lock that is swept is stale.
SweepsOnlyStale == ~sweptLive
=============================================================================
