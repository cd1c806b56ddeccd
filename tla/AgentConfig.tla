----------------------------- MODULE AgentConfig -----------------------------
(***************************************************************************)
(* agent.toml (cfg.rs): init creates it or rewrites it in place, the player *)
(* edits it, and every start of the agent reads it.  A server address of    *)
(* "auto" is looked up by mDNS each time the file is read, for init too.    *)
(* The console can be switched off while the file is written.               *)
(***************************************************************************)
EXTENDS Naturals

CONSTANTS
    Addresses,      \* addresses the server may have, one after the other
    Names,
    MaxInits, MaxMoves, MaxEdits    \* bounds

VARIABLES
    file,           \* agent.toml
    init,           \* cmd_init: what it is at, and the configuration it has
    agent,          \* the running agent's configuration; Off when there is none
    address,        \* where the server is now
    override,       \* PLAYORA_SERVER_URL, or "" when it is not set
    ids,            \* how many device ids were made
    inits, moves, edits,
    identity,       \* history: the device id that was first stored; 0 before
    wanted          \* history: the address the player last asked for, if any

configVars == <<file, init, agent, address, override, ids, inits, moves, edits, identity, wanted>>

Missing == [state |-> "missing", id |-> 0, name |-> "", url |-> ""]
CutOff == [Missing EXCEPT !.state = "torn"]
Off == Missing
Quiet == [at |-> "idle", config |-> Missing, asked |-> ""]

Init ==
    /\ file = Missing /\ init = Quiet /\ agent = Off
    /\ address \in Addresses /\ override \in {""} \union Addresses
    /\ ids = 0 /\ inits = 0 /\ moves = 0 /\ edits = 0 /\ identity = 0 /\ wanted = ""

\* The router gives the server another address.
Move ==
    /\ moves < MaxMoves /\ moves' = moves + 1
    /\ address' \in Addresses \ {address}
    /\ UNCHANGED <<file, init, agent, override, ids, inits, edits, identity, wanted>>

\* resolve_server_url: the override, or the address mDNS finds within 2 s, or
\* what the file says.
Resolved(url) ==
    IF override # "" THEN {override}
    ELSE IF url = "auto" THEN {address, "auto"}
    ELSE {url}

-----------------------------------------------------------------------------
(* cmd_init *)

\* AgentConfig::default with a fresh device id
Fresh == [state |-> "whole", id |-> ids + 1, name |-> "R36S", url |-> "http://127.0.0.1:8080"]

\* Mutant: a file that does not parse is taken for a missing one.
Default(f) == f.state # "whole"

Creates(f) == f.state = "missing"

\* What the configuration is built on.  A file that does not parse ends init:
\* no field but the hours of the schedule has a default.
Base(f) == IF Creates(f) THEN {Fresh}
           ELSE IF f.state = "whole" THEN {[f EXCEPT !.url = u] : u \in Resolved(f.url)}
           ELSE {}

\* --server-url and --device-name are given or not.
ReadConfig ==
    /\ init.at = "idle" /\ inits < MaxInits /\ inits' = inits + 1
    /\ \E b \in Base(file), u \in Addresses \union {"", "auto"}, n \in Names \union {""} :
          init' = [at |-> "built", asked |-> u,
                   config |-> [b EXCEPT !.url = IF u = "" THEN @ ELSE u,
                                        !.name = IF n = "" THEN @ ELSE n]]
    /\ ids' = IF Creates(file) THEN ids + 1 ELSE ids
    /\ UNCHANGED <<file, agent, address, override, moves, edits, identity, wanted>>

\* fs::write: the file is emptied, then written.
Empty ==
    /\ init.at = "built"
    /\ file' = CutOff
    /\ init' = [init EXCEPT !.at = "write"]
    /\ UNCHANGED <<agent, address, override, ids, inits, moves, edits, identity, wanted>>

Stored(config) ==
    /\ file' = config
    /\ identity' = IF identity = 0 THEN config.id ELSE identity

WriteConfig ==
    /\ init.at = "write"
    /\ Stored(init.config)
    /\ wanted' = IF init.asked = "" THEN wanted ELSE init.asked
    /\ init' = Quiet
    /\ UNCHANGED <<agent, address, override, ids, inits, moves, edits>>

\* The console is switched off; the file stays as it is.
SwitchOff ==
    /\ init' = Quiet /\ agent' = Off
    /\ UNCHANGED <<file, address, override, ids, inits, moves, edits, identity, wanted>>

-----------------------------------------------------------------------------

\* The player changes the address in the file, or puts a backup of the file back.
Edit ==
    /\ edits < MaxEdits /\ edits' = edits + 1
    /\ init.at = "idle" /\ identity # 0
    /\ \E u \in Addresses \union {"auto"}, n \in Names :
           /\ Stored([state |-> "whole", id |-> identity, name |-> n, url |-> u])
           /\ wanted' = u
    /\ UNCHANGED <<init, agent, address, override, ids, inits, moves>>

\* load: the agent starts, unless the file is missing or does not parse.
Load ==
    /\ agent = Off /\ file.state = "whole"
    /\ \E u \in Resolved(file.url) : agent' = [file EXCEPT !.url = u]
    /\ UNCHANGED <<file, init, address, override, ids, inits, moves, edits, identity, wanted>>

Next ==
    \/ Move \/ ReadConfig \/ Empty \/ WriteConfig \/ SwitchOff \/ Edit \/ Load

Spec == Init /\ [][Next]_configVars

-----------------------------------------------------------------------------
(* Properties *)

\* Every variable has its type.
TypeOK ==
    /\ \A c \in {file, agent, init.config} :
          /\ c.state \in {"missing", "torn", "whole"} /\ c.id \in 0..ids
          /\ c.url \in Addresses \union {"", "auto", "http://127.0.0.1:8080"}
    /\ init.at \in {"idle", "built", "write"}
    /\ address \in Addresses /\ identity \in 0..ids

\* A console keeps the device id it first had, through every later init and
\* every one that was cut off: the server's sessions, saves and queues are all
\* filed under it.
IdentityStays ==
    /\ file.state = "whole" => file.id = identity
    /\ agent # Off => agent.id = identity

\* Refuted: a console set up with "auto" goes on looking
\* the server up until the player gives it an address.  An init that changes
\* something else reads the file with "auto" resolved and writes what it found.
DiscoverySurvives == file.state = "whole" /\ wanted = "auto" => file.url = "auto"
=============================================================================
