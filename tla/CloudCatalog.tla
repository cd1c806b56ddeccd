---------------------------- MODULE CloudCatalog ----------------------------
(***************************************************************************)
(* The list of what the cloud holds: cloud-catalog takes a lock, lists the  *)
(* remote and posts the list; the server replaces the device's rows one by  *)
(* one, outside a transaction, and the dashboard reads them.                *)
(***************************************************************************)
EXTENDS Naturals, FiniteSets

CONSTANTS
    Files,
    MaxRefresh, MaxChanges, MaxCrashes      \* bounds

VARIABLES
    remote,         \* the files in the cloud
    agent,          \* cmd_catalog: what it is at, and the list it has
    requests,       \* posts that have not been handled yet
    post,           \* cloud_catalog_post: what it is at, with the state's mutex
    rows,           \* table cloud_catalog, for one device
    shown,          \* what the dashboard was last given
    refreshes, changes, crashes,
    served          \* history: the lists the dashboard may show

catalogVars == <<remote, agent, requests, post, rows, shown, refreshes, changes, crashes, served>>

IdleAgent == [at |-> "idle", list |-> {}]
IdlePost == [at |-> "idle", list |-> {}, todo |-> {}, left |-> {}, refused |-> {}]

Init ==
    /\ remote \in SUBSET Files /\ agent = IdleAgent /\ requests = {} /\ post = IdlePost
    /\ rows = {} /\ shown = {} /\ refreshes = 0 /\ changes = 0 /\ crashes = 0
    /\ served = {{}}

\* cloud-backup of this device or of another changes the remote.
Change(f) ==
    /\ changes < MaxChanges /\ changes' = changes + 1
    /\ remote' = IF f \in remote THEN remote \ {f} ELSE remote \union {f}
    /\ UNCHANGED <<agent, requests, post, rows, shown, refreshes, crashes, served>>

\* The lock keeps a second cloud-catalog away, until the first ends.
List ==
    /\ agent.at = "idle" /\ refreshes < MaxRefresh
    /\ refreshes' = refreshes + 1
    /\ agent' = [at |-> "listed", list |-> remote]
    /\ UNCHANGED <<remote, requests, post, rows, shown, changes, crashes, served>>

Post ==
    /\ agent.at = "listed"
    /\ agent' = [agent EXCEPT !.at = "waits"]
    /\ requests' = requests \union {[list |-> agent.list, number |-> refreshes]}
    /\ UNCHANGED <<remote, post, rows, shown, refreshes, changes, crashes, served>>

\* An answer, or none after 60 s: the request may still be on its way.
GiveUp ==
    /\ agent.at # "idle"
    /\ agent' = IdleAgent
    /\ UNCHANGED <<remote, requests, post, rows, shown, refreshes, changes, crashes, served>>

-----------------------------------------------------------------------------
(* Server *)

\* Mutant: the rows of the list before are kept.
NotDeleted == rows

Deleted == {}

Taken(r, left) ==
    [at |-> "insert", list |-> r.list, todo |-> r.list, left |-> left, refused |-> {}]

\* The handler takes the mutex and deletes the device's rows.  The database may refuse
\* the DELETE, and any INSERT after it: the answer is 200 all the same.
Handle(r) ==
    /\ post.at = "idle" /\ r \in requests
    /\ requests' = requests \ {r}
    /\ \/ rows' = Deleted /\ post' = Taken(r, {})
       \/ UNCHANGED rows /\ post' = Taken(r, rows)
    /\ UNCHANGED <<remote, agent, shown, refreshes, changes, crashes, served>>

\* INSERT OR REPLACE of an entry
Insert(f) ==
    /\ post.at = "insert" /\ f \in post.todo
    /\ \/ rows' = rows \union {f} /\ post' = [post EXCEPT !.todo = @ \ {f}]
       \/ UNCHANGED rows /\ post' = [post EXCEPT !.todo = @ \ {f}, !.refused = @ \union {f}]
    /\ UNCHANGED <<remote, agent, requests, shown, refreshes, changes, crashes, served>>

\* What one post makes of the table: its list, without the entries the database refused
\* and with the rows it did not delete
Outcome(p) == p.left \union (p.list \ p.refused)

Done ==
    /\ post.at = "insert" /\ post.todo = {}
    /\ post' = IdlePost
    /\ served' = served \union {Outcome(post)}
    /\ UNCHANGED <<remote, agent, requests, rows, shown, refreshes, changes, crashes>>

\* The server stops, between two inserts too: each is a transaction of its own.
Crash ==
    /\ crashes < MaxCrashes /\ crashes' = crashes + 1
    /\ post' = IdlePost /\ requests' = {}
    /\ served' = served \union {rows}
    /\ UNCHANGED <<remote, agent, rows, shown, refreshes, changes>>

\* Mutant: the list is read without the mutex.
AnyTime == TRUE

Unlocked == post.at = "idle"

\* cloud_catalog_list takes the same mutex.
Show ==
    /\ Unlocked
    /\ shown' = rows
    /\ UNCHANGED <<remote, agent, requests, post, rows, refreshes, changes, crashes, served>>

Next ==
    \/ List \/ Post \/ GiveUp \/ Done \/ Crash \/ Show
    \/ \E f \in Files : Change(f) \/ Insert(f)
    \/ \E r \in requests : Handle(r)

Spec == Init /\ [][Next]_catalogVars

-----------------------------------------------------------------------------
(* Properties *)

\* Every variable has its type.
TypeOK ==
    /\ remote \subseteq Files /\ rows \subseteq Files /\ shown \subseteq Files
    /\ agent.at \in {"idle", "listed", "waits"} /\ post.at \in {"idle", "insert"}
    /\ post.todo \subseteq post.list /\ post.refused \subseteq post.list \ post.todo
    /\ post.left \subseteq Files
    /\ \A r \in requests : r.list \subseteq Files

\* The dashboard shows one list as the cloud had it, never the remainder of one and a
\* part of the next, unless the server stopped in the middle of one or the database
\* refused statements of the post, which hides their entries or keeps the list before.
ShownIsOneList == shown \in served
=============================================================================
