------------------------------ MODULE Delivery ------------------------------
(***************************************************************************)
(* What the outbox of playora-agent promises to whoever enqueues an event. *)
(*                                                                         *)
(* An event that was enqueued is stored at most once by the server, takes  *)
(* effect there at most once, and is forgotten by the agent (marked        *)
(* 'sent') only when the server has it.  A power cut may take the agent    *)
(* back in time, but never further than that: a row that was never         *)
(* flushed disappears and a row whose 'sent' mark was not flushed is       *)
(* pending again.                                                          *)
(***************************************************************************)
EXTENDS Naturals

CONSTANT NumEvents

Event == 1 .. NumEvents

VARIABLES
    next,       \* the event enqueued next: events 1 .. next-1 exist
    box,        \* the agent's view: "none", "pending" or "sent"
    stored,     \* events the server has
    applied     \* events that took effect in the server's tables

vars == <<next, box, stored, applied>>

Init ==
    /\ next = 1
    /\ box = [e \in Event |-> "none"]
    /\ stored = {}
    /\ applied = {}

Create ==
    /\ next \in Event
    /\ box' = [box EXCEPT ![next] = "pending"]
    /\ next' = next + 1
    /\ UNCHANGED <<stored, applied>>

Store(e) ==
    /\ e < next
    /\ e \notin stored
    /\ stored' = stored \union {e}
    /\ UNCHANGED <<next, box, applied>>

Apply(e) ==
    /\ e \in stored \ applied
    /\ applied' = applied \union {e}
    /\ UNCHANGED <<next, box, stored>>

Confirm(S) ==
    /\ box' = [e \in Event |->
                 IF e \in S /\ box[e] # "none" THEN "sent" ELSE box[e]]
    /\ UNCHANGED <<next, stored, applied>>

\* b is an earlier view of the outbox: rows are missing from it, and rows
\* marked since are still pending in it.
EarlierView(b) ==
    \A e \in Event :
        \/ b[e] \in {"none", box[e]}
        \/ b[e] = "pending" /\ box[e] = "sent"

PowerCut ==
    /\ box' \in [Event -> {"none", "pending", "sent"}]
    /\ EarlierView(box')
    /\ UNCHANGED <<next, stored, applied>>

Next ==
    \/ Create
    \/ \E e \in Event : Store(e) \/ Apply(e)
    \/ \E S \in SUBSET stored : Confirm(S)
    \/ PowerCut

Spec == Init /\ [][Next]_vars
=============================================================================
