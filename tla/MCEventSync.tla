---------------------------- MODULE MCEventSync -----------------------------
(* EventSync on small instances. *)
EXTENDS EventSync, TLC

CONSTANTS run, cli, s1

\* Events 1 and 2 report the session s1; a further event is a heartbeat.
StartOfValue  == [s \in {s1} |-> 1]
FinishOfValue == [s \in {s1} |-> 2]

\* The processes differ only in the fairness assumed of them, and the slots
\* of the requests not at all.
Symmetric == Permutations(Syncers) \union Permutations(Conns)
=============================================================================
