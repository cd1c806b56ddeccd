---------------------------- MODULE FeatureFlags ----------------------------
(***************************************************************************)
(* The features of a console: set one by one on the server (set_features),  *)
(* served with defaults for those never set (manifest), and copied row by   *)
(* row into the agent's table feature_flags (features::cmd_fetch), which    *)
(* may end after any row.                                                   *)
(***************************************************************************)
EXTENDS Naturals, FiniteSets

CONSTANTS
    Features,
    DefaultOf(_),   \* the status manifest gives a feature that was never set
    Texts,          \* what set_features may be given
    MaxSets, MaxFetches     \* bounds

\* The defaults are statuses.
FlagAssumption ==
    \A f \in Features : DefaultOf(f) \in {"enabled", "locked", "planned", "disabled"}

VARIABLES
    stored,         \* device_features: feature -> text; Unset when no row
    fetch,          \* cmd_fetch: what it is at, the manifest, the keys to do
    flags,          \* the agent's feature_flags
    sets, fetches

flagVars == <<stored, fetch, flags, sets, fetches>>

Unset == "unset"
Idle == [at |-> "idle", manifest |-> [f \in Features |-> Unset], todo |-> {}]

Init ==
    /\ stored = [f \in Features |-> Unset] /\ flags = [f \in Features |-> Unset]
    /\ fetch = Idle /\ sets = 0 /\ fetches = 0

\* FeatureStatus of a text; one that is not known, or spelt otherwise, disables.
Status(text) == IF text \in {"enabled", "locked", "planned"} THEN text ELSE "disabled"

\* entry(..).or_insert(default)
Served(f) == IF stored[f] = Unset THEN DefaultOf(f) ELSE Status(stored[f])

\* set_features, with some features at once; the mutex keeps others out.
Set ==
    /\ sets < MaxSets /\ sets' = sets + 1
    /\ \E ks \in SUBSET Features \ {{}} : \E v \in [ks -> Texts] :
           stored' = [f \in Features |-> IF f \in ks THEN v[f] ELSE stored[f]]
    /\ UNCHANGED <<fetch, flags, fetches>>

Manifest ==
    /\ fetch.at \in {"idle", "done"} /\ fetches < MaxFetches /\ fetches' = fetches + 1
    /\ fetch' = [at |-> "rows", manifest |-> [f \in Features |-> Served(f)], todo |-> Features]
    /\ UNCHANGED <<stored, flags, sets>>

\* Mutant: a row that is there is kept (INSERT OR IGNORE).
Ignored(f, status) == IF flags[f] = Unset THEN status ELSE flags[f]

Upserted(f, status) == status

Row(f) ==
    /\ fetch.at = "rows" /\ f \in fetch.todo
    /\ flags' = [flags EXCEPT ![f] = Upserted(f, fetch.manifest[f])]
    /\ fetch' = [fetch EXCEPT !.todo = @ \ {f}]
    /\ UNCHANGED <<stored, sets, fetches>>

Done ==
    /\ fetch.at = "rows" /\ fetch.todo = {}
    /\ fetch' = [fetch EXCEPT !.at = "done"]
    /\ UNCHANGED <<stored, flags, sets, fetches>>

\* A row is refused or the process is killed: the rows before it stay.
Cut ==
    /\ fetch.at = "rows"
    /\ fetch' = Idle
    /\ UNCHANGED <<stored, flags, sets, fetches>>

Next == Set \/ Manifest \/ Done \/ Cut \/ \E f \in Features : Row(f)

Spec == Init /\ [][Next]_flagVars

-----------------------------------------------------------------------------
(* Properties *)

\* Every variable has its type.
TypeOK ==
    /\ stored \in [Features -> Texts \union {Unset}]
    /\ flags \in [Features -> {Unset, "enabled", "locked", "planned", "disabled"}]
    /\ fetch.at \in {"idle", "rows", "done"} /\ fetch.todo \subseteq Features

\* After a fetch that came to its end the console has every feature as the
\* server had it when it answered, whatever fetches were cut off before and
\* whatever was set meanwhile.
FetchedIsServed == fetch.at = "done" => flags = fetch.manifest
=============================================================================
