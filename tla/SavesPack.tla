------------------------------ MODULE SavesPack ------------------------------
(***************************************************************************)
(* playora-agent saves upload: the saves are packed into a temporary tar    *)
(* whose name has the second in it, and the tar is posted to the server,    *)
(* which keeps it under the second it arrives in.  Games write their saves  *)
(* meanwhile; the command runs from a shell and from the menu at once.      *)
(***************************************************************************)
EXTENDS Naturals, FiniteSetsExt

CONSTANTS
    Saves, Packers,
    MaxLength,      \* a save's length in tar's blocks of 512 bytes
    MaxBody,        \* the longest body axum accepts, in blocks
    MaxTime, MaxWrites, MaxPacks    \* bounds

VARIABLES
    now,
    save,           \* Saves -> length; 0 when there is no such file
    temp,           \* playora_saves_<second>.tar.gz on the device
    stored,         \* saves_<second>.tar.gz on the server
    packer,
    writes, packs,  \* counted for the bounds
    kept,           \* history: archives the server answered for, by name
    twice           \* history: names that two uploads of one second took

savesVars == <<now, save, temp, stored, packer, writes, packs, kept, twice>>

Seconds == 1..MaxTime
Absent == [there |-> FALSE, entries |-> {}, whole |-> FALSE, mixed |-> FALSE, second |-> 0,
           listed |-> {}, written |-> {}]     \* the last three are history
Created == [Absent EXCEPT !.there = TRUE, !.second = now]
Idle == [at |-> "idle", second |-> 0, todo |-> {}, open |-> 0, header |-> 0,
         name |-> 0, listed |-> {}, written |-> {}, body |-> Absent]

Init ==
    /\ now = 1
    /\ save \in [Saves -> 0..MaxLength]
    /\ temp = [s \in Seconds |-> Absent] /\ stored = [s \in Seconds |-> Absent]
    /\ packer = [p \in Packers |-> Idle]
    /\ writes = 0 /\ packs = 0 /\ kept = {} /\ twice = {}

Tick == now < MaxTime /\ now' = now + 1
        /\ UNCHANGED <<save, temp, stored, packer, writes, packs, kept, twice>>

\* A game writes or removes a save.
Play(f) ==
    /\ writes < MaxWrites
    /\ \E n \in (0..MaxLength) \ {save[f]} : save' = [save EXCEPT ![f] = n]
    /\ packer' = [p \in Packers |->
                     IF packer[p].at = "idle" THEN packer[p]
                     ELSE [packer[p] EXCEPT !.written = @ \union {f}]]
    /\ writes' = writes + 1
    /\ UNCHANGED <<now, temp, stored, packs, kept, twice>>

-----------------------------------------------------------------------------
(* saves::pack *)

\* Whether another process has the file of that second as its own
Shared(p, s) == \E q \in Packers \ {p} : packer[q].second = s

\* File::create empties a file of that second; the saves are collected.
Start(p) ==
    /\ packer[p].at = "idle" /\ packs < MaxPacks
    /\ packs' = packs + 1
    /\ packer' = [packer EXCEPT ![p] =
           [Idle EXCEPT !.at = "next", !.second = now,
                        !.todo = {f \in Saves : save[f] > 0},
                        !.listed = {f \in Saves : save[f] > 0}]]
    /\ temp' = [temp EXCEPT ![now] = [Created EXCEPT !.mixed = Shared(p, now)]]
    /\ UNCHANGED <<now, save, stored, writes, kept, twice>>

\* Mutant: the archive is uploaded although a save could not be packed.
UploadsAnyway(entry) == [entry EXCEPT !.at = "packed", !.todo = {}]

AfterError(entry) == Idle

\* A save is opened and its header gets the length; a save that is gone ends the
\* pack, and leaves the temporary file.
OpenSave(p, f) ==
    /\ packer[p].at = "next" /\ f \in packer[p].todo
    /\ packer' = [packer EXCEPT ![p] =
           IF save[f] = 0 THEN AfterError(@)
           ELSE [@ EXCEPT !.at = "open", !.open = f, !.header = save[f],
                          !.todo = packer[p].todo \ {f}]]
    /\ UNCHANGED <<now, save, temp, stored, writes, packs, kept, twice>>

\* It is read to its end and appended behind the saves packed before it; tar pads the
\* data to its own block, and nothing compares its length with the header's.
Append(p) ==
    LET s == packer[p].second
        entry == [save |-> packer[p].open, header |-> packer[p].header,
                  data |-> save[packer[p].open], before |-> {x.save : x \in temp[s].entries}]
    IN
    /\ packer[p].at = "open"
    /\ packer' = [packer EXCEPT ![p].at = "next"]
    /\ temp' = [temp EXCEPT ![s] =
           IF @.there THEN [@ EXCEPT !.entries = temp[s].entries \union {entry}] ELSE @]
    /\ UNCHANGED <<now, save, stored, writes, packs, kept, twice>>

\* The end of the archive; metadata fails when the file was removed meanwhile.
Finish(p) ==
    LET s == packer[p].second IN
    /\ packer[p].at = "next" /\ packer[p].todo = {}
    /\ packer' = [packer EXCEPT ![p] = IF temp[s].there THEN [@ EXCEPT !.at = "packed"] ELSE Idle]
    /\ temp' = [temp EXCEPT ![s] = IF @.there THEN [@ EXCEPT !.whole = TRUE] ELSE @]
    /\ UNCHANGED <<now, save, stored, writes, packs, kept, twice>>

-----------------------------------------------------------------------------
(* saves::upload and the server's saves_upload *)

Blocks(entries) == MapThenSumSet(LAMBDA entry : entry.data, entries)

\* fs::read, then the request.  A body beyond the limit is answered 413, and the
\* temporary file stays, as it does after any error.
Send(p) ==
    LET body == temp[packer[p].second] IN
    /\ packer[p].at = "packed"
    /\ packer' = [packer EXCEPT ![p] =
           IF body.there /\ Blocks(body.entries) <= MaxBody
           THEN [@ EXCEPT !.at = "sent",
                          !.body = [body EXCEPT !.listed = packer[p].listed,
                                                !.written = packer[p].written]]
           ELSE Idle]
    /\ UNCHANGED <<now, save, temp, stored, writes, packs, kept, twice>>

\* Mutant: one file for all uploads of a device.
OneName(second) == 1

NameFor(second) == second

\* fs::write: the file is emptied, then written.
Receive(p) ==
    LET n == NameFor(now) IN
    /\ packer[p].at = "sent"
    /\ packer' = [packer EXCEPT ![p].at = "received", ![p].name = n]
    /\ stored' = [stored EXCEPT ![n] = Created]
    /\ twice' = IF stored[n].second = now THEN twice \union {n} ELSE twice
    /\ UNCHANGED <<now, save, temp, writes, packs, kept>>

Keep(p) ==
    LET n == packer[p].name IN
    /\ packer[p].at = "received"
    /\ stored' = [stored EXCEPT ![n] = [packer[p].body EXCEPT !.second = stored[n].second]]
    /\ kept' = kept \union {[name |-> n, body |-> packer[p].body]}
    /\ packer' = [packer EXCEPT ![p].at = "answered"]
    /\ UNCHANGED <<now, save, temp, writes, packs, twice>>

\* The answer arrives and the temporary file is removed, or it does not arrive.
Answer(p) ==
    /\ packer[p].at = "answered"
    /\ temp' \in {temp, [temp EXCEPT ![packer[p].second] = Absent]}
    /\ packer' = [packer EXCEPT ![p] = Idle]
    /\ UNCHANGED <<now, save, stored, writes, packs, kept, twice>>

Next ==
    \/ Tick
    \/ \E f \in Saves : Play(f)
    \/ \E p \in Packers :
          \/ Start(p) \/ Append(p) \/ Finish(p) \/ Send(p) \/ Receive(p) \/ Keep(p) \/ Answer(p)
          \/ \E f \in Saves : OpenSave(p, f)

Spec == Init /\ [][Next]_savesVars

-----------------------------------------------------------------------------
(* Properties *)

\* Every variable has its type.
TypeOK ==
    /\ now \in Seconds /\ save \in [Saves -> 0..MaxLength] /\ writes \in 0..MaxWrites
    /\ packs \in 0..MaxPacks
    /\ twice \subseteq Seconds /\ \A k \in kept : k.name \in Seconds
    /\ \A s \in Seconds : temp[s].there \in BOOLEAN /\ stored[s].second \in 0..MaxTime
    /\ \A p \in Packers :
          packer[p].at \in {"idle", "next", "open", "packed", "sent", "received", "answered"}

\* An entry is got out of its archive whole: a header of another length than the data
\* spoils its own entry, and sends whoever unpacks to a wrong place for the entries
\* behind it.
Unpacks(entries, e) ==
    /\ e.header = e.data
    /\ \A x \in entries : x.save \in e.before => x.header = x.data

\* An archive the server holds has its end and every save that was there when it was
\* begun.  Each is got out of it whole, unless a game wrote that save, or one packed
\* before it, during the pack: a write spoils all that was packed later.  Nothing is
\* said of an archive that two packs of one second wrote.
ArchiveIsSound ==
    \A k \in kept : ~k.body.mixed =>
        /\ k.body.whole
        /\ {e.save : e \in k.body.entries} = k.body.listed
        /\ \A e \in k.body.entries :
              \/ Unpacks(k.body.entries, e)
              \/ ({e.save} \union e.before) \intersect k.body.written # {}

\* What the server answered "stored" for it holds: a later upload does not take
\* its file, unless it comes in the same second.
KeptStays ==
    \A k \in kept : k.name \in twice \/ stored[k.name].entries = k.body.entries
=============================================================================
