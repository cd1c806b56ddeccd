---------------------------- MODULE AgentProofs -----------------------------
(***************************************************************************)
(* Proofs about the components of MCAgent: the sessions, for any number of *)
(* games, processes, sessions and faults; the settings that the agent      *)
(* keeps or makes; and what the server comes to know of the device.        *)
(***************************************************************************)
EXTENDS MCAgent, FiniteSetTheorems, SequenceTheorems, WellFoundedInduction, TLAPS


\* An event that is enqueued is counted, and nothing else is (enqueue in db.rs, as called
\* by sessions.rs).
LEMMA Counted ==
    ASSUME TypeOK, NEW s \in Session, NEW r \in Report, Enqueue(s, r)
    PROVE  /\ sent' \in [Id -> [Report -> Nat]]
           /\ \A t \in Id : t # s.id => sent'[t] = sent[t]
           /\ \A q \in Report : q # r => sent'[s.id][q] = sent[s.id][q]
           /\ sent'[s.id][r] = sent[s.id][r] + 1
<1>1. s.id \in Id /\ sent \in [Id -> [Report -> Nat]]
  BY DEF TypeOK, Session
<1>2. sent' = [sent EXCEPT ![s.id] = [sent[s.id] EXCEPT ![r] = @ + 1]]
  BY DEF Enqueue
<1>3. sent[s.id] \in [Report -> Nat] /\ sent[s.id][r] + 1 \in Nat
  BY <1>1
<1>4. [sent[s.id] EXCEPT ![r] = @ + 1] \in [Report -> Nat]
  BY <1>3
<1> QED
  BY <1>1, <1>2, <1>3, <1>4

\* What is left of the processes when one has ended.
LEMMA Removed ==
    ASSUME NEW S, NEW seq \in Seq(S), NEW i \in 1 .. Len(seq)
    PROVE  /\ RemoveAt(seq, i) \in Seq(S)
           /\ Len(RemoveAt(seq, i)) = Len(seq) - 1
           /\ \A j \in 1 .. Len(seq) - 1 :
                 RemoveAt(seq, i)[j] = IF j < i THEN seq[j] ELSE seq[j + 1]
<1>1. Len(seq) \in Nat /\ \A j \in 1 .. Len(seq) : seq[j] \in S
  BY LenProperties, ElementOfSeq
<1>2. /\ SubSeq(seq, 1, i - 1) \in Seq(S)
      /\ Len(SubSeq(seq, 1, i - 1)) = i - 1
      /\ \A j \in 1 .. i - 1 : SubSeq(seq, 1, i - 1)[j] = seq[j]
  BY <1>1, SubSeqProperties
<1>3. /\ SubSeq(seq, i + 1, Len(seq)) \in Seq(S)
      /\ Len(SubSeq(seq, i + 1, Len(seq))) = Len(seq) - i
      /\ \A j \in 1 .. Len(seq) - i : SubSeq(seq, i + 1, Len(seq))[j] = seq[j + i]
  BY <1>1, SubSeqProperties
<1> DEFINE before == SubSeq(seq, 1, i - 1)
           after == SubSeq(seq, i + 1, Len(seq))
<1>4. /\ before \o after \in Seq(S)
      /\ Len(before \o after) = Len(before) + Len(after)
      /\ \A j \in 1 .. Len(before) + Len(after) :
            (before \o after)[j] = IF j <= Len(before) THEN before[j] ELSE after[j - Len(before)]
  BY <1>2, <1>3, ConcatProperties
<1>5. RemoveAt(seq, i) = before \o after
  BY DEF RemoveAt
<1>0. Len(before) = i - 1 /\ Len(after) = Len(seq) - i
  BY <1>2, <1>3
<1> HIDE DEF before, after
<1>6. Len(before) + Len(after) = Len(seq) - 1
  BY <1>0, <1>1
<1>7. ASSUME NEW j \in 1 .. Len(seq) - 1
      PROVE  (before \o after)[j] = IF j < i THEN seq[j] ELSE seq[j + 1]
  <2>1. CASE j < i
    BY <1>0, <1>1, <1>2, <1>4, <1>6, <2>1 DEF before
  <2>2. CASE ~(j < i)
    <3>1. j - (i - 1) \in 1 .. Len(seq) - i /\ Len(before) = i - 1
      BY <1>0, <1>1, <2>2
    <3>2. after[j - (i - 1)] = seq[j - (i - 1) + i]
      BY <1>3, <3>1 DEF after
    <3> QED
      BY <1>1, <1>4, <1>6, <2>2, <3>1, <3>2
  <2> QED
    BY <2>1, <2>2
<1> QED
  BY <1>4, <1>5, <1>6, <1>7

\* Every variable keeps its type, and there is a session to work on wherever the code in
\* sessions.rs takes one from an Option.
THEOREM TypeCorrect == Spec => []TypeOK
<1> USE BoundsAreNatural, NothingIsNoSession DEF Id, Pid
<1>1. Init => TypeOK
  <2> SUFFICES ASSUME Init PROVE TypeOK
    OBVIOUS
  <2>1. procs \in Seq(Process)
    BY DEF Init
  <2>2. sent \in [Id -> [Report -> Nat]]
    BY DEF Init, Silence
  <2>3. trace \in [Id -> [pid : Pid \union {0}, first : 0 .. MaxSaves, last : 0 .. MaxSaves]]
    BY DEF Init, NoTrace
  <2>4. save \in [Roms -> 0 .. MaxSaves]
    BY DEF Init
  <2>5. /\ launches \in 0 .. MaxLaunches /\ begun \in 0 .. MaxSessions
        /\ faults \in 0 .. MaxFaults
    BY DEF Init
  <2>6. /\ pc = "down" /\ current = None /\ file = None /\ subject = None /\ found = None
        /\ kind = "normal" /\ changed = FALSE /\ young = {} /\ fast = {} /\ hit = {}
    BY DEF Init
  <2> QED
    BY <2>1, <2>2, <2>3, <2>4, <2>5, <2>6 DEF TypeOK, Busy
<1>2. TypeOK /\ [Next]_vars => TypeOK'
  <2> SUFFICES ASSUME TypeOK, [Next]_vars PROVE TypeOK'
    OBVIOUS
  <2> USE DEF TypeOK, device, memory, locals, events, history, Busy, Report
  <2>1. ASSUME NEW r \in Roms, Launch(r) PROVE TypeOK'
    <3>1. [pid |-> launches + 1, rom |-> r] \in Process
      BY <2>1 DEF Launch, Process
    <3>2. procs' \in Seq(Process)
      BY <2>1, <3>1, AppendProperties DEF Launch
    <3>3. launches' \in 0 .. MaxLaunches
      BY <2>1 DEF Launch
    <3>4. /\ save' = save /\ pc' = pc /\ current' = current
          /\ subject' = subject /\ found' = found /\ kind' = kind /\ changed' = changed
          /\ file' = file /\ young' = young /\ begun' = begun /\ sent' = sent
          /\ trace' = trace /\ fast' = fast /\ hit' = hit /\ faults' = faults
      BY <2>1 DEF Launch
    <3> QED
      BY ZenonT(30), <3>2, <3>3, <3>4
  <2>2. ASSUME NEW i \in 1 .. Len(procs), Exit(i) PROVE TypeOK'
    <3>1. procs' \in Seq(Process)
      BY <2>2, Removed DEF Exit
    <3>2. fast' \in SUBSET Id
      BY <2>2 DEF Exit
    <3>3. /\ launches' = launches /\ save' = save /\ pc' = pc /\ current' = current
          /\ subject' = subject /\ found' = found /\ kind' = kind /\ changed' = changed
          /\ file' = file /\ young' = young /\ begun' = begun /\ sent' = sent
          /\ trace' = trace /\ hit' = hit /\ faults' = faults
      BY <2>2 DEF Exit
    <3> QED
      BY ZenonT(30), <3>1, <3>2, <3>3
  <2>3. ASSUME NEW i \in 1 .. Len(procs), WriteSave(i) PROVE TypeOK'
    <3>1. procs[i] \in Process
      BY ElementOfSeq
    <3>2. procs[i].rom \in Roms
      BY <3>1 DEF Process
    <3>3. save' \in [Roms -> 0 .. MaxSaves]
      BY <2>3, <3>2 DEF WriteSave
    <3>4. /\ launches' = launches /\ procs' = procs /\ pc' = pc /\ current' = current
          /\ subject' = subject /\ found' = found /\ kind' = kind /\ changed' = changed
          /\ file' = file /\ young' = young /\ begun' = begun /\ sent' = sent
          /\ trace' = trace /\ fast' = fast /\ hit' = hit /\ faults' = faults
      BY <2>3 DEF WriteSave
    <3> QED
      BY ZenonT(30), <3>3, <3>4
  <2>4. CASE Age
    <3>1. /\ launches' = launches /\ procs' = procs /\ pc' = pc /\ current' = current
          /\ subject' = subject /\ found' = found /\ kind' = kind /\ changed' = changed
          /\ file' = file /\ save' = save /\ begun' = begun /\ sent' = sent
          /\ trace' = trace /\ fast' = fast /\ hit' = hit /\ faults' = faults
      BY <2>4 DEF Age
    <3>2. young' \in SUBSET Id
      BY <2>4 DEF Age
    <3> QED
      BY ZenonT(30), <3>1, <3>2
  <2>5. CASE Boot
    BY <2>5 DEF Boot, LoadPersisted, PidStillOwns
  <2>6. CASE Tick
    <3>1. Detected \in Process \union {None}
      BY ElementOfSeq, EmptySeq, LenProperties DEF Detected, Last
    <3> QED
      BY <2>6, <3>1 DEF Tick, FinishKind, Over
  <2>7. CASE Wake
    BY <2>7 DEF Wake
  <2>8. CASE EmitOrphaned
    <3>1. subject \in Session
      BY <2>8 DEF EmitOrphaned
    <3> QED
      BY <2>8, <3>1, Counted DEF EmitOrphaned, GoTo
  <2>9. ASSUME LookAtSave, pc = "finish"
        PROVE  /\ changed' \in BOOLEAN
               /\ trace' \in [Id -> [pid : Pid \union {0}, first : 0 .. MaxSaves, last : 0 .. MaxSaves]]
    <3>1. subject \in Session /\ subject.id \in Id /\ save[subject.rom] \in 0 .. MaxSaves
      BY <2>9 DEF Session
    <3> QED
      BY <2>9, <3>1 DEF LookAtSave, SaveChanged
  <2>10. CASE EmitFinished
    <3>1. subject \in Session
      BY <2>10 DEF EmitFinished
    <3> QED
      BY <2>9, <2>10, <3>1, Counted DEF EmitFinished, AfterFinished
  <2>11. CASE EmitCrashed
    <3>1. subject \in Session
      BY <2>11 DEF EmitCrashed
    <3> QED
      BY <2>11, <3>1, Counted DEF EmitCrashed, AfterFinished
  <2>12. CASE EmitSaveChanged
    <3>1. subject \in Session
      BY <2>12 DEF EmitSaveChanged
    <3> QED
      BY <2>12, <3>1, Counted DEF EmitSaveChanged
  <2>13. CASE RemoveFile
    BY <2>13 DEF RemoveFile, RemovedFile, GoTo, Forget, AfterRemoval
  <2>14. ASSUME Begin, pc = "start"
         PROVE  /\ begun' \in 0 .. MaxSessions /\ young' \in SUBSET Id
                /\ NewSession \in Session /\ subject' = NewSession
                /\ trace' \in [Id -> [pid : Pid \union {0}, first : 0 .. MaxSaves, last : 0 .. MaxSaves]]
    <3>1. found.pid \in Pid /\ found.rom \in Roms /\ save[found.rom] \in 0 .. MaxSaves
      BY <2>14 DEF Process
    <3>2. begun + 1 \in Id
      BY <2>14 DEF Begin
    <3>3. NewSession \in Session /\ NewSession.id = begun + 1
      BY <3>1, <3>2 DEF NewSession, Session
    <3>4. [pid |-> found.pid, first |-> save[found.rom], last |-> 0]
             \in [pid : Pid \union {0}, first : 0 .. MaxSaves, last : 0 .. MaxSaves]
      BY <3>1
    <3>5. /\ begun' = begun + 1 /\ subject' = NewSession
          /\ young' = young \union {begun + 1}
          /\ trace' = [trace EXCEPT ![begun + 1] =
                          [pid |-> found.pid, first |-> save[found.rom], last |-> 0]]
      BY <2>14, <3>3 DEF Begin
    <3>6. begun' \in 0 .. MaxSessions /\ young' \in SUBSET Id
      BY <3>2, <3>5
    <3>7. trace' \in [Id -> [pid : Pid \union {0}, first : 0 .. MaxSaves, last : 0 .. MaxSaves]]
      BY <3>2, <3>4, <3>5
    <3> QED
      BY <3>3, <3>5, <3>6, <3>7
  <2>15. CASE EmitStarted
    BY <2>14, <2>15, Counted DEF EmitStarted, Begin
  <2>16. CASE Truncate
    BY <2>16 DEF Truncate
  <2>17. CASE Fill
    BY <2>17 DEF Fill, Written, GoTo, Forget
  <2>18. ASSUME Fault PROVE faults' \in 0 .. MaxFaults
    BY <2>18 DEF Fault
  <2>19. InWork \subseteq Id
    BY DEF InWork, Session
  <2>20. CASE StepFails
    <3>1. faults' \in 0 .. MaxFaults /\ UNCHANGED <<device, file, sent, fast>>
      BY <2>18, <2>20 DEF StepFails
    <3>2. CASE pc = "start" /\ Begin /\ UNCHANGED <<current, found, kind, changed>>
      <4>1. hit' \subseteq Id
        <5>1. hit' = hit \union InWork \union (1 .. begun' \ 1 .. begun)
          BY <2>20 DEF StepFails
        <5>2. 1 .. begun' \subseteq Id
          BY <2>14, <3>2
        <5> QED
          BY <2>19, <5>1, <5>2
      <4> QED
        BY <2>14, <3>1, <3>2, <4>1 DEF Begin
    <3>3. CASE /\ pc = "finish" /\ LookAtSave
               /\ pc' \in {"remove", AfterFinished(kind, changed')}
               /\ UNCHANGED <<current, subject, found, kind, young, begun>>
      <4>1. hit' \subseteq Id
        BY <2>19, <2>20, <3>3 DEF StepFails
      <4> QED
        BY <2>9, <3>1, <3>3, <4>1 DEF AfterFinished
    <3>4. CASE /\ pc \in {"orphaned", "crashed", "save", "remove", "persist", "write"}
               /\ UNCHANGED <<young, begun, trace>>
      <4>1. hit' \subseteq Id
        BY <2>19, <2>20, <3>4 DEF StepFails
      <4> QED
        BY <2>20, <3>1, <3>4, <4>1 DEF StepFails, GoTo, Forget, AfterFinished, AfterRemoval
    <3> QED
      BY <2>20, <3>2, <3>3, <3>4 DEF StepFails
  <2>21. CASE Crash
    BY <2>18, <2>19, <2>21 DEF Crash, Died, Forget
  <2>22. CASE PowerCut
    <3>1. hit' \subseteq Id
      BY <2>19, <2>22 DEF PowerCut, LoadPersisted, Session
    <3> QED
      BY <2>18, <2>22, <3>1, EmptySeq DEF PowerCut, Died, Forget
  <2>23. CASE UNCHANGED vars
    <3>1. /\ launches' = launches /\ procs' = procs /\ pc' = pc /\ current' = current
          /\ subject' = subject /\ found' = found /\ kind' = kind /\ changed' = changed
          /\ file' = file /\ save' = save /\ young' = young /\ begun' = begun
          /\ sent' = sent /\ trace' = trace /\ fast' = fast /\ hit' = hit
          /\ faults' = faults
      BY <2>23 DEF vars
    <3> QED
      BY ZenonT(30), <3>1
  <2> QED
    BY <2>1, <2>2, <2>3, <2>4, <2>5, <2>6, <2>7, <2>8, <2>10, <2>11, <2>12, <2>13, <2>15,
       <2>16, <2>17, <2>20, <2>21, <2>22, <2>23 DEF Next, Player, Agent
<1> QED
  BY <1>1, <1>2, PTL DEF Spec

-----------------------------------------------------------------------------

(***************************************************************************)
(* The inductive invariant.  The sessions no fault fell into are told      *)
(* apart by age: the last one is followed step by step (LastInv), and all  *)
(* earlier ones are over and done with (Done).                             *)
(***************************************************************************)
Clean == 1 .. begun \ hit

\* Process ids go up, and none comes back.
ProcsInv ==
    /\ \A i \in 1 .. Len(procs) : procs[i].pid <= launches
    /\ \A i, j \in 1 .. Len(procs) : i < j => procs[i].pid < procs[j].pid

\* A process that has the id still is the process.
SameRom(pid, rom) ==
    /\ pid <= launches
    /\ \A i \in 1 .. Len(procs) : procs[i].pid = pid => procs[i].rom = rom

\* What is remembered of a session is true, and it is the last one or was hit.
Remembered(x) ==
    /\ x.id \in 1 .. begun
    /\ x.id \in hit \/ x.id = begun
    /\ trace[x.id].pid = x.pid /\ trace[x.id].first = x.save
    /\ SameRom(x.pid, x.rom)

MemoryInv ==
    /\ current # None => Remembered(current)
    /\ LoadPersisted # None => Remembered(file)
    /\ pc \in Busy => Remembered(subject)
    /\ found # None => SameRom(found.pid, found.rom)

FlowInv ==
    /\ pc \in {"down", "orphaned", "start"} => current = None
    /\ pc \in {"down", "awake", "asleep"} => found = None
    /\ pc \in Busy /\ kind = "orphan" => found = None
    /\ pc \in {"down", "awake", "asleep", "start"} => kind # "orphan"

\* Nobody runs as the process of s any more, or another game was started over it.
Gone(s) ==
    \/ launches > trace[s].pid
    \/ \A i \in 1 .. Len(procs) : procs[i].pid # trace[s].pid

FoundIsNew(s) ==
    found # None => found.pid # trace[s].pid \/ launches > trace[s].pid

Open(s) ==
    /\ sent[s]["started"] = 1 /\ sent[s]["finished"] = 0
    /\ sent[s]["crashed"] = 0 /\ sent[s]["saved"] = 0

Done(s) ==
    /\ sent[s]["started"] = 1 /\ sent[s]["finished"] = 1
    /\ sent[s]["saved"] <= 1
    /\ sent[s]["crashed"] + sent[s]["orphaned"] <= 1
    /\ trace[s].first # 0 =>
          (sent[s]["saved"] = 1 <=> trace[s].last # trace[s].first)

Tells(s, kinds) == IF kind \in kinds THEN 1 ELSE 0

Ending == {"orphaned", "finish", "crashed", "save", "remove"}
Ended  == {"crashed", "save", "remove"}

\* Between two looks: the session is over, or the file has it.
RestInv(s) ==
    /\ pc \in {"down", "awake", "asleep"} =>
          \/ file = None /\ Done(s) /\ Gone(s)
          \/ /\ LoadPersisted # None /\ file.id = s
             /\ Open(s) /\ sent[s]["orphaned"] = 0
    /\ pc \in {"awake", "asleep"} => current = file

\* While it is begun, or written again.
StartInv(s) ==
    /\ pc = "start" => file = None /\ Done(s) /\ Gone(s) /\ FoundIsNew(s)
    /\ pc \in {"persist", "write"} =>
          /\ Open(s) /\ sent[s]["orphaned"] = 0
          /\ current \in {None, subject}
    /\ pc = "write" => file = Torn

\* While it is being finished.
EndInv(s) ==
    /\ pc \in Ending =>
          /\ file = subject
          /\ current = IF kind = "orphan" THEN None ELSE subject
          /\ Gone(s) /\ FoundIsNew(s)
          /\ sent[s]["started"] = 1
    /\ pc = "orphaned" =>
          kind = "orphan" /\ Open(s) /\ sent[s]["orphaned"] = 0
    /\ pc = "finish" => Open(s)
    /\ pc \in {"finish"} \union Ended => sent[s]["orphaned"] = Tells(s, {"orphan"})
    /\ pc \in Ended =>
          /\ sent[s]["finished"] = 1
          /\ changed <=> (trace[s].first # 0 /\ trace[s].last # trace[s].first)
    /\ pc = "crashed" => kind = "crash" /\ sent[s]["crashed"] = 0
    /\ pc \in {"crashed", "save"} => sent[s]["saved"] = 0
    /\ pc \in {"save", "remove"} => sent[s]["crashed"] = Tells(s, {"crash"})
    /\ pc = "save" => changed
    /\ pc = "remove" => sent[s]["saved"] = IF changed THEN 1 ELSE 0

LastInv ==
    begun \in Clean =>
        /\ pc \in Busy => subject.id = begun
        /\ RestInv(begun) /\ StartInv(begun) /\ EndInv(begun)

EarlierInv == \A s \in Clean : s < begun => Done(s)

\* Sessions that are still to come.
FutureInv ==
    /\ hit \subseteq 1 .. begun
    /\ \A s \in Id : s > begun => sent[s] = Silence
    /\ \A s \in 1 .. begun : trace[s].pid <= launches

IInv ==
    /\ TypeOK /\ ProcsInv /\ MemoryInv /\ FlowInv
    /\ LastInv /\ EarlierInv /\ FutureInv /\ NewSessionNewProcess

-----------------------------------------------------------------------------
(* What no step changes *)

\* The players' device by itself: ids go up, and a process that is there after a step was
\* there before or has a new id.
LEMMA ProcsStep ==
    ASSUME TypeOK, ProcsInv, [Next]_vars
    PROVE  /\ ProcsInv'
           /\ launches' \in Nat /\ launches' >= launches
           /\ \A j \in 1 .. Len(procs') :
                 \/ procs'[j].pid > launches
                 \/ \E k \in 1 .. Len(procs) : procs'[j] = procs[k]
<1>1. procs \in Seq(Process) /\ launches \in Nat /\ Len(procs) \in Nat
  BY LenProperties, BoundsAreNatural DEF TypeOK
<1>2. \A k \in 1 .. Len(procs) : procs[k] \in Process /\ procs[k].pid \in Nat
  <2> SUFFICES ASSUME NEW k \in 1 .. Len(procs) PROVE procs[k] \in Process /\ procs[k].pid \in Nat
    OBVIOUS
  <2>1. procs[k] \in Process
    BY <1>1, ElementOfSeq
  <2>2. procs[k].pid \in Pid
    BY <2>1 DEF Process
  <2> QED
    BY <2>1, <2>2, BoundsAreNatural DEF Pid
<1>3. ASSUME NEW r \in Roms, Launch(r)
      PROVE  /\ ProcsInv'
             /\ launches' \in Nat /\ launches' >= launches
             /\ \A j \in 1 .. Len(procs') :
                   \/ procs'[j].pid > launches
                   \/ \E k \in 1 .. Len(procs) : procs'[j] = procs[k]
  <2>1. [pid |-> launches + 1, rom |-> r] \in Process
    BY <1>1, <1>3, BoundsAreNatural DEF Launch, Process, Pid
  <2>2. /\ Len(procs') = Len(procs) + 1
        /\ \A k \in 1 .. Len(procs) : procs'[k] = procs[k]
        /\ procs'[Len(procs) + 1].pid = launches + 1
    BY <1>1, <1>3, <2>1, AppendProperties DEF Launch
  <2>3. launches' = launches + 1
    BY <1>3 DEF Launch
  <2>4. ASSUME NEW j \in 1 .. Len(procs')
        PROVE  \/ j = Len(procs) + 1 /\ procs'[j].pid = launches + 1
               \/ j \in 1 .. Len(procs) /\ procs'[j] = procs[j]
    <3>1. j = Len(procs) + 1 \/ j \in 1 .. Len(procs)
      BY <1>1, <2>2
    <3> QED
      BY <2>2, <3>1
  <2>5. ProcsInv'
    <3>1. \A j \in 1 .. Len(procs') : procs'[j].pid <= launches'
      BY <1>1, <1>2, <2>3, <2>4 DEF ProcsInv
    <3>2. ASSUME NEW j \in 1 .. Len(procs'), NEW k \in 1 .. Len(procs'), j < k
          PROVE  procs'[j].pid < procs'[k].pid
      <4>1. j \in 1 .. Len(procs) /\ procs'[j] = procs[j]
        BY <1>1, <2>2, <3>2
      <4>2. CASE k = Len(procs) + 1
        BY <1>1, <1>2, <2>2, <4>1, <4>2 DEF ProcsInv
      <4>3. CASE k # Len(procs) + 1
        <5>1. k \in 1 .. Len(procs) /\ procs'[k] = procs[k]
          BY <1>1, <2>2, <4>3
        <5> QED
          BY <3>2, <4>1, <5>1 DEF ProcsInv
      <4> QED
        BY <4>2, <4>3
    <3> QED
      BY <3>1, <3>2 DEF ProcsInv
  <2> QED
    BY <1>1, <2>3, <2>4, <2>5
<1>4. ASSUME NEW i \in 1 .. Len(procs), Exit(i)
      PROVE  /\ ProcsInv'
             /\ launches' \in Nat /\ launches' >= launches
             /\ \A j \in 1 .. Len(procs') :
                   \/ procs'[j].pid > launches
                   \/ \E k \in 1 .. Len(procs) : procs'[j] = procs[k]
  <2>1. /\ Len(procs') = Len(procs) - 1
        /\ \A j \in 1 .. Len(procs) - 1 :
              procs'[j] = IF j < i THEN procs[j] ELSE procs[j + 1]
    BY <1>1, <1>4, Removed DEF Exit
  <2>2. launches' = launches
    BY <1>4 DEF Exit
  <2> DEFINE At(j) == IF j < i THEN j ELSE j + 1
  <2>3. \A j \in 1 .. Len(procs') : At(j) \in 1 .. Len(procs) /\ procs'[j] = procs[At(j)]
    BY <1>1, <2>1
  <2>4. \A j, k \in 1 .. Len(procs') : j < k => At(j) < At(k)
    BY <1>1, <2>1
  <2>5. ProcsInv'
    <3> HIDE DEF At
    <3> QED
      BY <2>2, <2>3, <2>4 DEF ProcsInv
  <2> QED
    BY <1>1, <2>2, <2>3, <2>5
<1>5. CASE PowerCut
  <2>1. procs' = <<>> /\ launches' = launches
    BY <1>5 DEF PowerCut
  <2>2. Len(procs') = 0
    BY <2>1
  <2> QED
    BY <1>1, <2>1, <2>2 DEF ProcsInv
<1>6. CASE UNCHANGED <<procs, launches>>
  BY <1>1, <1>6 DEF ProcsInv
<1>7. \/ \E r \in Roms : Launch(r)
      \/ \E i \in 1 .. Len(procs) : Exit(i)
      \/ PowerCut
      \/ UNCHANGED <<procs, launches>>
  BY DEF Next, Player, Agent, WriteSave, Age, Boot, Tick, Wake, EmitOrphaned, EmitFinished,
         EmitCrashed, EmitSaveChanged, RemoveFile, EmitStarted, Truncate, Fill, StepFails,
         Crash, vars, device
<1> QED
  BY <1>3, <1>4, <1>5, <1>6, <1>7

\* What was seen of a session at its start stays, and so does the mark of a fault.
LEMMA PastStays ==
    ASSUME TypeOK, [Next]_vars
    PROVE  /\ hit \subseteq hit'
           /\ begun' = begun \/ (begun' = begun + 1 /\ pc = "start" /\ Begin)
           /\ \A s \in Id : s <= begun =>
                 trace'[s].pid = trace[s].pid /\ trace'[s].first = trace[s].first
<1>1. CASE UNCHANGED <<begun, trace, hit>>
  BY <1>1
<1>2. ASSUME LookAtSave, UNCHANGED begun, hit \subseteq hit', pc = "finish"
      PROVE  \A s \in Id : trace'[s].pid = trace[s].pid /\ trace'[s].first = trace[s].first
  BY <1>2 DEF LookAtSave, TypeOK
<1>3. ASSUME Begin, pc = "start"
      PROVE  /\ begun' = begun + 1
             /\ \A s \in Id : s <= begun => trace'[s] = trace[s]
  <2>1. NewSession.id = begun + 1 /\ begun \in Nat
    BY BoundsAreNatural DEF NewSession, TypeOK
  <2>2. trace' = [trace EXCEPT ![begun + 1] = [pid |-> found.pid, first |-> save[found.rom], last |-> 0]]
    BY <1>3, <2>1 DEF Begin
  <2> QED
    BY <1>3, <2>1, <2>2 DEF Begin, TypeOK, Id
<1>4. CASE EmitFinished
  BY <1>2, <1>4 DEF EmitFinished
<1>5. CASE EmitStarted
  BY <1>3, <1>5 DEF EmitStarted
<1>6. CASE StepFails
  <2>1. hit \subseteq hit'
    BY <1>6 DEF StepFails
  <2> QED
    BY <1>2, <1>3, <1>6, <2>1 DEF StepFails
<1>7. CASE Crash \/ PowerCut
  BY <1>7 DEF Crash, PowerCut, events
<1>8. \/ EmitFinished \/ EmitStarted \/ StepFails \/ Crash \/ PowerCut
      \/ UNCHANGED <<begun, trace, hit>>
  BY DEF Next, Player, Agent, Launch, Exit, WriteSave, Age, Boot, Tick, Wake, EmitOrphaned,
         EmitCrashed, EmitSaveChanged, RemoveFile, Truncate, Fill, vars, events, history
<1> QED
  BY <1>1, <1>4, <1>5, <1>6, <1>7, <1>8

\* A process that is gone stays away, and is never taken for another one.
LEMMA GoneStays ==
    ASSUME TypeOK, ProcsInv, FutureInv, [Next]_vars
    PROVE  /\ \A s \in 1 .. begun : Gone(s) => Gone(s)'
           /\ \A s \in 1 .. begun : FoundIsNew(s) /\ found' = found => FoundIsNew(s)'
           /\ \A pid \in Nat, rom \in Roms : SameRom(pid, rom) => SameRom(pid, rom)'
<1>1. launches \in Nat /\ launches' \in Nat
  BY ProcsStep, BoundsAreNatural DEF TypeOK
<1>2. procs \in Seq(Process) /\ \A k \in 1 .. Len(procs) : procs[k] \in Process
  BY ElementOfSeq DEF TypeOK
<1>3. \A s \in 1 .. begun : s \in Id /\ s <= begun /\ trace[s].pid \in Nat /\ trace[s].pid <= launches
  <2> SUFFICES ASSUME NEW s \in 1 .. begun
               PROVE  s \in Id /\ s <= begun /\ trace[s].pid \in Nat /\ trace[s].pid <= launches
    OBVIOUS
  <2>1. s \in Id /\ s <= begun
    BY BoundsAreNatural DEF TypeOK, Id
  <2>2. trace[s].pid \in Pid \union {0}
    BY <2>1 DEF TypeOK
  <2> QED
    BY <2>1, <2>2, BoundsAreNatural DEF FutureInv, Pid
<1>4. \A s \in 1 .. begun : trace'[s].pid = trace[s].pid
  BY <1>3, PastStays
<1>5. /\ launches' >= launches
      /\ \A j \in 1 .. Len(procs') :
            \/ procs'[j].pid > launches
            \/ \E k \in 1 .. Len(procs) : procs'[j] = procs[k]
  BY ProcsStep
<1>6. ASSUME NEW s \in 1 .. begun, Gone(s) PROVE Gone(s)'
  <2>1. CASE launches > trace[s].pid
    BY <1>1, <1>3, <1>4, <1>5, <2>1 DEF Gone
  <2>2. CASE \A k \in 1 .. Len(procs) : procs[k].pid # trace[s].pid
    <3>1. ASSUME NEW j \in 1 .. Len(procs'), procs'[j].pid = trace[s].pid PROVE FALSE
      BY <1>1, <1>3, <1>5, <2>2, <3>1
    <3> QED
      BY <1>3, <1>4, <3>1 DEF Gone
  <2> QED
    BY <1>6, <2>1, <2>2 DEF Gone
<1>7. ASSUME NEW s \in 1 .. begun, FoundIsNew(s), found' = found PROVE FoundIsNew(s)'
  BY <1>1, <1>3, <1>4, <1>5, <1>7 DEF FoundIsNew
<1>8. ASSUME NEW pid \in Nat, NEW rom \in Roms, SameRom(pid, rom) PROVE SameRom(pid, rom)'
  BY <1>1, <1>5, <1>8 DEF SameRom
<1> QED
  BY <1>6, <1>7, <1>8

-----------------------------------------------------------------------------
(* One lemma per conjunct of the invariant *)

\* What the agent holds at each place of its loop.
LEMMA FlowStep ==
    ASSUME TypeOK, FlowInv, [Next]_vars
    PROVE  FlowInv'
<1> USE DEF FlowInv, device, memory, locals, events, history, Busy, GoTo, Forget, AfterFinished
<1>1. CASE UNCHANGED <<pc, memory>>
  BY <1>1
<1>2. CASE Boot
  BY <1>2 DEF Boot
<1>3. CASE Tick
  BY <1>3 DEF Tick, FinishKind, Over
<1>4. CASE Wake
  BY <1>4 DEF Wake
<1>5. CASE EmitOrphaned \/ EmitFinished \/ EmitCrashed \/ EmitSaveChanged
  BY <1>5 DEF EmitOrphaned, EmitFinished, EmitCrashed, EmitSaveChanged
<1>6. CASE RemoveFile
  BY <1>6 DEF RemoveFile, AfterRemoval
<1>7. CASE EmitStarted
  BY <1>7 DEF EmitStarted, Begin
<1>8. CASE Truncate
  BY <1>8 DEF Truncate
<1>9. CASE Fill
  BY <1>9 DEF Fill
<1>10. CASE StepFails
  BY <1>10 DEF StepFails, AfterRemoval, Begin
<1>11. CASE Crash \/ PowerCut
  BY <1>11 DEF Crash, PowerCut, Died
<1>12. \/ UNCHANGED <<pc, memory>> \/ Boot \/ Tick \/ Wake
       \/ EmitOrphaned \/ EmitFinished \/ EmitCrashed \/ EmitSaveChanged
       \/ RemoveFile \/ EmitStarted \/ Truncate \/ Fill \/ StepFails \/ Crash \/ PowerCut
  BY DEF Next, Player, Agent, Launch, Exit, WriteSave, Age, vars
<1> QED
  BY <1>1, <1>2, <1>3, <1>4, <1>5, <1>6, <1>7, <1>8, <1>9, <1>10, <1>11, <1>12

\* What is remembered stays true.
LEMMA StillRemembered ==
    ASSUME TypeOK, ProcsInv, FutureInv, [Next]_vars,
           NEW x \in Session, Remembered(x), x.id \in hit' \/ begun' = begun
    PROVE  Remembered(x)'
<1>1. x.id \in Id /\ x.id <= begun /\ x.pid \in Nat /\ x.rom \in Roms
  BY BoundsAreNatural DEF Remembered, Session, TypeOK, Id, Pid
<1>2. SameRom(x.pid, x.rom)'
  BY <1>1, GoneStays DEF Remembered
<1>3. /\ hit \subseteq hit' /\ x.id \in 1 .. begun'
      /\ trace'[x.id].pid = trace[x.id].pid /\ trace'[x.id].first = trace[x.id].first
  <2>1. begun \in Nat /\ x.id \in 1 .. begun /\ x.id \in Nat
    BY BoundsAreNatural DEF TypeOK, Remembered
  <2>2. x.id \in 1 .. begun'
    BY <2>1, PastStays
  <2> QED
    BY <1>1, <2>2, PastStays
<1> QED
  BY <1>2, <1>3 DEF Remembered

\* The game that is seen runs, and no other one is younger (detect_running_rom).
LEMMA DetectedSeen ==
    ASSUME TypeOK, ProcsInv, Detected # None
    PROVE  /\ Detected \in Process /\ SameRom(Detected.pid, Detected.rom)
           /\ \E i \in 1 .. Len(procs) : Detected = procs[i]
           /\ \A i \in 1 .. Len(procs) : procs[i].pid <= Detected.pid
<1>1. procs \in Seq(Process) /\ procs # <<>> /\ Detected = procs[Len(procs)]
  BY DEF Detected, Last, TypeOK
<1>2. Len(procs) \in Nat /\ Len(procs) \in 1 .. Len(procs)
  BY <1>1, LenProperties, EmptySeq
<1>3. \A i \in 1 .. Len(procs) : procs[i] \in Process /\ procs[i].pid \in Nat
  <2> SUFFICES ASSUME NEW i \in 1 .. Len(procs)
               PROVE  procs[i] \in Process /\ procs[i].pid \in Nat
    OBVIOUS
  <2>1. procs[i] \in Process
    BY <1>1, ElementOfSeq
  <2>2. procs[i].pid \in Pid
    BY <2>1 DEF Process
  <2> QED
    BY <2>1, <2>2, BoundsAreNatural DEF Pid
<1>4. \A i \in 1 .. Len(procs) : i # Len(procs) => procs[i].pid < procs[Len(procs)].pid
  BY <1>2 DEF ProcsInv
<1>5. SameRom(Detected.pid, Detected.rom)
  BY <1>1, <1>2, <1>3, <1>4 DEF SameRom, ProcsInv
<1> QED
  BY <1>1, <1>2, <1>3, <1>4, <1>5

\* A step that begins no session keeps what was remembered, and remembers nothing new.
LEMMA MemoryKeeps ==
    ASSUME TypeOK, TypeOK', ProcsInv, FutureInv, MemoryInv, [Next]_vars, begun' = begun,
           \/ current' \in {None, current, LoadPersisted}
           \/ pc \in Busy /\ current' = subject,
           \/ LoadPersisted' \in {None, LoadPersisted}
           \/ pc \in Busy /\ LoadPersisted' = subject,
           pc' \in Busy => \/ pc \in Busy /\ subject' = subject
                           \/ current # None /\ subject' = current
                           \/ LoadPersisted # None /\ subject' = LoadPersisted,
           found' \in {None, found, Detected}
    PROVE  MemoryInv'
<1> DEFINE Known(x) == x \in Session /\ Remembered(x)
<1>1. \A x : Known(x) =>
           /\ x.id \in 1 .. begun' /\ (x.id \in hit' \/ x.id = begun')
           /\ trace'[x.id].pid = x.pid /\ trace'[x.id].first = x.save
           /\ x.pid <= launches'
           /\ \A i \in 1 .. Len(procs') : procs'[i].pid = x.pid => procs'[i].rom = x.rom
  <2> SUFFICES ASSUME NEW x, Known(x) PROVE Remembered(x)'
    BY DEF Remembered, SameRom
  <2> QED
    BY StillRemembered
<1>2. /\ current # None => Known(current)
      /\ LoadPersisted # None => Known(LoadPersisted)
      /\ pc \in Busy => Known(subject)
  BY DEF MemoryInv, TypeOK, LoadPersisted
<1>3. /\ current' # None => Known(current')
      /\ LoadPersisted' # None => Known(LoadPersisted')
      /\ pc' \in Busy => Known(subject')
  <2> HIDE DEF Known
  <2> QED
    BY <1>2
<1> HIDE DEF Known
<1>4. (current # None => Remembered(current))'
  BY <1>1, <1>3 DEF Remembered, SameRom
<1>5. (LoadPersisted # None => Remembered(file))'
  <2>1. LoadPersisted' # None => LoadPersisted' = file'
    BY DEF LoadPersisted
  <2> QED
    BY <1>1, <1>3, <2>1 DEF Remembered, SameRom
<1>6. (pc \in Busy => Remembered(subject))'
  BY <1>1, <1>3 DEF Remembered, SameRom
<1>7. (found # None => SameRom(found.pid, found.rom))'
  <2> DEFINE Seen(p) == p \in Process /\ SameRom(p.pid, p.rom)
  <2>1. \A p : Seen(p) =>
           /\ p.pid <= launches'
           /\ \A i \in 1 .. Len(procs') : procs'[i].pid = p.pid => procs'[i].rom = p.rom
    <3> SUFFICES ASSUME NEW p, Seen(p) PROVE SameRom(p.pid, p.rom)'
      BY DEF SameRom
    <3>1. p.pid \in Nat /\ p.rom \in Roms
      BY BoundsAreNatural DEF Process, Pid
    <3> QED
      BY <3>1, GoneStays
  <2>2. found' # None => Seen(found')
    <3>1. found # None => Seen(found)
      BY DEF MemoryInv, TypeOK
    <3>2. Detected # None => Seen(Detected)
      BY DetectedSeen
    <3> HIDE DEF Seen
    <3> QED
      BY <3>1, <3>2
  <2> HIDE DEF Seen
  <2> QED
    BY <2>1, <2>2 DEF SameRom
<1> QED
  BY <1>4, <1>5, <1>6, <1>7 DEF MemoryInv

\* The session that is begun is the one the game that was seen started (start in
\* sessions.rs).
LEMMA BeginNew ==
    ASSUME TypeOK, Begin, pc = "start"
    PROVE  /\ begun' = begun + 1 /\ begun \in Nat /\ begun' \in Id
           /\ subject' = NewSession
           /\ NewSession \in Session /\ found \in Process
           /\ NewSession.id = begun' /\ NewSession.pid = found.pid
           /\ NewSession.rom = found.rom /\ NewSession.save = save[found.rom]
           /\ trace'[begun'].pid = found.pid /\ trace'[begun'].first = save[found.rom]
           /\ \A t \in Id : t # begun' => trace'[t] = trace[t]
           /\ pc' = "persist"
<1>1. found \in Process /\ found.pid \in Pid /\ found.rom \in Roms
  BY DEF TypeOK, Process
<1>2. begun' = begun + 1 /\ begun \in Nat /\ begun + 1 \in Id
  BY BoundsAreNatural DEF TypeOK, Begin, Id
<1>3. save[found.rom] \in 0 .. MaxSaves
  BY <1>1 DEF TypeOK
<1>4. NewSession \in Session
  BY <1>1, <1>2, <1>3 DEF NewSession, Session
<1>5. /\ NewSession.id = begun + 1 /\ NewSession.pid = found.pid
      /\ NewSession.rom = found.rom /\ NewSession.save = save[found.rom]
  BY DEF NewSession
<1>6. trace' = [trace EXCEPT ![begun + 1] = [pid |-> found.pid, first |-> save[found.rom], last |-> 0]]
  BY <1>5 DEF Begin
<1>7. /\ trace'[begun + 1] = [pid |-> found.pid, first |-> save[found.rom], last |-> 0]
      /\ \A t \in Id : t # begun + 1 => trace'[t] = trace[t]
  BY <1>2, <1>6 DEF TypeOK
<1> QED
  BY <1>1, <1>2, <1>4, <1>5, <1>7 DEF Begin

\* Mutation of the tracker's memory, step by step (SessionTracker::new and ::tick).
LEMMA MemoryStep ==
    ASSUME TypeOK, TypeOK', ProcsInv, FlowInv, FutureInv, MemoryInv, LastInv, [Next]_vars
    PROVE  MemoryInv'
<1> USE DEF device, memory, locals, events, history, GoTo, Forget
<1>1. CASE UNCHANGED <<pc, memory, file, begun>>
  BY <1>1, MemoryKeeps DEF LoadPersisted
<1>2. CASE Boot
  BY <1>2, MemoryKeeps DEF Boot, LoadPersisted, Busy
<1>3. CASE Tick
  BY <1>3, MemoryKeeps DEF Tick, LoadPersisted, Busy, Over
<1>4. CASE Wake
  BY <1>4, MemoryKeeps DEF Wake, LoadPersisted, Busy
<1>5. CASE EmitOrphaned \/ EmitFinished \/ EmitCrashed \/ EmitSaveChanged
  BY <1>5, MemoryKeeps DEF EmitOrphaned, EmitFinished, EmitCrashed, EmitSaveChanged,
                           LoadPersisted, Busy
<1>6. CASE RemoveFile
  BY <1>6, MemoryKeeps DEF RemoveFile, RemovedFile, AfterRemoval, LoadPersisted, Busy
<1>7. CASE Truncate
  BY <1>7, MemoryKeeps DEF Truncate, LoadPersisted, Busy
<1>8. CASE Fill
  BY <1>8, MemoryKeeps DEF Fill, Written, LoadPersisted, Busy
<1>9. CASE Crash
  BY <1>9, MemoryKeeps DEF Crash, Died, LoadPersisted, Busy
<1>10. CASE PowerCut
  BY <1>10, MemoryKeeps DEF PowerCut, Died, LoadPersisted, Busy
<1>11. ASSUME Begin, pc = "start", UNCHANGED <<procs, launches, current, found, file>>
       PROVE  MemoryInv'
  <2>1. current' = None
    BY <1>11 DEF FlowInv
  <2>2. ASSUME LoadPersisted' # None PROVE Remembered(file)'
    <3>1. file \in Session /\ LoadPersisted # None /\ Remembered(file)
      BY <1>11, <2>2 DEF LoadPersisted, TypeOK, MemoryInv
    <3>2. file.id \in hit
      <4>1. CASE begun \in Clean
        BY <1>11, <4>1, <3>1, NothingIsNoSession DEF LastInv, StartInv
      <4>2. CASE begun \notin Clean
        BY <3>1, <4>2 DEF Remembered, Clean
      <4> QED
        BY <4>1, <4>2
    <3>3. file.id \in hit'
      BY <3>2, PastStays
    <3>4. Remembered(file)' <=> \E x \in {file} : Remembered(x)'
      BY <1>11 DEF Remembered, SameRom
    <3> QED
      BY <3>1, <3>3, <3>4, StillRemembered
  <2>3. SameRom(found.pid, found.rom)'
    BY <1>11 DEF MemoryInv, SameRom, TypeOK
  <2>4. Remembered(subject)'
    BY <1>11, <2>3, BeginNew DEF Remembered, SameRom
  <2> QED
    BY <1>11, <2>1, <2>2, <2>3, <2>4 DEF MemoryInv
<1>12. CASE EmitStarted
  BY <1>11, <1>12 DEF EmitStarted
<1>13. CASE StepFails
  <2>1. CASE pc = "start"
    BY <1>11, <1>13, <2>1 DEF StepFails
  <2>2. CASE pc # "start"
    BY <1>13, <2>2, MemoryKeeps DEF StepFails, LoadPersisted, Busy, AfterFinished, AfterRemoval
  <2> QED
    BY <2>1, <2>2
<1> QED
  BY <1>1, <1>2, <1>3, <1>4, <1>5, <1>6, <1>7, <1>8, <1>9, <1>10, <1>12, <1>13
     DEF Next, Player, Agent, Launch, Exit, WriteSave, Age, vars

\* Of a session that has not begun nothing is told, and its process is still to come.
LEMMA FutureStep ==
    ASSUME TypeOK, MemoryInv, FutureInv, ProcsInv, [Next]_vars
    PROVE  FutureInv'
<1> USE DEF device, memory, locals, events, history
<1>1. begun \in Nat /\ launches \in Nat /\ launches' \in Nat /\ launches' >= launches
  BY ProcsStep, BoundsAreNatural DEF TypeOK
<1>2. InWork \subseteq 1 .. begun
  BY DEF InWork, MemoryInv, Remembered
<1>3. hit' \subseteq 1 .. begun'
  <2>1. CASE hit' = hit
    BY <1>1, <2>1, PastStays DEF FutureInv
  <2>2. CASE StepFails
    <3>1. hit' = hit \union InWork \union (1 .. begun' \ 1 .. begun)
      BY <2>2 DEF StepFails
    <3>2. 1 .. begun \subseteq 1 .. begun'
      BY <1>1, PastStays
    <3> QED
      BY <1>2, <3>1, <3>2 DEF FutureInv
  <2>3. CASE Crash
    BY <1>2, <2>3 DEF Crash, FutureInv
  <2>4. CASE PowerCut
    BY <1>2, <2>4 DEF PowerCut, FutureInv, MemoryInv, Remembered
  <2> QED
    BY <2>1, <2>2, <2>3, <2>4
       DEF Next, Player, Agent, Launch, Exit, WriteSave, Age, Boot, Tick, Wake, EmitOrphaned,
           EmitFinished, EmitCrashed, EmitSaveChanged, RemoveFile, EmitStarted, Truncate,
           Fill, vars
<1>4. \A t \in Id : t > begun' => sent'[t] = Silence
  <2>1. CASE sent' = sent
    BY <1>1, <2>1, PastStays DEF FutureInv, Id
  <2>2. ASSUME NEW s \in Session, NEW r \in Report, Enqueue(s, r), s.id \in 1 .. begun'
        PROVE  \A t \in Id : t > begun' => sent'[t] = Silence
    <3>1. \A t \in Id : t # s.id => sent'[t] = sent[t]
      BY <2>2, Counted
    <3>2. begun' \in Nat /\ begun' >= begun
      BY <1>1, PastStays
    <3> QED
      BY <1>1, <2>2, <3>1, <3>2 DEF FutureInv, Id
  <2>3. CASE EmitOrphaned \/ EmitFinished \/ EmitCrashed \/ EmitSaveChanged
    <3>1. subject \in Session /\ subject.id \in 1 .. begun'
      BY <2>3 DEF EmitOrphaned, EmitFinished, EmitCrashed, EmitSaveChanged, MemoryInv,
                  Remembered, TypeOK, Busy
    <3> QED
      BY <2>2, <2>3, <3>1 DEF EmitOrphaned, EmitFinished, EmitCrashed, EmitSaveChanged, Report
  <2>4. CASE EmitStarted
    <3>1. NewSession \in Session /\ NewSession.id \in 1 .. begun'
      BY <1>1, <2>4, BeginNew DEF EmitStarted
    <3> QED
      BY <2>2, <2>4, <3>1 DEF EmitStarted, Report
  <2> QED
    BY <2>1, <2>3, <2>4
       DEF Next, Player, Agent, Launch, Exit, WriteSave, Age, Boot, Tick, Wake, RemoveFile,
           Truncate, Fill, StepFails, Crash, PowerCut, vars
<1>5. \A t \in 1 .. begun' : trace'[t].pid <= launches'
  <2>1. CASE begun' = begun
    <3>1. \A t \in 1 .. begun : t \in Id /\ t <= begun /\ trace[t].pid \in Nat
      <4> SUFFICES ASSUME NEW t \in 1 .. begun PROVE t \in Id /\ t <= begun /\ trace[t].pid \in Nat
        OBVIOUS
      <4>1. t \in Id /\ t <= begun
        BY BoundsAreNatural DEF TypeOK, Id
      <4>2. trace[t].pid \in Pid \union {0}
        BY <4>1 DEF TypeOK
      <4> QED
        BY <4>1, <4>2, BoundsAreNatural DEF Pid
    <3> QED
      BY <1>1, <2>1, <3>1, PastStays DEF FutureInv
  <2>2. CASE begun' = begun + 1 /\ pc = "start" /\ Begin
    <3>1. SameRom(found.pid, found.rom) /\ found.pid \in Nat
      BY <2>2, BeginNew, BoundsAreNatural DEF MemoryInv, TypeOK, Process, Pid
    <3>2. launches' >= found.pid
      BY <1>1, <3>1 DEF SameRom
    <3>3. ASSUME NEW t \in 1 .. begun PROVE trace'[t].pid <= launches'
      <4>1. t \in Id /\ t # begun'
        BY <1>1, <2>2, BeginNew, BoundsAreNatural DEF TypeOK, Id
      <4>2. trace'[t] = trace[t] /\ trace[t].pid \in Pid \union {0}
        BY <2>2, <4>1, BeginNew DEF TypeOK
      <4> QED
        BY <1>1, <4>2, BoundsAreNatural DEF FutureInv, Pid
    <3> QED
      BY <1>1, <2>2, <3>2, <3>3, BeginNew
  <2> QED
    BY <2>1, <2>2, PastStays
<1> QED
  BY <1>3, <1>4, <1>5 DEF FutureInv

\* Nothing more is told of a session that is over.
LEMMA OverStays ==
    ASSUME TypeOK, MemoryInv, [Next]_vars,
           NEW s \in 1 .. begun, pc = "start" \/ (s # begun /\ s \notin hit)
    PROVE  sent'[s] = sent[s] /\ trace'[s] = trace[s]
<1> USE DEF events, history
<1>1. s \in Id /\ begun \in Nat
  BY BoundsAreNatural DEF TypeOK, Id
<1>2. CASE pc = "start"
  <2>1. CASE EmitStarted \/ (StepFails /\ Begin /\ sent' = sent)
    <3>1. Begin
      BY <2>1 DEF EmitStarted
    <3>2. s # begun'
      BY <1>1, <1>2, <3>1, BeginNew
    <3>3. trace'[s] = trace[s]
      BY <1>1, <1>2, <3>1, <3>2, BeginNew
    <3>4. sent'[s] = sent[s]
      BY <1>1, <1>2, <2>1, <3>1, <3>2, BeginNew, Counted DEF EmitStarted, Report
    <3> QED
      BY <3>3, <3>4
  <2>2. CASE UNCHANGED <<sent, trace>>
    BY <2>2
  <2> QED
    BY <1>2, <2>1, <2>2
       DEF Next, Player, Agent, Launch, Exit, WriteSave, Age, Boot, Tick, Wake, EmitOrphaned,
           EmitFinished, EmitCrashed, EmitSaveChanged, RemoveFile, Truncate, Fill, StepFails,
           Crash, PowerCut, vars
<1>3. CASE pc # "start" /\ s # begun /\ s \notin hit
  <2>1. pc \in Busy => subject \in Session /\ subject.id \in Id /\ subject.id # s
    BY <1>3, BoundsAreNatural DEF MemoryInv, Remembered, TypeOK, Session
  <2>2. ASSUME LookAtSave, pc \in Busy PROVE trace'[s] = trace[s]
    BY <1>1, <2>1, <2>2 DEF LookAtSave, TypeOK
  <2>3. ASSUME NEW r \in Report, Enqueue(subject, r), pc \in Busy PROVE sent'[s] = sent[s]
    BY <1>1, <2>1, <2>3, Counted
  <2>4. CASE EmitOrphaned \/ EmitCrashed \/ EmitSaveChanged
    BY <2>3, <2>4 DEF EmitOrphaned, EmitCrashed, EmitSaveChanged, Busy, Report
  <2>5. CASE EmitFinished
    BY <2>2, <2>3, <2>5 DEF EmitFinished, Busy, Report
  <2>6. CASE StepFails
    BY <1>3, <2>2, <2>6 DEF StepFails, Busy
  <2>7. CASE UNCHANGED <<sent, trace>>
    BY <2>7
  <2> QED
    BY <1>3, <2>4, <2>5, <2>6, <2>7
       DEF Next, Player, Agent, Launch, Exit, WriteSave, Age, Boot, Tick, Wake, RemoveFile,
           EmitStarted, Truncate, Fill, Crash, PowerCut, vars
<1> QED
  BY <1>2, <1>3

\* What is over stays over, and what begins follows what is over.
LEMMA EarlierStep ==
    ASSUME TypeOK, MemoryInv, LastInv, EarlierInv, [Next]_vars
    PROVE  EarlierInv'
<1> SUFFICES ASSUME NEW s \in Clean', s < begun' PROVE Done(s)'
  BY DEF EarlierInv
<1>1. begun \in Nat /\ begun' \in Nat
  BY PastStays, BoundsAreNatural DEF TypeOK
<1>2. s \in Clean /\ s \in 1 .. begun /\ s \notin hit
  BY <1>1, PastStays DEF Clean
<1>3. Done(s) /\ (pc = "start" \/ s # begun)
  <2>1. CASE s < begun
    BY <1>1, <1>2, <2>1 DEF EarlierInv
  <2>2. CASE s = begun
    <3>1. pc = "start"
      BY <1>1, <2>2, PastStays
    <3> QED
      BY <1>2, <2>2, <3>1 DEF LastInv, StartInv
  <2> QED
    BY <1>1, <1>2, <2>1, <2>2
<1>4. sent'[s] = sent[s] /\ trace'[s] = trace[s]
  BY <1>2, <1>3, OverStays
<1> QED
  BY <1>3, <1>4 DEF Done

\* A session that begins does so for another process than the one before it, or for one
\* that another game was started over.
LEMMA PairStep ==
    ASSUME TypeOK, ProcsInv, MemoryInv, FutureInv, LastInv, NewSessionNewProcess, [Next]_vars
    PROVE  NewSessionNewProcess'
<1> SUFFICES ASSUME NEW s \in Clean', NEW t \in Clean', t = s + 1, trace'[s].pid = trace'[t].pid
             PROVE  launches' > trace'[s].pid
  BY DEF NewSessionNewProcess, Clean
<1>1. /\ begun \in Nat /\ begun' \in Nat /\ launches \in Nat
      /\ launches' \in Nat /\ launches' >= launches
  BY ProcsStep, PastStays, BoundsAreNatural DEF TypeOK
<1>2. s \in Clean /\ s \in 1 .. begun /\ s \in Nat /\ s \in Id /\ s <= begun
  <2>1. begun \in 0 .. MaxSessions /\ MaxSessions \in Nat
    BY BoundsAreNatural DEF TypeOK
  <2>2. s \in 1 .. begun' /\ s + 1 \in 1 .. begun' /\ s \notin hit'
    BY DEF Clean
  <2>3. s \in Clean
    BY <1>1, <2>2, PastStays DEF Clean
  <2> QED
    BY <2>1, <2>3 DEF Clean, Id
<1>3. trace[s].pid \in Nat /\ trace'[s].pid = trace[s].pid
  <2>1. trace[s].pid \in Pid \union {0}
    BY <1>2 DEF TypeOK
  <2> QED
    BY <1>2, <2>1, PastStays, BoundsAreNatural DEF Pid
<1>4. CASE t <= begun
  <2>0. begun \in 0 .. MaxSessions /\ MaxSessions \in Nat
    BY BoundsAreNatural DEF TypeOK
  <2>3. t \in 1 .. begun' /\ t \notin hit' /\ t \in Nat
    BY <1>2 DEF Clean
  <2>4. t \in Clean
    BY <1>1, <1>4, <2>3, PastStays DEF Clean
  <2>5. t \in Id
    BY <1>4, <2>0, <2>3 DEF Id
  <2>1. t \in Clean /\ t \in Id /\ trace'[t].pid = trace[t].pid
    BY <1>4, <2>4, <2>5, PastStays
  <2>2. launches > trace[s].pid
    BY <1>2, <1>3, <2>1 DEF NewSessionNewProcess, Clean
  <2> QED
    BY <1>1, <1>3, <2>2
<1>5. CASE ~(t <= begun)
  <2>1. begun' = begun + 1 /\ pc = "start" /\ Begin /\ s = begun /\ t = begun'
    BY <1>1, <1>2, <1>5, PastStays DEF Clean
  <2>2. FoundIsNew(s) /\ found # None
    BY <1>2, <2>1 DEF LastInv, StartInv, TypeOK
  <2>3. trace'[t].pid = found.pid
    BY <2>1, BeginNew
  <2> QED
    <3>1. found.pid = trace[s].pid
      BY <1>3, <2>3
    <3>2. launches > trace[s].pid
      BY <2>2, <3>1 DEF FoundIsNew
    <3> QED
      BY <1>1, <1>3, <3>2
<1> QED
  BY <1>4, <1>5

(***************************************************************************)
(* The last session.  Its steps come one after the other, and each of them *)
(* finds the session as the one before has left it.                        *)
(***************************************************************************)

\* The conclusion of LastInv.
LastIs ==
    /\ pc \in Busy => subject.id = begun
    /\ RestInv(begun) /\ StartInv(begun) /\ EndInv(begun)

\* A step that tells nothing and only lets processes come and go.
LEMMA LastQuiet ==
    ASSUME TypeOK, ProcsInv, FutureInv, [Next]_vars, begun \in Clean, LastIs,
           UNCHANGED <<memory, file, events, trace>>,
           pc' = pc \/ (pc = "asleep" /\ pc' = "awake")
    PROVE  LastIs'
<1>1. begun' = begun /\ begun \in 1 .. begun
  BY DEF events, Clean
<1>2. (Gone(begun) => Gone(begun)') /\ (FoundIsNew(begun) => FoundIsNew(begun)')
  BY <1>1, GoneStays DEF memory, locals
<1>3. sent'[begun] = sent[begun] /\ trace'[begun] = trace[begun]
  BY DEF events
<1>4. /\ current' = current /\ subject' = subject /\ found' = found /\ kind' = kind
      /\ (changed' <=> changed) /\ file' = file /\ (LoadPersisted' = LoadPersisted)
  BY DEF memory, locals, LoadPersisted
<1>5. RestInv(begun)'
  BY <1>1, <1>2, <1>3, <1>4 DEF LastIs, RestInv, Done, Open
<1>6. StartInv(begun)'
  BY <1>1, <1>2, <1>3, <1>4 DEF LastIs, StartInv, Done, Open
<1>7. EndInv(begun)'
  BY <1>1, <1>2, <1>3, <1>4 DEF LastIs, EndInv, Open, Tells, Ending, Ended
<1> QED
  BY <1>1, <1>4, <1>5, <1>6, <1>7 DEF LastIs, Busy

\* SessionTracker::new takes the session up again, or ends it if its process is gone.
LEMMA LastBoot ==
    ASSUME TypeOK, MemoryInv, FlowInv, begun \in Clean, LastIs, Boot
    PROVE  LastIs'
<1>1. /\ pc = "down" /\ current = None /\ found = None
      /\ UNCHANGED <<procs, launches, file, begun, sent, trace, found>>
  BY DEF Boot, FlowInv, device, events, history
<1>2. \/ file = None /\ LoadPersisted = None /\ Done(begun) /\ Gone(begun)
      \/ /\ LoadPersisted = file /\ file # None /\ file.id = begun
         /\ Open(begun) /\ sent[begun]["orphaned"] = 0
  BY <1>1 DEF LastIs, RestInv, LoadPersisted
<1>3. CASE pc' = "awake" /\ current' = file
  <2>1. RestInv(begun)'
    BY <1>1, <1>2, <1>3 DEF RestInv, Done, Gone, Open, LoadPersisted
  <2> QED
    BY <1>3, <2>1 DEF LastIs, StartInv, EndInv, Busy, Ending, Ended
<1>4. CASE /\ LoadPersisted # None /\ ~PidStillOwns(LoadPersisted)
           /\ subject' = LoadPersisted /\ kind' = "orphan" /\ pc' = "orphaned"
           /\ UNCHANGED current
  <2>1. /\ LoadPersisted = file /\ file # None /\ file.id = begun /\ file \in Session
        /\ Open(begun) /\ sent[begun]["orphaned"] = 0
    BY <1>2, <1>4 DEF TypeOK, LoadPersisted
  <2>2. Remembered(file) /\ trace[begun].pid = file.pid
    BY <1>4, <2>1 DEF MemoryInv, Remembered
  <2>3. ASSUME NEW i \in 1 .. Len(procs), procs[i].pid = file.pid PROVE FALSE
    <3>1. procs[i] \in Process /\ procs[i] \in Range(procs)
      BY ElementOfSeq, RangeEquality DEF TypeOK
    <3>2. procs[i].rom = file.rom
      BY <2>2, <2>3 DEF Remembered, SameRom
    <3>3. procs[i] = [pid |-> procs[i].pid, rom |-> procs[i].rom]
      BY <3>1 DEF Process
    <3> QED
      BY <1>4, <2>1, <2>3, <3>1, <3>2, <3>3 DEF PidStillOwns
  <2>4. Gone(begun)
    BY <2>2, <2>3 DEF Gone
  <2>5. EndInv(begun)'
    BY <1>1, <1>4, <2>1, <2>4 DEF EndInv, Open, Gone, FoundIsNew, Ending, Ended
  <2> QED
    BY <1>1, <1>4, <2>1, <2>5 DEF LastIs, RestInv, StartInv
<1>5. \/ pc' = "awake" /\ current' = file
      \/ /\ LoadPersisted # None /\ ~PidStillOwns(LoadPersisted)
         /\ subject' = LoadPersisted /\ kind' = "orphan" /\ pc' = "orphaned"
         /\ UNCHANGED current
  BY <1>1, <1>2 DEF Boot
<1> QED
  BY <1>3, <1>4, <1>5

\* tick ends the session when its game is not the one that is seen, and its process is gone
\* or older than what is seen.
LEMMA LastTick ==
    ASSUME TypeOK, ProcsInv, MemoryInv, FlowInv, begun \in Clean, LastIs, Tick
    PROVE  LastIs'
<1>1. /\ pc = "awake" /\ current = file /\ found' = Detected
      /\ UNCHANGED <<procs, launches, file, current, begun, sent, trace>>
  BY DEF Tick, LastIs, RestInv, device, events, history
<1>2. \/ file = None /\ Done(begun) /\ Gone(begun)
      \/ /\ LoadPersisted # None /\ current # None /\ file.id = begun
         /\ Open(begun) /\ sent[begun]["orphaned"] = 0
  BY <1>1 DEF LastIs, RestInv, LoadPersisted
<1>3. \A i \in 1 .. Len(procs) : procs[i] \in Process /\ procs[i].pid \in Nat
  <2> SUFFICES ASSUME NEW i \in 1 .. Len(procs) PROVE procs[i] \in Process /\ procs[i].pid \in Nat
    OBVIOUS
  <2>1. procs[i] \in Process
    BY ElementOfSeq DEF TypeOK
  <2> QED
    BY <2>1, BoundsAreNatural DEF Process, Pid
<1>4. launches \in Nat
  BY BoundsAreNatural DEF TypeOK
<1>5. CASE Over(current, Detected)
  <2>1. /\ pc' = "finish" /\ subject' = current /\ kind' # "orphan" /\ current # None
        /\ Detected # None => current.rom # Detected.rom
    BY <1>1, <1>5 DEF Tick, Over, FinishKind
  <2>2. /\ current.id = begun /\ trace[begun].pid = current.pid
        /\ Open(begun) /\ sent[begun]["orphaned"] = 0
        /\ SameRom(current.pid, current.rom) /\ sent[begun]["started"] = 1
    BY <1>1, <1>2, <2>1 DEF MemoryInv, Remembered, Open
  <2>3. current.pid \in Nat
    BY <2>1, BoundsAreNatural DEF TypeOK, Session, Pid
  <2>4. Detected # None => Detected.pid # current.pid
    BY <2>1, <2>2, DetectedSeen DEF SameRom
  <2>5. Gone(begun)
    <3>1. CASE Detected = None
      <4>1. procs = <<>>
        BY <3>1, NothingIsNoSession, ElementOfSeq, EmptySeq, LenProperties DEF Detected, Last, TypeOK
      <4> QED
        BY <4>1 DEF Gone
    <3>2. ASSUME Detected # None, NEW i \in 1 .. Len(procs), procs[i].pid = current.pid
          PROVE  launches > current.pid
      <4>1. /\ current.pid <= Detected.pid /\ Detected.pid <= launches
            /\ Detected.pid # current.pid /\ Detected.pid \in Nat
        BY <1>3, <2>4, <3>2, DetectedSeen DEF SameRom
      <4> QED
        BY <1>4, <2>3, <4>1
    <3> QED
      BY <2>2, <3>1, <3>2 DEF Gone
  <2>6. Gone(begun)' /\ FoundIsNew(begun)'
    BY <1>1, <2>2, <2>4, <2>5 DEF Gone, FoundIsNew
  <2>7. EndInv(begun)'
    BY <1>1, <2>1, <2>2, <2>6 DEF EndInv, Open, Tells, Ending, Ended
  <2> QED
    BY <1>1, <2>1, <2>2, <2>7 DEF LastIs, RestInv, StartInv
<1>6. CASE ~Over(current, Detected) /\ current # None /\ Detected # None
  <2>1. pc' = "persist" /\ subject' = current
    BY <1>1, <1>6 DEF Tick
  <2>2. current.id = begun /\ Open(begun) /\ sent[begun]["orphaned"] = 0
    BY <1>1, <1>2, <1>6
  <2>3. StartInv(begun)'
    BY <1>1, <2>1, <2>2 DEF StartInv, Open
  <2> QED
    BY <1>1, <2>1, <2>2, <2>3 DEF LastIs, RestInv, EndInv, Ending, Ended
<1>7. CASE ~Over(current, Detected) /\ current = None /\ Detected # None
  <2>1. pc' = "start"
    BY <1>1, <1>7 DEF Tick
  <2>2. file = None /\ Done(begun) /\ Gone(begun)
    BY <1>1, <1>2, <1>7
  <2>3. Gone(begun)' /\ FoundIsNew(begun)'
    BY <1>1, <1>7, <2>2, DetectedSeen DEF Gone, FoundIsNew
  <2>4. StartInv(begun)'
    BY <1>1, <2>1, <2>2, <2>3 DEF StartInv, Done
  <2> QED
    BY <1>1, <2>1, <2>4 DEF LastIs, RestInv, EndInv, Ending, Ended, Busy
<1>8. CASE ~Over(current, Detected) /\ Detected = None
  <2>1. pc' = "asleep"
    BY <1>1, <1>8 DEF Tick
  <2>2. RestInv(begun)'
    BY <1>1, <1>2, <2>1 DEF RestInv, Done, Gone, Open, LoadPersisted
  <2> QED
    BY <1>1, <2>1, <2>2 DEF LastIs, StartInv, EndInv, Ending, Ended, Busy
<1> QED
  BY <1>5, <1>6, <1>7, <1>8

\* emit_orphaned and emit_finish, event by event.
LEMMA LastEmit ==
    ASSUME TypeOK, MemoryInv, begun \in Clean, LastIs,
           EmitOrphaned \/ EmitFinished \/ EmitCrashed \/ EmitSaveChanged
    PROVE  LastIs'
<1>1. /\ pc \in Ending /\ pc \in Busy
      /\ UNCHANGED <<procs, launches, file, current, begun, subject, found, kind>>
  BY DEF EmitOrphaned, EmitFinished, EmitCrashed, EmitSaveChanged, GoTo, Ending, Busy,
         device, memory, locals
<1>2. /\ subject \in Session /\ subject.id = begun /\ Remembered(subject)
      /\ begun \in Id /\ EndInv(begun)
  BY <1>1, BoundsAreNatural DEF TypeOK, LastIs, MemoryInv, Session
<1>3. /\ trace[begun].first = subject.save
      /\ trace[begun] \in [pid : Pid \union {0}, first : 0 .. MaxSaves, last : 0 .. MaxSaves]
  BY <1>2 DEF Remembered, TypeOK
<1>4. \A r \in Report : Enqueue(subject, r) =>
          /\ \A q \in Report : q # r => sent'[begun][q] = sent[begun][q]
          /\ sent'[begun][r] = sent[begun][r] + 1
  BY <1>2, Counted
<1>5. file = subject /\ (current = IF kind = "orphan" THEN None ELSE subject)
      /\ Gone(begun) /\ FoundIsNew(begun) /\ sent[begun]["started"] = 1
  BY <1>1, <1>2 DEF EndInv
<1>6. /\ trace'[begun].pid = trace[begun].pid
      => Gone(begun)' /\ FoundIsNew(begun)'
  BY <1>1, <1>5 DEF Gone, FoundIsNew
<1>7. CASE EmitOrphaned
  <2>1. pc = "orphaned" /\ pc' = "finish" /\ Enqueue(subject, "orphaned") /\ UNCHANGED trace
    BY <1>7 DEF EmitOrphaned, GoTo, history
  <2>2. EndInv(begun)'
    BY <1>1, <1>2, <1>4, <1>5, <1>6, <2>1 DEF EndInv, Open, Tells, Report, Ending, Ended
  <2> QED
    BY <1>1, <1>2, <2>1, <2>2 DEF LastIs, RestInv, StartInv
<1>8. CASE EmitFinished
  <2>1. /\ pc = "finish" /\ pc' = AfterFinished(kind, changed')
        /\ Enqueue(subject, "finished") /\ LookAtSave
    BY <1>8 DEF EmitFinished
  <2>2. /\ trace'[begun].pid = trace[begun].pid /\ trace'[begun].first = subject.save
        /\ trace'[begun].last = save[subject.rom]
    BY <1>2, <1>3, <2>1 DEF LookAtSave, TypeOK
  <2>3. changed' <=> (trace'[begun].first # 0 /\ trace'[begun].last # trace'[begun].first)
    BY <2>1, <2>2 DEF LookAtSave, SaveChanged
  <2>4. sent'[begun]["finished"] = 1 /\ \A q \in Report : q # "finished" => sent'[begun][q] = sent[begun][q]
    BY <1>2, <1>4, <2>1 DEF EndInv, Open, Report
  <2>5. pc' \in Ended
    BY <2>1 DEF AfterFinished, Ended
  <2>6. EndInv(begun)'
    BY <1>1, <1>2, <1>5, <1>6, <2>1, <2>2, <2>3, <2>4, <2>5
       DEF EndInv, Open, Tells, Report, Ending, Ended, AfterFinished
  <2> QED
    BY <1>1, <1>2, <2>5, <2>6 DEF LastIs, RestInv, StartInv, Ended, Busy
<1>9. CASE EmitCrashed
  <2>1. /\ pc = "crashed" /\ pc' = AfterFinished("normal", changed)
        /\ Enqueue(subject, "crashed") /\ UNCHANGED trace /\ (changed' <=> changed)
    BY <1>9 DEF EmitCrashed, memory, locals, history
  <2>2. pc' \in {"save", "remove"} /\ (pc' = "save" <=> changed)
    BY <2>1 DEF AfterFinished
  <2>3. sent'[begun]["crashed"] = 1 /\ \A q \in Report : q # "crashed" => sent'[begun][q] = sent[begun][q]
    BY <1>2, <1>4, <2>1 DEF EndInv, Report
  <2>4. EndInv(begun)'
    BY <1>1, <1>2, <1>5, <1>6, <2>1, <2>2, <2>3 DEF EndInv, Tells, Report, Ending, Ended
  <2> QED
    BY <1>1, <1>2, <2>2, <2>4 DEF LastIs, RestInv, StartInv, Busy
<1>10. CASE EmitSaveChanged
  <2>1. /\ pc = "save" /\ pc' = "remove" /\ Enqueue(subject, "saved")
        /\ UNCHANGED trace /\ (changed' <=> changed)
    BY <1>10 DEF EmitSaveChanged, memory, locals, history
  <2>2. sent'[begun]["saved"] = 1 /\ \A q \in Report : q # "saved" => sent'[begun][q] = sent[begun][q]
    BY <1>2, <1>4, <2>1 DEF EndInv, Report
  <2>3. EndInv(begun)'
    BY <1>1, <1>2, <1>5, <1>6, <2>1, <2>2 DEF EndInv, Tells, Report, Ending, Ended
  <2> QED
    BY <1>1, <1>2, <2>1, <2>3 DEF LastIs, RestInv, StartInv
<1> QED
  BY <1>7, <1>8, <1>9, <1>10

\* The session is over when its file is gone.
LEMMA LastRemove ==
    ASSUME TypeOK, FlowInv, begun \in Clean, LastIs, RemoveFile
    PROVE  LastIs'
<1>1. /\ pc = "remove" /\ file' = None /\ current' = None /\ pc' = AfterRemoval
      /\ UNCHANGED <<procs, launches, begun, sent, trace>>
  BY DEF RemoveFile, RemovedFile, GoTo, device, events, history
<1>2. EndInv(begun)
  BY DEF LastIs
<1>3. Done(begun)
  BY <1>1, <1>2 DEF EndInv, Done, Tells, Ending, Ended
<1>4. Gone(begun) /\ FoundIsNew(begun)
  BY <1>1, <1>2 DEF EndInv, Ending
<1>5. CASE pc' = "start"
  <2>1. found' = found
    BY <1>5 DEF RemoveFile, GoTo, locals
  <2>2. StartInv(begun)'
    BY <1>1, <1>3, <1>4, <1>5, <2>1 DEF StartInv, Done, Gone, FoundIsNew
  <2> QED
    BY <1>5, <2>2 DEF LastIs, RestInv, EndInv, Busy, Ending, Ended
<1>6. CASE pc' \in {"awake", "asleep"}
  <2>1. RestInv(begun)'
    BY <1>1, <1>3, <1>4 DEF RestInv, Done, Gone
  <2> QED
    BY <1>6, <2>1 DEF LastIs, StartInv, EndInv, Busy, Ending, Ended
<1> QED
  BY <1>1, <1>5, <1>6 DEF AfterRemoval

\* start: the new session is the last one now.
LEMMA LastStart ==
    ASSUME TypeOK, FlowInv, FutureInv, EmitStarted
    PROVE  LastIs'
<1>1. /\ pc = "start" /\ Begin /\ current = None /\ UNCHANGED current
      /\ Enqueue(NewSession, "started")
  BY DEF EmitStarted, FlowInv
<1>2. /\ begun' = begun + 1 /\ begun \in Nat /\ begun' \in Id /\ pc' = "persist"
      /\ subject' = NewSession /\ NewSession \in Session /\ NewSession.id = begun'
  BY <1>1, BeginNew
<1>3. sent[begun'] = Silence
  BY <1>2 DEF FutureInv
<1>4. /\ sent'[begun']["started"] = 1
      /\ \A r \in Report : r # "started" => sent'[begun'][r] = 0
  BY <1>1, <1>2, <1>3, Counted DEF Silence, Report
<1>5. StartInv(begun)'
  BY <1>1, <1>2, <1>4 DEF StartInv, Open, Report
<1> QED
  BY <1>2, <1>5 DEF LastIs, RestInv, EndInv, Ending, Ended

\* persist: the file is emptied and filled.
LEMMA LastPersist ==
    ASSUME TypeOK, begun \in Clean, LastIs, Truncate \/ Fill
    PROVE  LastIs'
<1>1. /\ pc \in {"persist", "write"} /\ pc \in Busy /\ subject.id = begun
      /\ subject \in Session /\ UNCHANGED <<begun, sent, trace>>
  BY DEF Truncate, Fill, LastIs, TypeOK, Busy, events, history
<1>2. Open(begun) /\ sent[begun]["orphaned"] = 0 /\ current \in {None, subject}
  BY <1>1 DEF LastIs, StartInv
<1>3. CASE Truncate
  <2>1. pc' = "write" /\ file' = Torn /\ UNCHANGED <<current, subject>>
    BY <1>3 DEF Truncate, memory, locals
  <2>2. StartInv(begun)'
    BY <1>1, <1>2, <2>1 DEF StartInv, Open
  <2> QED
    BY <1>1, <2>1, <2>2 DEF LastIs, RestInv, EndInv, Ending, Ended
<1>4. CASE Fill
  <2>1. pc' = "asleep" /\ file' = subject /\ current' = subject
    BY <1>4 DEF Fill, Written, GoTo
  <2>2. LoadPersisted' # None
    BY <1>1, <2>1, NothingIsNoSession DEF LoadPersisted
  <2>3. RestInv(begun)'
    BY <1>1, <1>2, <2>1, <2>2 DEF RestInv, Open
  <2> QED
    BY <2>1, <2>3 DEF LastIs, StartInv, EndInv, Busy, Ending, Ended
<1> QED
  BY <1>3, <1>4

\* A fault between two looks leaves the session in its file; any other one hits it.
LEMMA LastFault ==
    ASSUME TypeOK, ProcsInv, MemoryInv, FutureInv, [Next]_vars, begun \in Clean, LastIs,
           begun \notin hit', Crash \/ PowerCut
    PROVE  LastIs'
<1>1. pc' = "down" /\ current' = None /\ UNCHANGED <<begun, sent, trace>>
  BY DEF Crash, PowerCut, Died, events
<1>2. pc \notin Busy
  BY DEF Crash, PowerCut, InWork, LastIs
<1>3. \/ file = None /\ Done(begun) /\ Gone(begun)
      \/ /\ LoadPersisted # None /\ file.id = begun
         /\ Open(begun) /\ sent[begun]["orphaned"] = 0
  BY <1>2 DEF LastIs, RestInv, StartInv, TypeOK
<1>4. \/ file' = file
      \/ LoadPersisted # None /\ file.id # begun
  BY DEF Crash, PowerCut
<1>5. file' = file
  BY <1>3, <1>4 DEF LoadPersisted
<1>6. Gone(begun) => Gone(begun)'
  BY <1>1, GoneStays DEF Clean
<1>7. RestInv(begun)'
  BY <1>1, <1>3, <1>5, <1>6 DEF RestInv, Done, Open, LoadPersisted
<1> QED
  BY <1>1, <1>7 DEF LastIs, StartInv, EndInv, Busy, Ending, Ended

\* The last session is where the agent is with it.
LEMMA LastStep ==
    ASSUME TypeOK, ProcsInv, MemoryInv, FlowInv, FutureInv, LastInv, [Next]_vars
    PROVE  LastInv'
<1> SUFFICES ASSUME (begun \in Clean)' PROVE LastIs'
  BY DEF LastInv, LastIs
<1>1. CASE EmitStarted
  BY <1>1, LastStart
<1>2. CASE ~EmitStarted
  <2>1. ASSUME StepFails PROVE FALSE
    <3>1. hit' = hit \union InWork \union (1 .. begun' \ 1 .. begun)
      BY <2>1 DEF StepFails
    <3>2. CASE pc = "start"
      <4>1. Begin
        BY <2>1, <3>2 DEF StepFails
      <4>2. begun' \in 1 .. begun' \ 1 .. begun
        BY <3>2, <4>1, BeginNew
      <4> QED
        BY <3>1, <4>2 DEF Clean
    <3>3. CASE pc # "start"
      <4>1. begun' = begun /\ pc \in Busy
        BY <2>1, <3>3 DEF StepFails, Busy
      <4>2. LastIs
        BY <3>1, <4>1 DEF LastInv, LastIs, Clean
      <4> QED
        BY <3>1, <4>1, <4>2 DEF LastIs, InWork, Clean
    <3> QED
      BY <3>2, <3>3
  <2>2. begun' = begun
    BY <1>2, <2>1
       DEF Next, Player, Agent, Launch, Exit, WriteSave, Age, Boot, Tick, Wake, EmitOrphaned,
           EmitFinished, EmitCrashed, EmitSaveChanged, RemoveFile, Truncate, Fill, Crash,
           PowerCut, vars, events
  <2>3. begun \in Clean /\ begun \notin hit' /\ LastIs
    BY <2>2, PastStays DEF Clean, LastInv, LastIs
  <2>4. CASE (\E r \in Roms : Launch(r)) \/ (\E i \in 1 .. Len(procs) : Exit(i) \/ WriteSave(i))
             \/ Age \/ Wake \/ UNCHANGED vars
    <3>1. /\ UNCHANGED <<memory, file, events, trace>>
          /\ pc' = pc \/ (pc = "asleep" /\ pc' = "awake")
      BY <2>4 DEF Launch, Exit, WriteSave, Age, Wake, vars, history
    <3> QED
      BY <2>3, <3>1, LastQuiet
  <2> QED
    BY <1>2, <2>1, <2>3, <2>4, LastBoot, LastTick, LastEmit, LastRemove, LastPersist, LastFault
       DEF Next, Player, Agent
<1> QED
  BY <1>1, <1>2
-----------------------------------------------------------------------------
(* The theorems *)

\* The invariant holds in every state of sessions.rs that can be reached, with crashes,
\* power cuts and failed steps.
LEMMA IInvHolds == Spec => []IInv
<1> DEFINE Rest == /\ ProcsInv /\ MemoryInv /\ FlowInv
                   /\ LastInv /\ EarlierInv /\ FutureInv /\ NewSessionNewProcess
<1>1. Init => Rest
  <2> SUFFICES ASSUME Init PROVE Rest
    OBVIOUS
  <2>1. /\ procs = <<>> /\ pc = "down" /\ current = None /\ file = None /\ found = None
        /\ kind = "normal" /\ begun = 0 /\ hit = {} /\ sent = [s \in Id |-> Silence]
    BY DEF Init
  <2>2. Len(procs) = 0
    BY <2>1
  <2>3. Clean = {} /\ LoadPersisted = None
    BY <2>1 DEF Clean, LoadPersisted
  <2>4. ProcsInv
    BY <2>2 DEF ProcsInv
  <2>5. MemoryInv /\ FlowInv
    BY <2>1, <2>3 DEF MemoryInv, FlowInv, Busy
  <2>6. LastInv /\ EarlierInv /\ FutureInv /\ NewSessionNewProcess
    BY <2>1, <2>3 DEF LastInv, EarlierInv, FutureInv, NewSessionNewProcess, Clean
  <2> QED
    BY <2>4, <2>5, <2>6
<1>2. TypeOK /\ TypeOK' /\ Rest /\ [Next]_vars => Rest'
  BY ProcsStep, MemoryStep, FlowStep, LastStep, EarlierStep, FutureStep, PairStep
<1>3. IInv <=> TypeOK /\ Rest
  BY DEF IInv
<1> QED
  BY <1>1, <1>2, <1>3, TypeCorrect, PTL DEF Spec

\* The numbers of a session's events are numbers.
LEMMA SentNumbers ==
    ASSUME TypeOK, NEW s \in 1 .. begun, NEW r \in Report
    PROVE  s \in Id /\ begun \in Nat /\ sent[s][r] \in Nat
<1>1. s \in Id /\ begun \in Nat
  BY BoundsAreNatural DEF TypeOK, Id
<1> QED
  BY <1>1 DEF TypeOK

\* What the invariant says of the counts of one session, wherever the agent is.
LEMMA Told ==
    ASSUME IInv, NEW s \in Clean
    PROVE  /\ sent[s]["started"] = 1
           /\ \A r \in Report : sent[s][r] <= 1
           /\ sent[s]["crashed"] + sent[s]["orphaned"] <= 1
           /\ sent[s]["finished"] = 0 => s = begun
<1>1. s \in 1 .. begun /\ \A r \in Report : sent[s][r] \in Nat
  BY SentNumbers DEF IInv, Clean
<1>2. CASE Done(s)
  BY <1>1, <1>2 DEF Done, Report
<1>3. CASE ~Done(s)
  <2>1. s = begun
    BY <1>1, <1>3, SentNumbers DEF IInv, EarlierInv, Report
  <2>2. RestInv(s) /\ StartInv(s) /\ EndInv(s)
    BY <2>1 DEF IInv, LastInv
  <2>3. CASE Open(s) /\ sent[s]["orphaned"] <= 1
    BY <1>1, <2>1, <2>3 DEF Open, Report
  <2>4. CASE pc \in Ended
    <3>1. /\ sent[s]["orphaned"] = Tells(s, {"orphan"})
          /\ sent[s]["finished"] = 1 /\ sent[s]["started"] = 1
          /\ pc = "crashed" => kind = "crash" /\ sent[s]["crashed"] = 0
          /\ pc \in {"crashed", "save"} => sent[s]["saved"] = 0
          /\ pc \in {"save", "remove"} => sent[s]["crashed"] = Tells(s, {"crash"})
          /\ pc = "remove" => sent[s]["saved"] = IF changed THEN 1 ELSE 0
      BY <2>2, <2>4 DEF EndInv, Ended, Ending
    <3> QED
      BY <1>1, <2>1, <2>4, <3>1 DEF Ended, Tells, Report
  <2>5. pc \in {"orphaned", "finish", "persist", "write", "down", "awake", "asleep", "start"}
        => Open(s) /\ sent[s]["orphaned"] <= 1
    BY <1>3, <2>2 DEF RestInv, StartInv, EndInv, Tells, Ended
  <2> QED
    BY <2>3, <2>4, <2>5 DEF IInv, TypeOK, Busy, Ended
<1> QED
  BY <1>2, <1>3

\* ReportedOnce: a session that no fault fell into has one Started, at most one of every
\* other event, and is not reported both as crashed and as orphaned (emit_started,
\* emit_orphaned, emit_finish in sessions.rs).
THEOREM EverySessionIsReportedOnce == Spec => []ReportedOnce
<1>1. IInv => ReportedOnce
  BY Told DEF ReportedOnce, Clean
<1> QED
  BY <1>1, IInvHolds, PTL

\* OpenIsTracked: the agent never loses sight of a session that is not over: it works on
\* it, holds it, or finds it in current-session.json when it comes back.
THEOREM OpenSessionsAreTracked == Spec => []OpenIsTracked
<1>1. IInv => OpenIsTracked
  <2> SUFFICES ASSUME IInv, NEW s \in Clean, sent[s]["finished"] = 0
               PROVE  \/ s \in InWork
                      \/ current # None /\ current.id = s
                      \/ pc = "down" /\ LoadPersisted # None /\ file.id = s
    BY DEF OpenIsTracked, Clean
  <2>1. s = begun /\ ~Done(s)
    BY Told DEF Done
  <2>2. (pc \in Busy => subject.id = s) /\ RestInv(s) /\ StartInv(s)
    BY <2>1 DEF IInv, LastInv
  <2>3. CASE pc \in Busy
    BY <2>2, <2>3 DEF InWork
  <2>4. CASE pc \in {"down", "awake", "asleep"}
    BY <2>1, <2>2, <2>4 DEF RestInv, LoadPersisted
  <2> QED
    BY <2>1, <2>2, <2>3, <2>4 DEF IInv, TypeOK, StartInv
<1> QED
  BY <1>1, IInvHolds, PTL

\* NoOverlap: when a session begins, every earlier one has been finished.
THEOREM SessionsDoNotOverlap == Spec => []NoOverlap
<1>1. IInv => NoOverlap
  BY DEF IInv, EarlierInv, Done, NoOverlap, Clean
<1> QED
  BY <1>1, IInvHolds, PTL

\* NewSessionNewProcess: the same run of a game is not reported as two sessions in a row,
\* unless another game was started over it (pid_still_owns, detect_running_rom).
THEOREM ARunIsOneSession == Spec => []NewSessionNewProcess
<1>1. IInv => NewSessionNewProcess
  BY DEF IInv
<1> QED
  BY <1>1, IInvHolds, PTL

\* SaveReported: a save file that was there at the start and is another at the end is
\* reported, and no other one is (save_changed in sessions.rs).
THEOREM ChangedSavesAreReported == Spec => []SaveReported
<1>1. IInv => SaveReported
  <2> SUFFICES ASSUME IInv, NEW s \in Clean, sent[s]["finished"] = 1, s \notin InWork,
                      trace[s].first # 0
               PROVE  sent[s]["saved"] = 1 <=> trace[s].last # trace[s].first
    BY DEF SaveReported, Clean
  <2>1. CASE Done(s)
    BY <2>1 DEF Done
  <2>2. CASE ~Done(s)
    <3>1. s = begun
      BY <2>2, SentNumbers DEF IInv, EarlierInv, Clean, Report
    <3>2. (pc \in Busy => subject.id = s) /\ RestInv(s) /\ StartInv(s)
      BY <3>1 DEF IInv, LastInv
    <3>3. pc \notin Busy
      BY <3>2 DEF InWork
    <3> QED
      BY <2>2, <3>2, <3>3 DEF IInv, TypeOK, RestInv, StartInv, Open
  <2> QED
    BY <2>1, <2>2
<1> QED
  BY <1>1, IInvHolds, PTL


-----------------------------------------------------------------------------
(* The fix of the exit key (fix_exit.rs)                                   *)

FixLine == [key : Keys, value : Values]

LEMMA FixFacts ==
    /\ Settings \subseteq Keys /\ IsFiniteSet(Settings) /\ Want \in Values
    /\ MaxStamp \in Nat /\ MaxStamp # 0 /\ MaxChanges \in Nat /\ MaxMishaps \in Nat
    /\ Fix!Line = FixLine
<1>1. /\ Settings \subseteq Keys /\ IsFiniteSet(Settings) /\ Want \in Values
      /\ {MaxStamp, MaxChanges, MaxMishaps} \subseteq Nat /\ MaxStamp # 0
  BY Assumptions DEF Fix!FixAssumption, IsFiniteSet, Fix!IsFiniteSet
<1>2. Fix!Line = FixLine
  BY DEF Fix!Line, FixLine
<1> QED
  BY <1>1, <1>2

\* A finite set as a sequence has each of its elements once (SetToSeq).
LEMMA Enumerated ==
    ASSUME NEW S, IsFiniteSet(S)
    PROVE  /\ Cardinality(S) \in Nat
           /\ Fix!SetToSeq(S) \in [1..Cardinality(S) -> S]
           /\ \A i, j \in 1..Cardinality(S) : Fix!SetToSeq(S)[i] = Fix!SetToSeq(S)[j] => i = j
           /\ \A x \in S : \E i \in 1..Cardinality(S) : Fix!SetToSeq(S)[i] = x
<1> DEFINE n == Cardinality(S)
           q == Fix!SetToSeq(S)
<1>1. n \in Nat /\ ExistsBijection(1..n, S)
  BY FS_CardinalityType
<1>2. PICK f \in Bijection(1..n, S) : TRUE
  BY <1>1 DEF ExistsBijection
<1>3. f \in [1..n -> S] /\ Fix!IsInjective(f)
  BY <1>2 DEF Bijection, Injection, IsInjective, Fix!IsInjective
<1>4. q \in [1..n -> S] /\ Fix!IsInjective(q)
  <2>1. Fix!Cardinality(S) = n
    BY DEF Cardinality, Fix!Cardinality
  <2> HIDE DEF n
  <2>2. q = CHOOSE h \in [1..n -> S] : Fix!IsInjective(h)
    BY <2>1 DEF Fix!SetToSeq
  <2> HIDE DEF q
  <2> QED
    BY <1>3, <2>2
<1>5. q \in Injection(1..n, S)
  BY <1>4 DEF Injection, IsInjective, Fix!IsInjective
<1>6. IsFiniteSet(1..n) /\ Cardinality(1..n) = n
  BY <1>1, FS_Interval
<1>7. q \in Surjection(1..n, S)
  BY <1>5, <1>6, FS_Injection
<1> HIDE DEF q, n
<1>8. \A i, j \in 1..n : q[i] = q[j] => i = j
  BY <1>4 DEF Fix!IsInjective
<1>9. \A x \in S : \E i \in 1..n : q[i] = x
  BY <1>7 DEF Surjection
<1> QED
  BY <1>1, <1>4, <1>8, <1>9 DEF q, n

LEMMA Greatest ==
    ASSUME NEW n \in Nat, NEW S \in SUBSET (0..n), S # {}
    PROVE  \E x \in S : \A y \in S : y <= x
<1> DEFINE T == {n - x : x \in S}
<1>1. T \subseteq Nat /\ T # {}
  OBVIOUS
<1>2. PICK m \in T : \A k \in T : ~ (<<k, m>> \in OpToRel(<, Nat))
  <2> HIDE DEF T
  <2>1. IsWellFoundedOn(OpToRel(<, Nat), Nat)
    BY NatLessThanWellFounded
  <2> QED
    BY <1>1, <2>1, WFMin
<1>3. PICK x \in S : m = n - x
  OBVIOUS
<1>4. ASSUME NEW y \in S PROVE y <= x
  <2>1. n - y \in Nat /\ m \in Nat /\ n - y \in T
    BY <1>1
  <2>2. ~ (n - y < m)
    BY <1>2, <2>1 DEF OpToRel
  <2>3. x \in Nat /\ y \in Nat
    OBVIOUS
  <2> QED
    BY <1>3, <2>2, <2>3
<1> QED
  BY <1>4

\* The value of a key is the one in its last line (parse_settings).
LastOf(lines, k, i) ==
    /\ i \in DOMAIN lines /\ lines[i].key = k
    /\ \A j \in DOMAIN lines : lines[j].key = k => j <= i

LEMMA LastExists ==
    ASSUME NEW lines \in Seq(FixLine), NEW m \in DOMAIN lines
    PROVE  \E i \in DOMAIN lines : LastOf(lines, lines[m].key, i)
<1> DEFINE at == {i \in DOMAIN lines : lines[i].key = lines[m].key}
<1>1. Len(lines) \in Nat /\ DOMAIN lines = 1..Len(lines)
  OBVIOUS
<1>2. at \in SUBSET (0..Len(lines)) /\ at # {}
  BY <1>1
<1>3. \E i \in at : \A j \in at : j <= i
  <2> HIDE DEF at
  <2> QED
    BY <1>1, <1>2, Greatest
<1> QED
  BY <1>3 DEF LastOf

LEMMA ParsedIs ==
    ASSUME NEW lines \in Seq(FixLine)
    PROVE  /\ DOMAIN Fix!Parsed(lines) = {lines[i].key : i \in DOMAIN lines}
           /\ \A k, i : LastOf(lines, k, i) => Fix!Parsed(lines)[k] = lines[i].value
<1>1. DOMAIN Fix!Parsed(lines) = {lines[i].key : i \in DOMAIN lines}
  BY DEF Fix!Parsed
<1>2. ASSUME NEW k, NEW i, LastOf(lines, k, i)
      PROVE  Fix!Parsed(lines)[k] = lines[i].value
  <2> DEFINE at == {j \in DOMAIN lines : lines[j].key = k}
  <2>1. i \in at /\ \A j \in at : j <= i
    BY <1>2 DEF LastOf
  <2>2. \A j \in at : j \in Nat
    OBVIOUS
  <2>3. ASSUME NEW j \in at, \A l \in at : l <= j PROVE j = i
    BY <2>1, <2>2, <2>3
  <2>4. (CHOOSE j \in at : \A l \in at : l <= j) = i
    <3> HIDE DEF at
    <3> QED
      BY <2>1, <2>3
  <2>5. k \in {lines[j].key : j \in DOMAIN lines}
    BY <1>2 DEF LastOf
  <2>6. Fix!Parsed(lines)[k] = lines[CHOOSE j \in at : \A l \in at : l <= j].value
    BY <2>5 DEF Fix!Parsed
  <2> QED
    BY <2>4, <2>6
<1> QED
  BY <1>1, <1>2

\* Nothing is left to change if the last line of each setting has what is wanted.
Wanted(lines) ==
    \A k \in Settings : \E i \in DOMAIN lines : LastOf(lines, k, i) /\ lines[i].value = Want

LEMMA WantedIs ==
    ASSUME NEW lines \in Seq(FixLine)
    PROVE  Fix!ToChange(lines) = {} <=> Wanted(lines)
<1>1. ASSUME NEW k \in Settings
      PROVE  k \notin Fix!ToChange(lines)
                <=> \E i \in DOMAIN lines : LastOf(lines, k, i) /\ lines[i].value = Want
  <2>1. k \notin Fix!ToChange(lines)
           <=> k \in DOMAIN Fix!Parsed(lines) /\ Fix!Parsed(lines)[k] = Want
    BY DEF Fix!ToChange
  <2>2. CASE k \in DOMAIN Fix!Parsed(lines)
    <3>0. DOMAIN Fix!Parsed(lines) = {lines[m].key : m \in DOMAIN lines}
      BY ParsedIs
    <3>1. PICK m \in DOMAIN lines : lines[m].key = k
      BY <2>2, <3>0
    <3>2. PICK i \in DOMAIN lines : LastOf(lines, k, i)
      BY <3>1, LastExists
    <3>3. Fix!Parsed(lines)[k] = lines[i].value
      BY <3>2, ParsedIs
    <3>4. \A j \in DOMAIN lines : LastOf(lines, k, j) => Fix!Parsed(lines)[k] = lines[j].value
      BY ParsedIs
    <3> QED
      BY <2>1, <2>2, <3>2, <3>3, <3>4
  <2>3. CASE k \notin DOMAIN Fix!Parsed(lines)
    <3>1. \A i \in DOMAIN lines : lines[i].key # k
      BY <2>3, ParsedIs
    <3> QED
      BY <2>1, <2>3, <3>1 DEF LastOf
  <2> QED
    BY <2>2, <2>3
<1>2. Fix!ToChange(lines) \subseteq Settings
  BY DEF Fix!ToChange
<1> QED
  BY <1>1, <1>2 DEF Wanted

-----------------------------------------------------------------------------
(* apply_patches                                                           *)

\* What is appended: a line for each key without one.
Replaced(lines, keys) ==
    [i \in DOMAIN lines |-> IF lines[i].key \in keys
                            THEN [lines[i] EXCEPT !.value = Want] ELSE lines[i]]

Added(lines, keys) ==
    LET missing == Fix!SetToSeq(keys \ DOMAIN Fix!Parsed(lines))
    IN  [i \in DOMAIN missing |-> [key |-> missing[i], value |-> Want]]

LEMMA ReplacedIs ==
    ASSUME NEW lines \in Seq(FixLine), NEW keys
    PROVE  /\ Replaced(lines, keys) \in Seq(FixLine)
           /\ Len(Replaced(lines, keys)) = Len(lines)
           /\ \A i \in 1..Len(lines) :
                 /\ Replaced(lines, keys)[i].key = lines[i].key
                 /\ Replaced(lines, keys)[i].value =
                       IF lines[i].key \in keys THEN Want ELSE lines[i].value
<1>1. DOMAIN lines = 1..Len(lines) /\ Len(lines) \in Nat
      /\ \A i \in 1..Len(lines) : lines[i] \in FixLine
  OBVIOUS
<1>2. \A l \in FixLine : LET w == [l EXCEPT !.value = Want]
                         IN  w \in FixLine /\ w.key = l.key /\ w.value = Want
  BY FixFacts DEF FixLine
<1>3. Replaced(lines, keys) \in [1..Len(lines) -> FixLine]
  BY <1>1, <1>2 DEF Replaced
<1>4. Replaced(lines, keys) \in Seq(FixLine) /\ Len(Replaced(lines, keys)) = Len(lines)
  BY <1>1, <1>3
<1>5. ASSUME NEW i \in 1..Len(lines)
      PROVE  /\ Replaced(lines, keys)[i].key = lines[i].key
             /\ Replaced(lines, keys)[i].value =
                   IF lines[i].key \in keys THEN Want ELSE lines[i].value
  <2>1. Replaced(lines, keys)[i] = IF lines[i].key \in keys
                                   THEN [lines[i] EXCEPT !.value = Want] ELSE lines[i]
    BY <1>1 DEF Replaced
  <2> QED
    BY <1>1, <1>2, <2>1
<1> QED
  BY <1>4, <1>5

LEMMA AddedIs ==
    ASSUME NEW lines \in Seq(FixLine), NEW keys \in SUBSET Settings
    PROVE  LET added == Added(lines, keys)
               without == keys \ DOMAIN Fix!Parsed(lines)
           IN  /\ added \in Seq(FixLine)
               /\ \A i \in 1..Len(added) : added[i].key \in without /\ added[i].value = Want
               /\ \A i, j \in 1..Len(added) : added[i].key = added[j].key => i = j
               /\ \A k \in without : \E i \in 1..Len(added) : added[i].key = k
<1> DEFINE without == keys \ DOMAIN Fix!Parsed(lines)
           missing == Fix!SetToSeq(without)
           n == Cardinality(without)
           added == Added(lines, keys)
<1>1. IsFiniteSet(without) /\ without \subseteq Keys
  <2>1. without \in SUBSET Settings
    OBVIOUS
  <2> QED
    BY <2>1, FixFacts, FS_Subset
<1>2. /\ n \in Nat /\ missing \in [1..n -> without]
      /\ \A i, j \in 1..n : missing[i] = missing[j] => i = j
      /\ \A x \in without : \E i \in 1..n : missing[i] = x
  <2> HIDE DEF without
  <2> QED
    BY <1>1, Enumerated
<1>3. added = [i \in DOMAIN missing |-> [key |-> missing[i], value |-> Want]]
  BY DEF Added
<1> HIDE DEF missing, without, added, n
<1>4. added = [i \in 1..n |-> [key |-> missing[i], value |-> Want]]
  BY <1>2, <1>3
<1>5. \A i \in 1..n : added[i] = [key |-> missing[i], value |-> Want] /\ missing[i] \in without
  BY <1>2, <1>4
<1>6. added \in [1..n -> FixLine]
  BY <1>1, <1>2, <1>4, FixFacts DEF FixLine
<1>7. added \in Seq(FixLine) /\ Len(added) = n
  BY <1>2, <1>6
<1>8. /\ \A i \in 1..Len(added) : added[i].key \in without /\ added[i].value = Want
      /\ \A i, j \in 1..Len(added) : added[i].key = added[j].key => i = j
      /\ \A k \in without : \E i \in 1..Len(added) : added[i].key = k
  BY <1>2, <1>5, <1>7
<1> QED
  BY <1>7, <1>8 DEF added, without

LEMMA PatchedIs ==
    ASSUME NEW lines \in Seq(FixLine), NEW keys \in SUBSET Settings
    PROVE  LET patched == Fix!Patched(lines, keys)
               added == Added(lines, keys)
               n == Len(lines)
           IN  /\ patched \in Seq(FixLine)
               /\ n \in Nat /\ Len(added) \in Nat /\ Len(patched) = n + Len(added)
               /\ \A i \in 1..n :
                     /\ patched[i].key = lines[i].key
                     /\ patched[i].value = IF lines[i].key \in keys THEN Want ELSE lines[i].value
               /\ \A j \in 1..Len(added) : patched[n + j] = added[j]
<1> DEFINE replaced == Replaced(lines, keys)
           added == Added(lines, keys)
           patched == Fix!Patched(lines, keys)
<1>1. patched = replaced \o added
  BY DEF Fix!Patched, Replaced, Added
<1>2. /\ replaced \in Seq(FixLine) /\ Len(replaced) = Len(lines)
      /\ \A i \in 1..Len(lines) :
            /\ replaced[i].key = lines[i].key
            /\ replaced[i].value = IF lines[i].key \in keys THEN Want ELSE lines[i].value
  BY ReplacedIs
<1>3. added \in Seq(FixLine)
  BY AddedIs
<1>4. Len(lines) \in Nat /\ Len(added) \in Nat
  BY <1>3, LenProperties
<1> HIDE DEF replaced, added, patched
<1>5. /\ patched \in Seq(FixLine) /\ Len(patched) = Len(replaced) + Len(added)
      /\ \A i \in 1..(Len(replaced) + Len(added)) :
            patched[i] = IF i <= Len(replaced) THEN replaced[i] ELSE added[i - Len(replaced)]
  BY <1>1, <1>2, <1>3, ConcatProperties
<1>6. ASSUME NEW i \in 1..Len(lines) PROVE patched[i] = replaced[i]
  <2>1. i \in 1..(Len(replaced) + Len(added)) /\ i <= Len(replaced)
    BY <1>2, <1>4
  <2> QED
    BY <1>5, <2>1
<1>7. ASSUME NEW j \in 1..Len(added) PROVE patched[Len(lines) + j] = added[j]
  <2>1. /\ Len(lines) + j \in 1..(Len(lines) + Len(added)) /\ ~ (Len(lines) + j <= Len(lines))
        /\ Len(lines) + j - Len(lines) = j
    BY <1>4
  <2> QED
    BY <1>2, <1>5, <2>1
<1> QED
  BY <1>2, <1>4, <1>5, <1>6, <1>7 DEF added, patched

\* The last line of a key that had one is where it was.
LEMMA LastStays ==
    ASSUME NEW lines \in Seq(FixLine), NEW keys \in SUBSET Settings, NEW k, NEW i,
           LastOf(lines, k, i)
    PROVE  LastOf(Fix!Patched(lines, keys), k, i)
<1> DEFINE patched == Fix!Patched(lines, keys)
           added == Added(lines, keys)
           n == Len(lines)
<1>1. /\ patched \in Seq(FixLine)
      /\ n \in Nat /\ Len(added) \in Nat /\ Len(patched) = n + Len(added)
      /\ \A j \in 1..n : patched[j].key = lines[j].key
      /\ \A j \in 1..Len(added) : patched[n + j] = added[j]
  BY PatchedIs
<1>2. DOMAIN patched = 1..(n + Len(added)) /\ DOMAIN lines = 1..n
  BY <1>1
<1>3. \A j \in 1..Len(added) : added[j].key \notin DOMAIN Fix!Parsed(lines)
  BY AddedIs
<1>4. i \in 1..n /\ lines[i].key = k /\ \A j \in 1..n : lines[j].key = k => j <= i
  BY <1>2 DEF LastOf
<1>5. k \in DOMAIN Fix!Parsed(lines)
  <2>1. DOMAIN Fix!Parsed(lines) = {lines[j].key : j \in DOMAIN lines}
    BY ParsedIs
  <2> QED
    BY <1>2, <1>4, <2>1
<1> HIDE DEF patched, added, n
<1>6. ASSUME NEW j \in 1..(n + Len(added)), patched[j].key = k PROVE j <= i
  <2>1. CASE j \in 1..n
    BY <1>1, <1>4, <1>6, <2>1
  <2>2. CASE j \notin 1..n
    <3>1. j - n \in 1..Len(added) /\ n + (j - n) = j
      BY <1>1, <2>2
    <3>2. patched[j] = added[j - n]
      BY <1>1, <3>1
    <3> QED
      BY <1>3, <1>5, <1>6, <3>1, <3>2
  <2> QED
    BY <2>1, <2>2
<1>7. i \in 1..(n + Len(added)) /\ patched[i].key = k
  BY <1>1, <1>4
<1> QED
  BY <1>2, <1>6, <1>7 DEF LastOf, patched

\* PatchIsRight of FixExit, for any lines.
LEMMA PatchedWell ==
    ASSUME NEW lines \in Seq(FixLine)
    PROVE  LET before == Fix!Parsed(lines)
               patched == Fix!Patched(lines, Fix!ToChange(lines))
               after == Fix!Parsed(patched)
           IN  /\ patched \in Seq(FixLine) /\ Wanted(patched)
               /\ DOMAIN after = DOMAIN before \union Settings
               /\ \A k \in DOMAIN before \ Settings : after[k] = before[k]
<1> DEFINE keys == Fix!ToChange(lines)
           patched == Fix!Patched(lines, keys)
           added == Added(lines, keys)
           before == Fix!Parsed(lines)
           after == Fix!Parsed(patched)
           n == Len(lines)
<1>0. keys \in SUBSET Settings
  BY DEF Fix!ToChange
<1> HIDE DEF keys
<1>1. /\ patched \in Seq(FixLine)
      /\ n \in Nat /\ Len(added) \in Nat /\ Len(patched) = n + Len(added)
      /\ \A i \in 1..n :
            /\ patched[i].key = lines[i].key
            /\ patched[i].value = IF lines[i].key \in keys THEN Want ELSE lines[i].value
      /\ \A j \in 1..Len(added) : patched[n + j] = added[j]
  BY <1>0, PatchedIs
<1>2. DOMAIN patched = 1..(n + Len(added)) /\ DOMAIN lines = 1..n
  BY <1>1
<1>3. /\ \A i \in 1..Len(added) : added[i].key \in keys \ DOMAIN before /\ added[i].value = Want
      /\ \A i, j \in 1..Len(added) : added[i].key = added[j].key => i = j
      /\ \A k \in keys \ DOMAIN before : \E i \in 1..Len(added) : added[i].key = k
  BY <1>0, AddedIs
<1>4. /\ DOMAIN before = {lines[i].key : i \in 1..n}
      /\ DOMAIN after = {patched[i].key : i \in 1..(n + Len(added))}
  BY <1>1, <1>2, ParsedIs
<1>5. \A k, i : LastOf(lines, k, i) => LastOf(patched, k, i)
  BY <1>0, LastStays
<1>6. /\ \A k, i : LastOf(lines, k, i) => before[k] = lines[i].value
      /\ \A k, i : LastOf(patched, k, i) => after[k] = patched[i].value
  BY <1>1, ParsedIs
<1>7. \A k \in DOMAIN before : \E i \in 1..n : lines[i].key = k /\ LastOf(lines, k, i)
  <2>1. ASSUME NEW k \in DOMAIN before
        PROVE  \E i \in 1..n : lines[i].key = k /\ LastOf(lines, k, i)
    <3>1. PICK m \in 1..n : lines[m].key = k
      BY <1>4, <2>1
    <3>2. PICK i \in DOMAIN lines : LastOf(lines, k, i)
      BY <1>2, <3>1, LastExists
    <3> QED
      BY <1>2, <3>2 DEF LastOf
  <2> QED
    BY <2>1
<1>8. \A k \in Settings \ keys : k \in DOMAIN before /\ before[k] = Want
  BY DEF Fix!ToChange, keys
<1> HIDE DEF patched, added, before, after, n
<1>9. ASSUME NEW k \in Settings
      PROVE  \E i \in DOMAIN patched : LastOf(patched, k, i) /\ patched[i].value = Want
  <2>1. CASE k \in DOMAIN before
    <3>1. PICK i \in 1..n : lines[i].key = k /\ LastOf(lines, k, i)
      BY <1>7, <2>1
    <3>2. patched[i].value = Want
      <4>1. CASE k \in keys
        BY <1>1, <3>1, <4>1
      <4>2. CASE k \notin keys
        BY <1>1, <1>6, <1>8, <3>1, <4>2
      <4> QED
        BY <4>1, <4>2
    <3>3. i \in DOMAIN patched
      BY <1>1, <1>2
    <3> QED
      BY <1>5, <3>1, <3>2, <3>3
  <2>2. CASE k \notin DOMAIN before
    <3>1. k \in keys
      BY <1>8, <2>2
    <3>2. PICK j \in 1..Len(added) : added[j].key = k
      BY <1>3, <2>2, <3>1
    <3>3. n + j \in DOMAIN patched /\ patched[n + j].key = k /\ patched[n + j].value = Want
      <4>1. n + j \in 1..(n + Len(added))
        BY <1>1
      <4> QED
        BY <1>1, <1>2, <1>3, <3>2, <4>1
    <3>4. ASSUME NEW i \in DOMAIN patched, patched[i].key = k PROVE i <= n + j
      <4>1. CASE i \in 1..n
        BY <1>1, <4>1
      <4>2. CASE i \notin 1..n
        <5>1. i - n \in 1..Len(added) /\ n + (i - n) = i
          BY <1>1, <1>2, <4>2
        <5>2. patched[i] = added[i - n]
          BY <1>1, <5>1
        <5>3. i - n = j
          BY <1>3, <3>2, <3>4, <5>1, <5>2
        <5> QED
          BY <1>1, <5>1, <5>3
      <4> QED
        BY <4>1, <4>2
    <3> QED
      BY <3>3, <3>4 DEF LastOf
  <2> QED
    BY <2>1, <2>2
<1>10. DOMAIN after = DOMAIN before \union Settings
  <2>1. ASSUME NEW k \in Settings PROVE k \in DOMAIN after
    BY <1>2, <1>4, <1>9 DEF LastOf
  <2>2. ASSUME NEW k \in DOMAIN before PROVE k \in DOMAIN after
    <3>1. PICK i \in 1..n : lines[i].key = k
      BY <1>7
    <3>2. i \in 1..(n + Len(added)) /\ patched[i].key = k
      BY <1>1, <3>1
    <3> QED
      BY <1>4, <3>2
  <2>3. ASSUME NEW i \in 1..(n + Len(added))
        PROVE  patched[i].key \in DOMAIN before \union Settings
    <3>1. CASE i \in 1..n
      BY <1>1, <1>4, <3>1
    <3>2. CASE i \notin 1..n
      <4>1. i - n \in 1..Len(added) /\ n + (i - n) = i
        BY <1>1, <3>2
      <4>2. patched[i] = added[i - n]
        BY <1>1, <4>1
      <4> QED
        BY <1>0, <1>3, <4>1, <4>2
    <3> QED
      BY <3>1, <3>2
  <2> QED
    BY <1>4, <2>1, <2>2, <2>3
<1>11. ASSUME NEW k \in DOMAIN before \ Settings PROVE after[k] = before[k]
  <2>1. PICK i \in 1..n : lines[i].key = k /\ LastOf(lines, k, i)
    BY <1>7
  <2>2. patched[i].value = lines[i].value
    BY <1>0, <1>1, <2>1
  <2> QED
    BY <1>5, <1>6, <2>1, <2>2
<1>12. Wanted(patched)
  BY <1>9 DEF Wanted
<1> QED
  BY <1>1, <1>10, <1>11, <1>12 DEF patched, keys, before, after

-----------------------------------------------------------------------------
(* What is written, copied or cut off is the lines that the player's file  *)
(* began with and, behind the second, a line of one of the settings each.  *)

Tidy(lines) ==
    /\ lines \in Seq(FixLine)
    /\ \A i \in 3..Len(lines) : lines[i].key \in Settings
    /\ \A i, j \in 3..Len(lines) : lines[i].key = lines[j].key => i = j

LEMMA TidyShort ==
    /\ Tidy(<<>>)
    /\ \A lines \in Fix!Lines(2) : Tidy(lines)
<1>1. Tidy(<<>>)
  BY DEF Tidy
<1>2. ASSUME NEW lines \in Fix!Lines(2) PROVE Tidy(lines)
  <2>1. PICK k \in 0..2 : lines \in [1..k -> FixLine]
    BY FixFacts DEF Fix!Lines
  <2>2. lines \in Seq(FixLine) /\ Len(lines) = k
    BY <2>1
  <2>3. \A i \in 3..Len(lines) : FALSE
    BY <2>1, <2>2
  <2> QED
    BY <2>2, <2>3 DEF Tidy
<1> QED
  BY <1>1, <1>2

LEMMA TidyFits ==
    ASSUME NEW lines, Tidy(lines)
    PROVE  lines \in Fix!Lines(2 + Fix!Cardinality(Settings))
<1> DEFINE n == Len(lines)
           c == Cardinality(Settings)
           f == [i \in 3..n |-> lines[i].key]
<1>1. /\ lines \in Seq(FixLine) /\ n \in Nat /\ lines \in [1..n -> FixLine]
      /\ \A i \in 3..n : lines[i].key \in Settings
      /\ \A i, j \in 3..n : lines[i].key = lines[j].key => i = j
  BY LenProperties DEF Tidy
<1>2. c \in Nat /\ IsFiniteSet(Settings)
  BY FixFacts, FS_CardinalityType
<1>3. f \in Injection(3..n, Settings)
  BY <1>1 DEF Injection, IsInjective
<1>4. Cardinality(3..n) <= c
  <2> HIDE DEF f, n, c
  <2>1. Cardinality(3..n) <= Cardinality(Settings)
    BY <1>2, <1>3, FS_Injection
  <2> QED
    BY <2>1 DEF c
<1>5. Cardinality(3..n) = IF 3 > n THEN 0 ELSE n - 3 + 1
  BY <1>1, FS_Interval
<1>6. n \in 0..(2 + c)
  <2> HIDE DEF n, c
  <2>1. CASE 3 > n
    BY <1>1, <1>2, <2>1
  <2>2. CASE ~ (3 > n)
    BY <1>1, <1>2, <1>4, <1>5, <2>2
  <2> QED
    BY <2>1, <2>2
<1>7. Fix!Cardinality(Settings) = c
  BY DEF Cardinality, Fix!Cardinality
<1> HIDE DEF n, c
<1> QED
  BY <1>1, <1>6, <1>7, FixFacts DEF Fix!Lines

LEMMA TidyPrefix ==
    ASSUME NEW lines, Tidy(lines), NEW n \in 0..Len(lines)
    PROVE  Tidy(SubSeq(lines, 1, n))
<1> DEFINE cutOff == SubSeq(lines, 1, n)
<1>1. /\ lines \in Seq(FixLine) /\ Len(lines) \in Nat
      /\ \A i \in 3..Len(lines) : lines[i].key \in Settings
      /\ \A i, j \in 3..Len(lines) : lines[i].key = lines[j].key => i = j
  BY LenProperties DEF Tidy
<1>2. /\ cutOff \in Seq(FixLine) /\ Len(cutOff) = n
      /\ \A i \in 1..n : cutOff[i] = lines[i]
  BY <1>1
<1> HIDE DEF cutOff
<1>3. \A i \in 3..n : i \in 3..Len(lines) /\ i \in 1..n
  BY <1>1
<1> QED
  BY <1>1, <1>2, <1>3 DEF Tidy, cutOff

LEMMA TidyChanged ==
    ASSUME NEW lines, Tidy(lines), NEW m \in DOMAIN lines, NEW v \in Values
    PROVE  LET altered == [lines EXCEPT ![m].value = v]
           IN  /\ Tidy(altered)
               /\ Wanted(lines) /\ (lines[m].key \in Settings => v = Want) => Wanted(altered)
<1> DEFINE altered == [lines EXCEPT ![m].value = v]
           n == Len(lines)
<1>1. /\ lines \in Seq(FixLine) /\ n \in Nat /\ DOMAIN lines = 1..n
      /\ \A i \in 1..n : lines[i] \in FixLine
      /\ \A i \in 3..n : lines[i].key \in Settings
      /\ \A i, j \in 3..n : lines[i].key = lines[j].key => i = j
  BY LenProperties DEF Tidy
<1>2. LET l == [lines[m] EXCEPT !.value = v]
      IN  l \in FixLine /\ l.key = lines[m].key /\ l.value = v
  BY <1>1 DEF FixLine
<1>3. /\ altered \in Seq(FixLine) /\ Len(altered) = n
      /\ \A i \in 1..n : altered[i] = IF i = m THEN [lines[m] EXCEPT !.value = v] ELSE lines[i]
  BY <1>1, <1>2, ExceptSeq
<1>4. \A i \in 1..n : /\ altered[i].key = lines[i].key
                      /\ altered[i].value = IF i = m THEN v ELSE lines[i].value
  BY <1>2, <1>3
<1>5. DOMAIN altered = 1..n
  BY <1>1, <1>3
<1> HIDE DEF altered, n
<1>6. Tidy(altered)
  <2>1. \A i \in 3..n : i \in 1..n
    BY <1>1
  <2> QED
    BY <1>1, <1>3, <1>4, <2>1 DEF Tidy
<1>7. ASSUME Wanted(lines), lines[m].key \in Settings => v = Want, NEW k \in Settings
      PROVE  \E i \in DOMAIN altered : LastOf(altered, k, i) /\ altered[i].value = Want
  <2>1. PICK i \in 1..n : LastOf(lines, k, i) /\ lines[i].value = Want
    BY <1>1, <1>7 DEF Wanted
  <2>2. LastOf(altered, k, i)
    BY <1>1, <1>4, <1>5, <2>1 DEF LastOf
  <2>3. altered[i].value = Want
    BY <1>4, <1>7, <2>1 DEF LastOf
  <2> QED
    BY <1>5, <2>2, <2>3
<1> QED
  BY <1>6, <1>7 DEF Wanted, altered

LEMMA TidyPatched ==
    ASSUME NEW lines, Tidy(lines)
    PROVE  Tidy(Fix!Patched(lines, Fix!ToChange(lines)))
<1> DEFINE keys == Fix!ToChange(lines)
           patched == Fix!Patched(lines, keys)
           added == Added(lines, keys)
           n == Len(lines)
<1>0. keys \in SUBSET Settings
  BY DEF Fix!ToChange
<1> HIDE DEF keys
<1>1. /\ lines \in Seq(FixLine) /\ n \in Nat
      /\ \A i \in 3..n : lines[i].key \in Settings
      /\ \A i, j \in 3..n : lines[i].key = lines[j].key => i = j
  BY LenProperties DEF Tidy
<1>2. /\ patched \in Seq(FixLine) /\ Len(added) \in Nat /\ Len(patched) = n + Len(added)
      /\ \A i \in 1..n : patched[i].key = lines[i].key
      /\ \A j \in 1..Len(added) : patched[n + j] = added[j]
  BY <1>0, <1>1, PatchedIs
<1>3. /\ \A i \in 1..Len(added) : added[i].key \in keys \ DOMAIN Fix!Parsed(lines)
      /\ \A i, j \in 1..Len(added) : added[i].key = added[j].key => i = j
  BY <1>0, <1>1, AddedIs
<1>4. \A i \in 1..n : lines[i].key \in DOMAIN Fix!Parsed(lines)
  <2>1. DOMAIN Fix!Parsed(lines) = {lines[i].key : i \in DOMAIN lines}
    BY <1>1, ParsedIs
  <2>2. DOMAIN lines = 1..n
    BY <1>1
  <2> QED
    BY <2>1, <2>2
<1> HIDE DEF patched, added, n
<1>5. ASSUME NEW i \in 3..(n + Len(added)), i \notin 1..n
      PROVE  i - n \in 1..Len(added) /\ patched[i] = added[i - n]
  <2>1. i - n \in 1..Len(added) /\ n + (i - n) = i
    BY <1>1, <1>2, <1>5
  <2> QED
    BY <1>2, <2>1
<1>6. \A i \in 3..(n + Len(added)) : i \in 1..n => i \in 3..n
  BY <1>1, <1>2
<1>7. ASSUME NEW i \in 3..(n + Len(added)) PROVE patched[i].key \in Settings
  <2>1. CASE i \in 1..n
    BY <1>1, <1>2, <1>6, <2>1
  <2>2. CASE i \notin 1..n
    BY <1>0, <1>3, <1>5, <2>2
  <2> QED
    BY <2>1, <2>2
<1>8. ASSUME NEW i \in 3..(n + Len(added)), NEW j \in 3..(n + Len(added)),
             patched[i].key = patched[j].key
      PROVE  i = j
  <2>1. CASE i \in 1..n /\ j \in 1..n
    BY <1>1, <1>2, <1>6, <1>8, <2>1
  <2>2. CASE i \in 1..n /\ j \notin 1..n
    BY <1>2, <1>3, <1>4, <1>5, <1>8, <2>2
  <2>3. CASE i \notin 1..n /\ j \in 1..n
    BY <1>2, <1>3, <1>4, <1>5, <1>8, <2>3
  <2>4. CASE i \notin 1..n /\ j \notin 1..n
    <3>1. i - n = j - n
      BY <1>3, <1>5, <1>8, <2>4
    <3> QED
      BY <1>1, <3>1
  <2> QED
    BY <2>1, <2>2, <2>3, <2>4
<1> QED
  BY <1>2, <1>7, <1>8 DEF Tidy, patched, keys

-----------------------------------------------------------------------------
(* The fix, the restore, RetroArch and the player                          *)

File(f) == f = [lines |-> f.lines, whole |-> f.whole] /\ f.whole \in BOOLEAN /\ Tidy(f.lines)

FixTypes ==
    /\ File(cfg)
    /\ DOMAIN backups \subseteq 1..MaxStamp /\ \A s \in DOMAIN backups : File(backups[s])
    /\ now \in 1..MaxStamp
    /\ fixPc \in {"idle", "backup", "write", "restore"}
    /\ Tidy(held) /\ Tidy(fixMemory)
    /\ running \in BOOLEAN /\ fixed \in BOOLEAN /\ crossed \in BOOLEAN
    /\ ~running => fixMemory = <<>>
    /\ fixChanges \in 0..MaxChanges /\ fixFaults \in 0..MaxMishaps

\* What a fix achieved is in the file and in what RetroArch will write.
StickInv == fixed => Wanted(cfg.lines) /\ (running => Wanted(fixMemory))

\* A restore undoes a fix, and has something to restore.
RestoreInv == fixPc = "restore" => ~fixed /\ DOMAIN backups # {}

\* When the file is replaced, there is a copy of it, unless RetroArch wrote it since.
CopyInv == fixPc = "write" => crossed \/ \E s \in DOMAIN backups : backups[s] = cfg

FixInv == FixTypes /\ StickInv /\ RestoreInv /\ CopyInv

LEMMA CountsUp ==
    ASSUME NEW n \in Nat, NEW c \in 0..n, c < n
    PROVE  c + 1 \in 0..n
  OBVIOUS

LEMMA WholeFile ==
    ASSUME NEW lines, Tidy(lines)
    PROVE  File(Fix!Whole(lines)) /\ Fix!Whole(lines).lines = lines
  BY DEF Fix!Whole, File

LEMMA CutFile ==
    ASSUME NEW f, Tidy(f), NEW c \in Fix!Cut(f)
    PROVE  File(c)
<1>1. PICK n \in 0..Len(f) : c = [lines |-> SubSeq(f, 1, n), whole |-> FALSE]
  BY DEF Fix!Cut
<1>2. Tidy(SubSeq(f, 1, n))
  BY TidyPrefix
<1> QED
  BY <1>1, <1>2 DEF File

LEMMA LatestIs ==
    ASSUME FixTypes, DOMAIN backups # {}
    PROVE  Fix!Latest \in DOMAIN backups /\ File(backups[Fix!Latest])
<1>1. DOMAIN backups \in SUBSET (0..MaxStamp) /\ MaxStamp \in Nat
  BY FixFacts DEF FixTypes
<1>2. \E s \in DOMAIN backups : \A t \in DOMAIN backups : t <= s
  BY <1>1, Greatest
<1>3. Fix!Latest \in DOMAIN backups
  BY <1>2 DEF Fix!Latest
<1> QED
  BY <1>3 DEF FixTypes

LEMMA BackupTaken ==
    ASSUME FixTypes, NEW f, File(f), Fix!SetBackup(f)
    PROVE  /\ DOMAIN backups' \subseteq 1..MaxStamp /\ \A s \in DOMAIN backups' : File(backups'[s])
           /\ \E s \in DOMAIN backups' : backups'[s] = f
           /\ DOMAIN backups' # {}
<1>1. /\ backups' = [s \in DOMAIN backups \union {now} |-> IF s = now THEN f ELSE backups[s]]
      /\ DOMAIN backups \subseteq 1..MaxStamp /\ now \in 1..MaxStamp
      /\ \A s \in DOMAIN backups : File(backups[s])
  BY DEF Fix!SetBackup, FixTypes
<1>2. DOMAIN backups' = DOMAIN backups \union {now}
  BY <1>1
<1>3. \A s \in DOMAIN backups' : backups'[s] = IF s = now THEN f ELSE backups[s]
  BY <1>1
<1> QED
  BY <1>1, <1>2, <1>3

LEMMA FixStep ==
    ASSUME FixInv, Fix!Next
    PROVE  FixInv'
<1>0. FixTypes /\ StickInv /\ RestoreInv /\ CopyInv
  BY DEF FixInv
<1>1. CASE Fix!Apply
  <2>1. /\ fixPc = "idle" /\ now' \in 1..MaxStamp
        /\ UNCHANGED <<cfg, backups, running, fixMemory, fixed, crossed, fixChanges, fixFaults>>
        /\ \/ UNCHANGED <<fixPc, held>>
           \/ fixPc' = "backup" /\ held' = cfg.lines
    BY <1>1 DEF Fix!Apply, Fix!Tick
  <2>2. fixPc' \in {"idle", "backup"} /\ Tidy(held')
    BY <1>0, <2>1 DEF FixTypes, File
  <2>3. FixTypes'
    BY <1>0, <2>1, <2>2 DEF FixTypes, File
  <2>4. StickInv' /\ RestoreInv' /\ CopyInv'
    BY <1>0, <2>1, <2>2 DEF StickInv, RestoreInv, CopyInv, Wanted, LastOf
  <2> QED
    BY <2>3, <2>4 DEF FixInv
<1>2. CASE Fix!MakeBackup
  <2>1. /\ Fix!SetBackup(cfg) /\ crossed' = FALSE /\ fixPc' = "write"
        /\ UNCHANGED <<cfg, now, held, running, fixMemory, fixed, fixChanges, fixFaults>>
    BY <1>2 DEF Fix!MakeBackup, Fix!Copied
  <2>2. /\ DOMAIN backups' \subseteq 1..MaxStamp /\ \A s \in DOMAIN backups' : File(backups'[s])
        /\ \E s \in DOMAIN backups' : backups'[s] = cfg
    BY <1>0, <2>1, BackupTaken DEF FixTypes
  <2>3. FixTypes'
    BY <1>0, <2>1, <2>2 DEF FixTypes, File
  <2>4. StickInv' /\ RestoreInv' /\ CopyInv'
    BY <1>0, <2>1, <2>2 DEF StickInv, RestoreInv, CopyInv, Wanted, LastOf
  <2> QED
    BY <2>3, <2>4 DEF FixInv
<1>3. CASE Fix!AtomicWrite
  <2> DEFINE lines == Fix!Patched(held, Fix!ToChange(held))
  <2>1. /\ cfg' = Fix!Whole(lines) /\ fixed' = ~running
        /\ fixPc' = "idle" /\ held' = <<>>
        /\ UNCHANGED <<backups, now, running, fixMemory, crossed, fixChanges, fixFaults>>
    BY <1>3 DEF Fix!AtomicWrite
  <2>2. Tidy(held) /\ held \in Seq(FixLine)
    BY <1>0 DEF FixTypes, Tidy
  <2>3. Tidy(lines) /\ Wanted(lines)
    BY <2>2, TidyPatched, PatchedWell
  <2> HIDE DEF lines
  <2>4. File(cfg') /\ cfg'.lines = lines
    BY <2>1, <2>3, WholeFile
  <2>5. FixTypes'
    BY <1>0, <2>1, <2>4, TidyShort DEF FixTypes
  <2>6. StickInv'
    <3>1. Wanted(cfg'.lines)
      BY <2>3, <2>4
    <3>2. fixed' => ~running'
      BY <1>0, <2>1 DEF FixTypes
    <3> QED
      BY <3>1, <3>2 DEF StickInv
  <2>7. RestoreInv' /\ CopyInv'
    BY <2>1 DEF RestoreInv, CopyInv
  <2> QED
    BY <2>5, <2>6, <2>7 DEF FixInv
<1>4. CASE Fix!Restore
  <2>1. /\ cfg' = [lines |-> <<>>, whole |-> FALSE] /\ fixed' = FALSE
        /\ fixPc' = "restore" /\ DOMAIN backups # {}
        /\ UNCHANGED <<backups, now, held, running, fixMemory, crossed, fixChanges, fixFaults>>
    BY <1>4 DEF Fix!Restore
  <2>2. File(cfg')
    BY <2>1, TidyShort DEF File
  <2>3. FixTypes'
    BY <1>0, <2>1, <2>2 DEF FixTypes
  <2>4. StickInv' /\ RestoreInv' /\ CopyInv'
    BY <2>1 DEF StickInv, RestoreInv, CopyInv
  <2> QED
    BY <2>3, <2>4 DEF FixInv
<1>5. CASE Fix!CopyBack
  <2>1. /\ fixPc = "restore" /\ cfg' = backups[Fix!Latest] /\ fixed' = FALSE
        /\ fixPc' = "idle"
        /\ UNCHANGED <<backups, now, held, running, fixMemory, crossed, fixChanges, fixFaults>>
    BY <1>5 DEF Fix!CopyBack
  <2>2. File(cfg')
    BY <1>0, <2>1, LatestIs DEF RestoreInv
  <2>3. FixTypes'
    BY <1>0, <2>1, <2>2 DEF FixTypes
  <2>4. StickInv' /\ RestoreInv' /\ CopyInv'
    BY <2>1 DEF StickInv, RestoreInv, CopyInv
  <2> QED
    BY <2>3, <2>4 DEF FixInv
<1>6. CASE Fix!Kill
  <2>1. /\ fixPc' = "idle" /\ held' = <<>> /\ fixFaults < MaxMishaps /\ fixFaults' = fixFaults + 1
        /\ UNCHANGED <<now, running, fixMemory, fixed, crossed, fixChanges>>
    BY <1>6 DEF Fix!Kill
  <2>2. fixFaults' \in 0..MaxMishaps
    BY <1>0, <2>1, CountsUp, FixFacts DEF FixTypes
  <2>3. /\ File(cfg') /\ (fixed => cfg' = cfg)
        /\ DOMAIN backups' \subseteq 1..MaxStamp /\ \A s \in DOMAIN backups' : File(backups'[s])
    <3>1. CASE fixPc = "backup"
      <4>1. PICK f \in Fix!Cut(cfg.lines) : Fix!SetBackup(f)
        BY <1>6, <3>1 DEF Fix!Kill
      <4>2. UNCHANGED cfg
        BY <1>6, <3>1 DEF Fix!Kill
      <4>3. File(f)
        BY <1>0, CutFile DEF FixTypes, File
      <4> QED
        BY <1>0, <4>1, <4>2, <4>3, BackupTaken DEF FixTypes
    <3>2. CASE fixPc = "restore"
      <4>1. cfg' \in Fix!Cut(backups[Fix!Latest].lines) /\ UNCHANGED backups
        BY <1>6, <3>2 DEF Fix!Kill
      <4>2. Tidy(backups[Fix!Latest].lines) /\ ~fixed
        BY <1>0, <3>2, LatestIs DEF RestoreInv, File
      <4>3. File(cfg')
        BY <4>1, <4>2, CutFile
      <4> QED
        BY <1>0, <4>1, <4>2, <4>3 DEF FixTypes
    <3>3. CASE fixPc \notin {"backup", "restore"}
      <4>1. UNCHANGED <<cfg, backups>>
        BY <1>6, <3>3 DEF Fix!Kill
      <4> QED
        BY <1>0, <4>1 DEF FixTypes
    <3> QED
      BY <3>1, <3>2, <3>3
  <2>4. FixTypes'
    BY <1>0, <2>1, <2>2, <2>3, TidyShort DEF FixTypes
  <2>5. StickInv'
    <3>1. ASSUME fixed' PROVE Wanted(cfg'.lines) /\ (running' => Wanted(fixMemory'))
      <4>1. fixed /\ cfg' = cfg /\ UNCHANGED <<running, fixMemory>>
        BY <2>1, <2>3, <3>1
      <4> QED
        BY <1>0, <4>1 DEF StickInv
    <3> QED
      BY <3>1 DEF StickInv
  <2>6. RestoreInv' /\ CopyInv'
    BY <2>1 DEF RestoreInv, CopyInv
  <2> QED
    BY <2>4, <2>5, <2>6 DEF FixInv
<1>7. CASE Fix!Launch
  <2>1. /\ running' = TRUE /\ fixMemory' = cfg.lines
        /\ UNCHANGED <<cfg, backups, now, fixPc, held, fixed, crossed, fixChanges, fixFaults>>
    BY <1>7 DEF Fix!Launch
  <2>2. FixTypes'
    BY <1>0, <2>1 DEF FixTypes, File
  <2>3. StickInv'
    BY <1>0, <2>1 DEF StickInv
  <2>4. RestoreInv' /\ CopyInv'
    BY <1>0, <2>1 DEF RestoreInv, CopyInv
  <2> QED
    BY <2>2, <2>3, <2>4 DEF FixInv
<1>8. CASE Fix!Menu
  <2>1. PICK i \in DOMAIN fixMemory, v \in Values :
          /\ fixMemory' = [fixMemory EXCEPT ![i].value = v]
          /\ fixed' = (fixed /\ (fixMemory[i].key \in Settings => v = Want))
    BY <1>8 DEF Fix!Menu
  <2>2. /\ running /\ fixChanges < MaxChanges /\ fixChanges' = fixChanges + 1
        /\ UNCHANGED <<cfg, backups, now, fixPc, held, running, crossed, fixFaults>>
    BY <1>8 DEF Fix!Menu
  <2>3. /\ Tidy(fixMemory')
        /\ Wanted(fixMemory) /\ (fixMemory[i].key \in Settings => v = Want) => Wanted(fixMemory')
    BY <1>0, <2>1, TidyChanged DEF FixTypes
  <2>4. fixChanges' \in 0..MaxChanges /\ fixed' \in BOOLEAN
    BY <1>0, <2>1, <2>2, CountsUp, FixFacts DEF FixTypes
  <2>5. FixTypes'
    BY <1>0, <2>2, <2>3, <2>4 DEF FixTypes
  <2>6. StickInv'
    <3>1. fixed' => fixed /\ (fixMemory[i].key \in Settings => v = Want)
      BY <2>1
    <3>2. fixed' => Wanted(cfg.lines) /\ Wanted(fixMemory')
      BY <1>0, <2>2, <2>3, <3>1 DEF StickInv
    <3> QED
      BY <2>2, <3>2 DEF StickInv
  <2>7. RestoreInv' /\ CopyInv'
    <3>1. fixed' => fixed
      BY <2>1
    <3> QED
      BY <1>0, <2>2, <3>1 DEF RestoreInv, CopyInv
  <2> QED
    BY <2>5, <2>6, <2>7 DEF FixInv
<1>9. CASE Fix!Quit
  <2>1. /\ running /\ cfg' = Fix!Whole(fixMemory) /\ running' = FALSE /\ fixMemory' = <<>>
        /\ crossed' = TRUE
        /\ UNCHANGED <<backups, now, fixPc, held, fixed, fixChanges, fixFaults>>
    BY <1>9 DEF Fix!Quit
  <2>2. File(cfg') /\ cfg'.lines = fixMemory
    BY <1>0, <2>1, WholeFile DEF FixTypes
  <2>3. FixTypes'
    BY <1>0, <2>1, <2>2, TidyShort DEF FixTypes
  <2>4. StickInv'
    BY <1>0, <2>1, <2>2 DEF StickInv
  <2>5. RestoreInv' /\ CopyInv'
    BY <1>0, <2>1 DEF RestoreInv, CopyInv
  <2> QED
    BY <2>3, <2>4, <2>5 DEF FixInv
<1> QED
  BY <1>1, <1>2, <1>3, <1>4, <1>5, <1>6, <1>7, <1>8, <1>9 DEF Fix!Next

LEMMA FixStart == Fix!Init => FixInv
<1> SUFFICES ASSUME Fix!Init PROVE FixInv
  OBVIOUS
<1>1. PICK lines \in Fix!Lines(2) : cfg = Fix!Whole(lines)
  BY DEF Fix!Init
<1>2. File(cfg)
  BY <1>1, TidyShort, WholeFile
<1>3. /\ 1 \in 1..MaxStamp /\ 0 \in 0..MaxChanges /\ 0 \in 0..MaxMishaps
      /\ DOMAIN <<>> = {}
  <2>1. MaxStamp \in Nat /\ MaxStamp # 0 /\ MaxChanges \in Nat /\ MaxMishaps \in Nat
    BY FixFacts
  <2> QED
    BY <2>1
<1>4. /\ backups = <<>> /\ now = 1 /\ fixPc = "idle" /\ held = <<>>
      /\ running = FALSE /\ fixMemory = <<>> /\ fixed = FALSE /\ crossed = FALSE
      /\ fixChanges = 0 /\ fixFaults = 0
  BY DEF Fix!Init
<1>5. FixTypes
  BY <1>2, <1>3, <1>4, TidyShort DEF FixTypes
<1> QED
  BY <1>4, <1>5 DEF FixInv, StickInv, RestoreInv, CopyInv

LEMMA FixAgrees ==
    FixInv => Fix!TypeOK /\ Fix!PatchIsRight /\ Fix!FixSticks /\ Fix!BackedUp
<1> SUFFICES ASSUME FixInv
             PROVE  Fix!TypeOK /\ Fix!PatchIsRight /\ Fix!FixSticks /\ Fix!BackedUp
  OBVIOUS
<1>0. FixTypes /\ StickInv /\ CopyInv /\ Tidy(cfg.lines) /\ cfg.lines \in Seq(FixLine)
  BY DEF FixInv, FixTypes, File, Tidy
<1>1. Fix!TypeOK
  BY <1>0, TidyFits DEF FixTypes, File, Fix!TypeOK
<1>2. Fix!PatchIsRight
  <2> DEFINE lines == Fix!Patched(cfg.lines, Fix!ToChange(cfg.lines))
  <2>1. /\ lines \in Seq(FixLine) /\ Wanted(lines)
        /\ DOMAIN Fix!Parsed(lines) = DOMAIN Fix!Parsed(cfg.lines) \union Settings
        /\ \A k \in DOMAIN Fix!Parsed(cfg.lines) \ Settings :
              Fix!Parsed(lines)[k] = Fix!Parsed(cfg.lines)[k]
    BY <1>0, PatchedWell
  <2>2. Fix!ToChange(lines) = {}
    <3> HIDE DEF lines
    <3> QED
      BY <2>1, WantedIs
  <2> QED
    BY <2>1, <2>2, Zenon DEF Fix!PatchIsRight
<1>3. Fix!FixSticks
  BY <1>0, WantedIs DEF StickInv, Fix!FixSticks
<1>4. Fix!BackedUp
  BY <1>0 DEF CopyInv, Fix!BackedUp, Fix!AtomicWrite
<1> QED
  BY <1>1, <1>2, <1>3, <1>4


-----------------------------------------------------------------------------
(* The features of a console (features.rs)                                 *)

Statuses == {"enabled", "locked", "planned", "disabled"}

FlagTypes ==
    /\ flagStored \in [Features -> Texts \union {"unset"}]
    /\ flags \in [Features -> Statuses \union {"unset"}]
    /\ flagFetch \in [at : {"idle", "rows", "done"}, todo : SUBSET Features,
                      manifest : [Features -> Statuses \union {"unset"}]]

\* What is not to do is done, and of the answer that the running fetch got.
CopiedInv ==
    flagFetch.at # "idle" => \A f \in Features :
        flagFetch.manifest[f] \in Statuses
        /\ (f \notin flagFetch.todo => flags[f] = flagFetch.manifest[f])

FetchDoneInv == flagFetch.at = "done" => flagFetch.todo = {}

FlagInv == FlagTypes /\ CopiedInv /\ FetchDoneInv

LEMMA ServedIs ==
    ASSUME FlagTypes, NEW f \in Features
    PROVE  Flag!Served(f) \in Statuses
  BY Assumptions DEF Flag!FlagAssumption, Flag!Served, Flag!Status, Statuses

LEMMA FlagStep ==
    ASSUME FlagInv, Flag!Next
    PROVE  FlagInv'
<1> USE DEF FlagInv, FlagTypes, CopiedInv, FetchDoneInv
<1>1. CASE Flag!Set
  <2>1. UNCHANGED <<flagFetch, flags>>
    BY <1>1 DEF Flag!Set
  <2>2. PICK ks \in SUBSET Features : \E v \in [ks -> Texts] :
          flagStored' = [f \in Features |-> IF f \in ks THEN v[f] ELSE flagStored[f]]
    BY <1>1 DEF Flag!Set
  <2>3. flagStored' \in [Features -> Texts \union {"unset"}]
    BY <2>2
  <2> QED
    BY <2>1, <2>3
<1>2. CASE Flag!Manifest
  <2>1. /\ flagFetch' = [at |-> "rows", todo |-> Features,
                         manifest |-> [f \in Features |-> Flag!Served(f)]]
        /\ UNCHANGED <<flagStored, flags>>
    BY <1>2 DEF Flag!Manifest
  <2>2. \A f \in Features : Flag!Served(f) \in Statuses
    BY ServedIs
  <2>3. [f \in Features |-> Flag!Served(f)] \in [Features -> Statuses]
    BY <2>2
  <2> QED
    BY <2>1, <2>2, <2>3
<1>3. ASSUME NEW f \in Features, Flag!Row(f)
      PROVE  FlagInv'
  <2>1. /\ flagFetch.at = "rows" /\ f \in flagFetch.todo
        /\ flags' = [flags EXCEPT ![f] = flagFetch.manifest[f]]
        /\ flagFetch' = [flagFetch EXCEPT !.todo = flagFetch.todo \ {f}]
        /\ UNCHANGED flagStored
    BY <1>3 DEF Flag!Row, Flag!Upserted
  <2> QED
    BY <2>1
<1>4. CASE Flag!Done
  BY <1>4 DEF Flag!Done
<1>5. CASE Flag!Cut
  <2>1. /\ flagFetch' = [at |-> "idle", todo |-> {}, manifest |-> [f \in Features |-> "unset"]]
        /\ UNCHANGED <<flagStored, flags>>
    BY <1>5 DEF Flag!Cut, Flag!Idle, Flag!Unset
  <2> QED
    BY <2>1
<1> QED
  BY <1>1, <1>2, <1>3, <1>4, <1>5 DEF Flag!Next

LEMMA FlagStart == Flag!Init => FlagInv
  BY DEF Flag!Init, Flag!Idle, Flag!Unset, FlagInv, FlagTypes, CopiedInv, FetchDoneInv

LEMMA FlagAgrees == FlagInv => Flag!TypeOK /\ Flag!FetchedIsServed
<1> SUFFICES ASSUME FlagInv PROVE Flag!TypeOK /\ Flag!FetchedIsServed
  OBVIOUS
<1>1. Flag!TypeOK
  BY DEF FlagInv, FlagTypes, Flag!TypeOK, Flag!Unset, Statuses
<1>2. Flag!FetchedIsServed
  BY DEF FlagInv, FlagTypes, CopiedInv, FetchDoneInv, Flag!FetchedIsServed
<1> QED
  BY <1>1, <1>2

-----------------------------------------------------------------------------
(* The configuration of the agent (cfg.rs)                                 *)

Addressed == Addresses \union {"", "auto", "http://127.0.0.1:8080"}
Configured == [state : {"missing", "torn", "whole"}, id : 0..ids,
               name : Names \union {"", "R36S"}, url : Addressed]

ConfigTypes ==
    /\ ids \in Nat /\ identity \in 0..ids
    /\ configFile \in Configured /\ configAgent \in Configured
    /\ init \in [at : {"idle", "built", "write"}, config : Configured,
                 asked : Addresses \union {"", "auto"}]
    /\ address \in Addresses /\ override \in {""} \union Addresses

\* Once there is an id the file has it, or is torn, and no init makes another; before that
\* there is no agent.
IdentityInv ==
    /\ configFile.state = "whole" => configFile.id = identity /\ identity # 0
    /\ configFile.state = "missing" => identity = 0
    /\ configAgent # Config!Off => configAgent.id = identity /\ identity # 0
    /\ init.at # "idle" => init.config.state = "whole" /\ init.config.id # 0
    /\ init.at # "idle" /\ identity # 0 => init.config.id = identity

ConfigInv == ConfigTypes /\ IdentityInv

LEMMA ResolvedIs ==
    ASSUME ConfigTypes, NEW u \in Addressed
    PROVE  Config!Resolved(u) \subseteq Addressed
  BY DEF ConfigTypes, Config!Resolved, Addressed

LEMMA Successor ==
    ASSUME NEW n \in Nat
    PROVE  n + 1 \in Nat /\ n <= n + 1 /\ n <= n /\ n + 1 # 0 /\ n + 1 \in 0..(n + 1)
  OBVIOUS

LEMMA Wider ==
    ASSUME NEW m \in Nat, NEW n \in Nat, m <= n, NEW i \in 0..m
    PROVE  i \in 0..n
  OBVIOUS

LEMMA MissingIs ==
    ASSUME ids \in Nat
    PROVE  /\ Config!Missing \in Configured /\ Config!Missing.state = "missing"
           /\ Config!CutOff \in Configured /\ Config!CutOff.state = "torn"
<1>1. 0 \in 0..ids
  OBVIOUS
<1>2. Config!Missing = [state |-> "missing", id |-> 0, name |-> "", url |-> ""]
  BY DEF Config!Missing
<1>3. Config!Missing \in Configured /\ Config!Missing.state = "missing"
  BY <1>1, <1>2 DEF Configured, Addressed
<1>4. \A c \in Configured : LET t == [c EXCEPT !.state = "torn"]
                             IN  t \in Configured /\ t.state = "torn"
  BY DEF Configured
<1> QED
  BY <1>3, <1>4 DEF Config!CutOff

LEMMA SameConfigs ==
    ASSUME UNCHANGED ids
    PROVE  Configured' = Configured
  BY DEF Configured, Addressed

LEMMA Rewritten ==
    ASSUME NEW c \in Configured, NEW u \in Addressed
    PROVE  /\ [c EXCEPT !.url = u] \in Configured
           /\ [c EXCEPT !.url = u].state = c.state /\ [c EXCEPT !.url = u].id = c.id
  BY DEF Configured

\* cmd_init begins with what the file says, or with an id of its own if there is no file.
LEMMA ConfigRead ==
    ASSUME ConfigInv, Config!ReadConfig
    PROVE  ConfigInv'
<1>0. ConfigTypes /\ IdentityInv
  BY DEF ConfigInv
<1>1. PICK b \in Config!Base(configFile), u \in Addresses \union {"", "auto"}, n \in Names \union {""} :
          init' = [at |-> "built", asked |-> u,
                   config |-> [b EXCEPT !.url = IF u = "" THEN b.url ELSE u,
                                        !.name = IF n = "" THEN b.name ELSE n]]
  BY DEF Config!ReadConfig
<1>2. /\ ids' = IF configFile.state = "missing" THEN ids + 1 ELSE ids
      /\ UNCHANGED <<configFile, configAgent, address, override, identity>>
      /\ init.at = "idle"
  BY DEF Config!ReadConfig, Config!Creates
<1>3. ids \in Nat /\ ids' \in Nat /\ ids <= ids' /\ identity \in 0..ids'
  <2>1. ids \in Nat /\ identity \in 0..ids
    BY <1>0 DEF ConfigTypes
  <2>2. ids' = ids + 1 \/ ids' = ids
    BY <1>2
  <2>3. ids' \in Nat /\ ids <= ids'
    BY <2>1, <2>2, Successor, Zenon
  <2> QED
    BY <2>1, <2>3, Wider, Zenon
<1>4. Configured \subseteq Configured'
  <2>1. \A i \in 0..ids : i \in 0..ids'
    BY <1>3, Wider, Zenon
  <2> QED
    BY <2>1 DEF Configured, Addressed
<1>5. /\ b \in Configured' /\ b.state = "whole" /\ b.id # 0
      /\ identity # 0 => b.id = identity
  <2>1. CASE configFile.state = "missing"
    <3>1. b = Config!Fresh /\ identity = 0 /\ ids' = ids + 1
      BY <1>0, <1>2, <2>1 DEF Config!Base, Config!Creates, IdentityInv
    <3>2. ids + 1 \in 0..ids' /\ ids + 1 # 0
      <4>1. ids \in Nat /\ ids' = ids + 1
        BY <1>3, <3>1
      <4> QED
        BY <4>1, Successor, Zenon
    <3>3. Config!Fresh = [state |-> "whole", id |-> ids + 1, name |-> "R36S",
                          url |-> "http://127.0.0.1:8080"]
      BY DEF Config!Fresh
    <3>4. Config!Fresh \in Configured'
      BY <3>2, <3>3 DEF Configured, Addressed
    <3> QED
      BY <3>1, <3>2, <3>3, <3>4
  <2>2. CASE configFile.state = "whole"
    <3>1. PICK w \in Config!Resolved(configFile.url) : b = [configFile EXCEPT !.url = w]
      BY <2>2 DEF Config!Base, Config!Creates
    <3>2. configFile \in Configured /\ configFile.url \in Addressed
      BY <1>0 DEF ConfigTypes, Configured
    <3>3. w \in Addressed
      BY <1>0, <3>1, <3>2, ResolvedIs
    <3>4. b \in Configured /\ b.state = "whole" /\ b.id = configFile.id
      BY <2>2, <3>1, <3>2, <3>3, Rewritten
    <3> QED
      BY <1>0, <1>4, <2>2, <3>4 DEF IdentityInv
  <2>3. configFile.state \in {"missing", "whole"}
    BY DEF Config!Base, Config!Creates
  <2> QED
    BY <2>1, <2>2, <2>3
<1>6. /\ init'.at = "built" /\ init'.asked \in Addresses \union {"", "auto"}
      /\ init'.config \in Configured' /\ init'.config.state = "whole" /\ init'.config.id = b.id
      /\ init' = [at |-> init'.at, asked |-> init'.asked, config |-> init'.config]
  <2>1. (IF u = "" THEN b.url ELSE u) \in Addressed
    BY <1>5 DEF Configured, Addressed
  <2>2. (IF n = "" THEN b.name ELSE n) \in Names \union {"", "R36S"}
    BY <1>5 DEF Configured
  <2> QED
    BY <1>1, <1>5, <2>1, <2>2 DEF Configured, Addressed
<1>7. ConfigTypes'
  BY <1>0, <1>2, <1>3, <1>4, <1>6 DEF ConfigTypes
<1>8. IdentityInv'
  BY <1>0, <1>2, <1>5, <1>6 DEF IdentityInv, Config!Off, Config!Missing
<1> QED
  BY <1>7, <1>8 DEF ConfigInv

LEMMA ConfigStep ==
    ASSUME ConfigInv, Config!Next
    PROVE  ConfigInv'
<1>0. ConfigTypes /\ IdentityInv
  BY DEF ConfigInv
<1>1. CASE Config!Move
  <2>1. /\ UNCHANGED <<configFile, init, configAgent, override, ids, identity>>
        /\ address' \in Addresses
    BY <1>1 DEF Config!Move
  <2>2. ConfigTypes'
    BY <1>0, <2>1, SameConfigs DEF ConfigTypes
  <2>3. IdentityInv'
    BY <1>0, <2>1 DEF IdentityInv, Config!Off, Config!Missing
  <2> QED
    BY <2>2, <2>3 DEF ConfigInv
<1>2. CASE Config!ReadConfig
  BY <1>2, ConfigRead
<1>3. CASE Config!Empty
  <2>1. /\ configFile' = Config!CutOff
        /\ init' = [init EXCEPT !.at = "write"] /\ init.at = "built"
        /\ UNCHANGED <<configAgent, address, override, ids, identity>>
    BY <1>3 DEF Config!Empty
  <2>2. Config!CutOff \in Configured /\ Config!CutOff.state = "torn"
    BY <1>0, MissingIs DEF ConfigTypes
  <2>3. ConfigTypes'
    BY <1>0, <2>1, <2>2, SameConfigs DEF ConfigTypes
  <2>4. IdentityInv'
    BY <1>0, <2>1, <2>2 DEF ConfigTypes, IdentityInv, Config!Off, Config!Missing
  <2> QED
    BY <2>3, <2>4 DEF ConfigInv
<1>4. CASE Config!WriteConfig
  <2>1. /\ configFile' = init.config /\ init.at = "write"
        /\ identity' = IF identity = 0 THEN init.config.id ELSE identity
        /\ init' = [at |-> "idle", config |-> Config!Missing, asked |-> ""]
        /\ UNCHANGED <<configAgent, address, override, ids>>
    BY <1>4 DEF Config!WriteConfig, Config!Stored, Config!Quiet
  <2>2. Config!Missing \in Configured
    BY <1>0, MissingIs DEF ConfigTypes
  <2>3. init.config \in Configured /\ init.config.id \in 0..ids
    BY <1>0 DEF ConfigTypes, Configured
  <2>4. ConfigTypes'
    BY <1>0, <2>1, <2>2, <2>3, SameConfigs DEF ConfigTypes
  <2>5. IdentityInv'
    BY <1>0, <2>1 DEF IdentityInv, Config!Off, Config!Missing
  <2> QED
    BY <2>4, <2>5 DEF ConfigInv
<1>5. CASE Config!SwitchOff
  <2>1. /\ init' = [at |-> "idle", config |-> Config!Missing, asked |-> ""]
        /\ configAgent' = Config!Missing
        /\ UNCHANGED <<configFile, address, override, ids, identity>>
    BY <1>5 DEF Config!SwitchOff, Config!Quiet, Config!Off
  <2>2. Config!Missing \in Configured
    BY <1>0, MissingIs DEF ConfigTypes
  <2>3. ConfigTypes'
    BY <1>0, <2>1, <2>2, SameConfigs DEF ConfigTypes
  <2>4. IdentityInv'
    BY <1>0, <2>1 DEF IdentityInv, Config!Off, Config!Missing
  <2> QED
    BY <2>3, <2>4 DEF ConfigInv
<1>6. CASE Config!Edit
  <2>1. PICK u \in Addresses \union {"auto"}, n \in Names :
          configFile' = [state |-> "whole", id |-> identity, name |-> n, url |-> u]
    BY <1>6 DEF Config!Edit, Config!Stored
  <2>2. /\ identity # 0 /\ identity' = identity
        /\ UNCHANGED <<init, configAgent, address, override, ids>>
    BY <1>6 DEF Config!Edit, Config!Stored
  <2>3. configFile' \in Configured /\ configFile'.state = "whole" /\ configFile'.id = identity
    BY <1>0, <2>1 DEF Configured, Addressed, ConfigTypes
  <2>4. ConfigTypes'
    BY <1>0, <2>2, <2>3, SameConfigs DEF ConfigTypes
  <2>5. IdentityInv'
    BY <1>0, <2>2, <2>3 DEF IdentityInv, Config!Off, Config!Missing
  <2> QED
    BY <2>4, <2>5 DEF ConfigInv
<1>7. CASE Config!Load
  <2>1. PICK u \in Config!Resolved(configFile.url) : configAgent' = [configFile EXCEPT !.url = u]
    BY <1>7 DEF Config!Load
  <2>2. /\ configFile.state = "whole"
        /\ UNCHANGED <<configFile, init, address, override, ids, identity>>
    BY <1>7 DEF Config!Load
  <2>3. configFile \in Configured /\ configFile.url \in Addressed
    BY <1>0 DEF ConfigTypes, Configured
  <2>4. configAgent' \in Configured /\ configAgent'.id = configFile.id
    BY <1>0, <2>1, <2>3, ResolvedIs, Rewritten
  <2>5. ConfigTypes'
    BY <1>0, <2>2, <2>4, SameConfigs DEF ConfigTypes
  <2>6. IdentityInv'
    BY <1>0, <2>2, <2>4 DEF IdentityInv, Config!Off, Config!Missing
  <2> QED
    BY <2>5, <2>6 DEF ConfigInv
<1> QED
  BY <1>1, <1>2, <1>3, <1>4, <1>5, <1>6, <1>7 DEF Config!Next

LEMMA ConfigStart == Config!Init => ConfigInv
<1> SUFFICES ASSUME Config!Init PROVE ConfigInv
  OBVIOUS
<1>0. ids \in Nat /\ ids = 0 /\ identity = 0
  BY DEF Config!Init
<1>1. Config!Missing \in Configured /\ Config!Missing.state = "missing"
  BY <1>0, MissingIs
<1>2. ConfigTypes
  <2>1. /\ configFile = Config!Missing /\ configAgent = Config!Missing
        /\ init = [at |-> "idle", config |-> Config!Missing, asked |-> ""]
        /\ address \in Addresses /\ override \in {""} \union Addresses
    BY DEF Config!Init, Config!Off, Config!Quiet
  <2>2. identity \in 0..ids
    BY <1>0
  <2> QED
    BY <1>0, <1>1, <2>1, <2>2 DEF ConfigTypes
<1>3. IdentityInv
  BY <1>1 DEF Config!Init, Config!Off, Config!Quiet, IdentityInv
<1> QED
  BY <1>2, <1>3 DEF ConfigInv

LEMMA ConfigAgrees == ConfigInv => Config!TypeOK /\ Config!IdentityStays
<1> SUFFICES ASSUME ConfigInv PROVE Config!TypeOK /\ Config!IdentityStays
  OBVIOUS
<1>1. \A c \in {configFile, configAgent, init.config} : c \in Configured
  BY DEF ConfigInv, ConfigTypes
<1>2. Config!TypeOK
  BY <1>1 DEF ConfigInv, ConfigTypes, Config!TypeOK, Configured, Addressed
<1>3. Config!IdentityStays
  BY DEF ConfigInv, IdentityInv, Config!IdentityStays
<1> QED
  BY <1>2, <1>3

-----------------------------------------------------------------------------
(* One component or another                                                *)

\* What is proved of the sessions by themselves holds of them beside the rest.
LEMMA SessionsByThemselves == AllSpec => Spec
<1>1. AllInit => Init
  BY DEF AllInit
<1>2. [AllNext]_all => [Next]_vars
  <2> SUFFICES ASSUME [AllNext]_all, vars' # vars PROVE Next
    OBVIOUS
  <2> QED
    BY DEF AllNext, OnlyThis, all
<1> QED
  BY <1>1, <1>2, PTL DEF AllSpec, Spec

SettingsInv ==
    /\ which = "fix" => FixInv
    /\ which = "config" => ConfigInv
    /\ which = "flags" => FlagInv

LEMMA SettingsStep ==
    ASSUME SettingsInv, [AllNext]_all
    PROVE  SettingsInv'
<1>1. CASE which = "fix"
  <2>1. CASE Fix!Next /\ which' = which
    BY <1>1, <2>1, FixStep DEF SettingsInv
  <2>2. CASE UNCHANGED <<which, FixVars>>
    <3>1. FixInv /\ UNCHANGED FixVars
      BY <1>1, <2>2 DEF SettingsInv
    <3>2. FixTypes' /\ RestoreInv' /\ CopyInv'
      BY <3>1 DEF FixVars, FixInv, FixTypes, File, RestoreInv, CopyInv
    <3>3. StickInv'
      BY <3>1 DEF FixVars, FixInv, StickInv
    <3> QED
      BY <1>1, <2>2, <3>2, <3>3 DEF SettingsInv, FixInv
  <2> QED
    BY <1>1, <2>1, <2>2 DEF AllNext, OnlyThis, all
<1>2. CASE which = "config"
  <2>1. CASE Config!Next /\ which' = which
    BY <1>2, <2>1, ConfigStep DEF SettingsInv
  <2>2. CASE UNCHANGED <<which, ConfigVars>>
    <3>1. ConfigInv /\ UNCHANGED ConfigVars
      BY <1>2, <2>2 DEF SettingsInv
    <3>2. ConfigTypes'
      BY <3>1, SameConfigs DEF ConfigVars, ConfigInv, ConfigTypes
    <3>3. IdentityInv'
      BY <3>1 DEF ConfigVars, ConfigInv, IdentityInv, Config!Off, Config!Missing
    <3> QED
      BY <1>2, <2>2, <3>2, <3>3 DEF SettingsInv, ConfigInv
  <2> QED
    BY <1>2, <2>1, <2>2 DEF AllNext, OnlyThis, all
<1>3. CASE which = "flags"
  <2>1. CASE Flag!Next /\ which' = which
    BY <1>3, <2>1, FlagStep DEF SettingsInv
  <2>2. CASE UNCHANGED <<which, FlagVars>>
    BY <1>3, <2>2 DEF SettingsInv, FlagVars, FlagInv, FlagTypes, CopiedInv, FetchDoneInv
  <2> QED
    BY <1>3, <2>1, <2>2 DEF AllNext, OnlyThis, all
<1>4. CASE which \notin {"fix", "config", "flags"}
  <2>1. which' = which
    BY DEF AllNext, OnlyThis, all
  <2> QED
    BY <1>4, <2>1 DEF SettingsInv
<1> QED
  BY <1>1, <1>2, <1>3, <1>4

\* Settings stay as they were made, for any keys, lines, features, addresses and bounds.
\* fix_exit.rs: a patched file reads as wanted and the rest of it as before, a fix survives
\* every later start and exit of RetroArch, and what it replaces is in a backup.  cfg.rs: a
\* console keeps the device id it first had.  features.rs: after a whole fetch the console
\* has what the server answered.
THEOREM SettingsHold == AllSpec => SettingsStick
<1>1. AllInit => SettingsInv
  BY FixStart, ConfigStart, FlagStart DEF AllInit, SettingsInv
<1>2. SettingsInv /\ [AllNext]_all => SettingsInv'
  BY SettingsStep
<1>3. SettingsInv =>
        /\ which = "fix" => Fix!TypeOK /\ Fix!PatchIsRight /\ Fix!FixSticks
        /\ which = "config" => Config!TypeOK /\ Config!IdentityStays
        /\ which = "flags" => Flag!TypeOK /\ Flag!FetchedIsServed
  BY FixAgrees, ConfigAgrees, FlagAgrees DEF SettingsInv
<1>4. SettingsInv => [which = "fix" => Fix!BackedUp]_all
  BY FixAgrees DEF SettingsInv
<1> QED
  BY <1>1, <1>2, <1>3, <1>4, PTL DEF AllSpec, SettingsStick

-----------------------------------------------------------------------------
(* The list of the cloud (cloud-catalog, routes.rs)                        *)

CatalogTypes ==
    /\ remote \subseteq Files /\ rows \subseteq Files /\ shown \subseteq Files
    /\ catalogAgent \in [at : {"idle", "listed", "waits"}, list : SUBSET Files]
    /\ post \in [at : {"idle", "insert"}, list : SUBSET Files, todo : SUBSET Files,
                 left : SUBSET Files, refused : SUBSET Files]
    /\ post.todo \subseteq post.list /\ post.refused \subseteq post.list \ post.todo
    /\ \A r \in requests : r.list \subseteq Files

\* The rows are one of the lists, or as much of the one that is stored as was stored,
\* next to what the database did not delete.
RowsInv ==
    /\ post.at = "idle" => rows \in served
    /\ post.at = "insert" => rows = post.left \union (post.list \ (post.todo \union post.refused))
    /\ shown \in served

CatalogInv == CatalogTypes /\ RowsInv

LEMMA CatalogStep ==
    ASSUME CatalogInv, Catalog!Next
    PROVE  CatalogInv'
<1>0. CatalogTypes /\ RowsInv
  BY DEF CatalogInv
<1>1. CASE Catalog!List
  <2>1. /\ catalogAgent' = [at |-> "listed", list |-> remote]
        /\ UNCHANGED <<remote, requests, post, rows, shown, served>>
    BY <1>1 DEF Catalog!List
  <2> QED
    BY <1>0, <2>1 DEF CatalogInv, CatalogTypes, RowsInv
<1>2. CASE Catalog!Post
  <2>1. /\ catalogAgent' = [catalogAgent EXCEPT !.at = "waits"]
        /\ requests' = requests \union {[list |-> catalogAgent.list, number |-> refreshes]}
        /\ UNCHANGED <<remote, post, rows, shown, served>>
    BY <1>2 DEF Catalog!Post
  <2> QED
    BY <1>0, <2>1 DEF CatalogInv, CatalogTypes, RowsInv
<1>3. CASE Catalog!GiveUp
  <2>1. /\ catalogAgent' = [at |-> "idle", list |-> {}]
        /\ UNCHANGED <<remote, requests, post, rows, shown, served>>
    BY <1>3 DEF Catalog!GiveUp, Catalog!IdleAgent
  <2> QED
    BY <1>0, <2>1 DEF CatalogInv, CatalogTypes, RowsInv
<1>4. CASE Catalog!Done
  <2>1. /\ post.at = "insert" /\ post.todo = {}
        /\ post' = [at |-> "idle", list |-> {}, todo |-> {}, left |-> {}, refused |-> {}]
        /\ served' = served \union {post.left \union (post.list \ post.refused)}
        /\ UNCHANGED <<remote, catalogAgent, requests, rows, shown>>
    BY <1>4 DEF Catalog!Done, Catalog!IdlePost, Catalog!Outcome
  <2> QED
    BY <1>0, <2>1 DEF CatalogInv, CatalogTypes, RowsInv
<1>5. CASE Catalog!Crash
  <2>1. /\ post' = [at |-> "idle", list |-> {}, todo |-> {}, left |-> {}, refused |-> {}]
        /\ requests' = {}
        /\ served' = served \union {rows}
        /\ UNCHANGED <<remote, catalogAgent, rows, shown>>
    BY <1>5 DEF Catalog!Crash, Catalog!IdlePost
  <2> QED
    BY <1>0, <2>1 DEF CatalogInv, CatalogTypes, RowsInv
<1>6. CASE Catalog!Show
  <2>1. /\ post.at = "idle" /\ shown' = rows
        /\ UNCHANGED <<remote, catalogAgent, requests, post, rows, served>>
    BY <1>6 DEF Catalog!Show, Catalog!Unlocked
  <2> QED
    BY <1>0, <2>1 DEF CatalogInv, CatalogTypes, RowsInv
<1>7. ASSUME NEW f \in Files, Catalog!Change(f) PROVE CatalogInv'
  <2>1. /\ remote' \subseteq Files
        /\ UNCHANGED <<catalogAgent, requests, post, rows, shown, served>>
    BY <1>0, <1>7 DEF Catalog!Change, CatalogTypes
  <2> QED
    BY <1>0, <2>1 DEF CatalogInv, CatalogTypes, RowsInv
<1>8. ASSUME NEW f \in Files, Catalog!Insert(f) PROVE CatalogInv'
  <2>1. /\ post.at = "insert" /\ f \in post.todo
        /\ UNCHANGED <<remote, catalogAgent, requests, shown, served>>
    BY <1>8 DEF Catalog!Insert
  <2>2. CASE rows' = rows \union {f} /\ post' = [post EXCEPT !.todo = post.todo \ {f}]
    BY <1>0, <2>1, <2>2 DEF CatalogInv, CatalogTypes, RowsInv
  <2>3. CASE /\ rows' = rows
             /\ post' = [post EXCEPT !.todo = post.todo \ {f}, !.refused = post.refused \union {f}]
    BY <1>0, <2>1, <2>3 DEF CatalogInv, CatalogTypes, RowsInv
  <2> QED
    BY <1>8, <2>2, <2>3 DEF Catalog!Insert
<1>9. ASSUME NEW r \in requests, Catalog!Handle(r) PROVE CatalogInv'
  <2>1. /\ requests' = requests \ {r}
        /\ UNCHANGED <<remote, catalogAgent, shown, served>>
    BY <1>9 DEF Catalog!Handle
  <2>2. PICK left \in {{}, rows} :
          /\ rows' = left
          /\ post' = [at |-> "insert", list |-> r.list, todo |-> r.list, left |-> left,
                      refused |-> {}]
    BY <1>9 DEF Catalog!Handle, Catalog!Deleted, Catalog!Taken
  <2>3. left \subseteq Files /\ r.list \subseteq Files
    BY <1>0, <1>9, <2>2 DEF CatalogTypes
  <2> QED
    BY <1>0, <2>1, <2>2, <2>3 DEF CatalogInv, CatalogTypes, RowsInv
<1> QED
  BY <1>1, <1>2, <1>3, <1>4, <1>5, <1>6, <1>7, <1>8, <1>9 DEF Catalog!Next

LEMMA CatalogStart == Catalog!Init => CatalogInv
  BY DEF Catalog!Init, Catalog!IdleAgent, Catalog!IdlePost, CatalogInv, CatalogTypes, RowsInv

LEMMA CatalogAgrees == CatalogInv => Catalog!TypeOK /\ Catalog!ShownIsOneList
  BY DEF CatalogInv, CatalogTypes, RowsInv, Catalog!TypeOK, Catalog!ShownIsOneList

-----------------------------------------------------------------------------
(* The index of the ROMs (scanner.rs, metadata.rs)                         *)

LEMMA IndexNumbers ==
    /\ TitleOf \in [Games -> Titles] /\ CoverRows \in Seq(Titles)
    /\ MaxScans \in Nat /\ MaxFetches \in Nat /\ MaxFaults \in Nat
<1>1. /\ TitleOf \in [Games -> Titles] /\ CoverRows \in Seq(Titles)
      /\ {MaxScans, MaxFetches, MaxFaults} \subseteq Nat
  BY Assumptions DEF Index!IndexAssumption
<1> QED
  BY <1>1

RomEvent == [kind : {"rom"}, rom : Games, size : Sizes \union {0}, title : Titles]
CoverEvent == [kind : {"metadata"}, title : Titles, cover : BOOLEAN]
IndexEvent == RomEvent \union CoverEvent

\* The last event of a ROM in a queue is at place i.
LastAt(q, r, i) ==
    /\ i \in DOMAIN q /\ q[i].kind = "rom" /\ q[i].rom = r
    /\ \A j \in DOMAIN q : q[j].kind = "rom" /\ q[j].rom = r => j <= i

Silent(q, r) == \A i \in DOMAIN q : ~ (q[i].kind = "rom" /\ q[i].rom = r)

LEMMA LastAtIs ==
    ASSUME NEW S, NEW q \in Seq(S), NEW r, NEW d
    PROVE  /\ Silent(q, r) => Index!SizeIn(q, r, d) = d
           /\ \A i : LastAt(q, r, i) => Index!SizeIn(q, r, d) = q[i].size
           /\ Silent(q, r) \/ \E i : LastAt(q, r, i)
<1> DEFINE at == {i \in DOMAIN q : q[i].kind = "rom" /\ q[i].rom = r}
<1>1. DOMAIN q = 1..Len(q) /\ Len(q) \in Nat
  OBVIOUS
<1>2. Index!SizeIn(q, r, d) =
        IF at = {} THEN d ELSE q[CHOOSE i \in at : \A j \in at : j <= i].size
  BY DEF Index!SizeIn
<1>3. Silent(q, r) <=> at = {}
  BY DEF Silent
<1>4. ASSUME NEW i, LastAt(q, r, i)
      PROVE  at # {} /\ (CHOOSE k \in at : \A j \in at : j <= k) = i
  <2>1. i \in at /\ \A j \in at : j <= i
    BY <1>4 DEF LastAt
  <2>2. \A j \in at : j \in Nat
    BY <1>1
  <2>3. ASSUME NEW j \in at, \A l \in at : l <= j PROVE j = i
    BY <2>1, <2>2, <2>3
  <2> HIDE DEF at
  <2> QED
    BY <2>1, <2>3
<1>5. at # {} => \E i : LastAt(q, r, i)
  <2>1. at \in SUBSET (0..Len(q))
    BY <1>1
  <2>2. at # {} => \E i \in at : \A j \in at : j <= i
    <3> HIDE DEF at
    <3> QED
      BY <1>1, <2>1, Greatest
  <2> QED
    BY <2>2 DEF LastAt
<1> HIDE DEF at
<1> QED
  BY <1>2, <1>3, <1>4, <1>5

\* What comes later counts.
LEMMA SizeOfBoth ==
    ASSUME NEW S, NEW p \in Seq(S), NEW q \in Seq(S), NEW r, NEW d
    PROVE  Index!SizeIn(p \o q, r, d) = Index!SizeIn(q, r, Index!SizeIn(p, r, d))
<1> DEFINE m == Len(p)
           n == Len(q)
           both == p \o q
<1>1. m \in Nat /\ n \in Nat /\ DOMAIN p = 1..m /\ DOMAIN q = 1..n
  OBVIOUS
<1>2. /\ both \in Seq(S) /\ Len(both) = m + n
      /\ \A i \in 1..(m + n) : both[i] = IF i <= m THEN p[i] ELSE q[i - m]
  BY ConcatProperties
<1>3. DOMAIN both = 1..(m + n)
  BY <1>1, <1>2
<1> HIDE DEF m, n, both
<1>4. \A i \in 1..m : i \in 1..(m + n) /\ both[i] = p[i]
  BY <1>1, <1>2
<1>5. \A i \in 1..n : m + i \in 1..(m + n) /\ both[m + i] = q[i]
  <2> TAKE i \in 1..n
  <2>1. m + i \in 1..(m + n) /\ ~ (m + i <= m) /\ (m + i) - m = i
    BY <1>1
  <2>2. both[m + i] = IF m + i <= m THEN p[m + i] ELSE q[(m + i) - m]
    BY <1>2, <2>1
  <2> QED
    BY <2>1, <2>2
<1>6. \A i \in 1..(m + n) : i \in 1..m \/ \E j \in 1..n : i = m + j
  <2> TAKE i \in 1..(m + n)
  <2>1. i \in 1..m \/ (i - m \in 1..n /\ i = m + (i - m))
    BY <1>1
  <2> QED
    BY <2>1
<1>7. CASE \E i : LastAt(q, r, i)
  <2>1. PICK i : LastAt(q, r, i)
    BY <1>7
  <2>2. i \in 1..n /\ q[i].kind = "rom" /\ q[i].rom = r
        /\ \A j \in 1..n : q[j].kind = "rom" /\ q[j].rom = r => j <= i
    BY <1>1, <2>1 DEF LastAt
  <2>3. ASSUME NEW k \in 1..(m + n), both[k].kind = "rom", both[k].rom = r
        PROVE  k <= m + i
    <3>1. CASE k \in 1..m
      BY <1>1, <2>2, <3>1
    <3>2. CASE \E j \in 1..n : k = m + j
      <4>1. PICK j \in 1..n : k = m + j
        BY <3>2
      <4>2. j <= i
        BY <1>5, <2>2, <2>3, <4>1
      <4> QED
        BY <1>1, <2>2, <4>1, <4>2
    <3> QED
      BY <1>6, <3>1, <3>2
  <2>4. LastAt(both, r, m + i)
    BY <1>3, <1>5, <2>2, <2>3 DEF LastAt
  <2>5. Index!SizeIn(both, r, d) = both[m + i].size
    BY <1>2, <2>4, LastAtIs
  <2>6. Index!SizeIn(q, r, Index!SizeIn(p, r, d)) = q[i].size
    BY <2>1, LastAtIs
  <2> QED
    BY <1>5, <2>2, <2>5, <2>6 DEF both
<1>8. CASE Silent(q, r)
  <2>1. Index!SizeIn(q, r, Index!SizeIn(p, r, d)) = Index!SizeIn(p, r, d)
    BY <1>8, LastAtIs
  <2>2. CASE Silent(p, r)
    <3>1. Silent(both, r)
      <4> SUFFICES ASSUME NEW k \in 1..(m + n) PROVE ~ (both[k].kind = "rom" /\ both[k].rom = r)
        BY <1>3 DEF Silent
      <4>1. CASE k \in 1..m
        BY <1>1, <1>4, <2>2, <4>1 DEF Silent
      <4>2. CASE \E j \in 1..n : k = m + j
        <5>1. PICK j \in 1..n : k = m + j
          BY <4>2
        <5>2. both[k] = q[j]
          BY <1>5, <5>1
        <5> QED
          BY <1>1, <1>8, <5>2 DEF Silent
      <4> QED
        BY <1>6, <4>1, <4>2
    <3>2. Index!SizeIn(both, r, d) = d
      BY <1>2, <3>1, LastAtIs
    <3>3. Index!SizeIn(p, r, d) = d
      BY <2>2, LastAtIs
    <3> QED
      BY <2>1, <3>2, <3>3 DEF both
  <2>3. CASE \E i : LastAt(p, r, i)
    <3>1. PICK i : LastAt(p, r, i)
      BY <2>3
    <3>2. LastAt(both, r, i)
      <4>1. i \in 1..m /\ p[i].kind = "rom" /\ p[i].rom = r
            /\ \A j \in 1..m : p[j].kind = "rom" /\ p[j].rom = r => j <= i
        BY <1>1, <3>1 DEF LastAt
      <4>2. ASSUME NEW k \in 1..(m + n), both[k].kind = "rom", both[k].rom = r PROVE k <= i
        <5>1. CASE k \in 1..m
          BY <1>4, <4>1, <4>2, <5>1
        <5>2. CASE \E j \in 1..n : k = m + j
          <6>1. PICK j \in 1..n : k = m + j
            BY <5>2
          <6>2. both[k] = q[j]
            BY <1>5, <6>1
          <6> QED
            BY <1>1, <1>8, <4>2, <6>2 DEF Silent
        <5> QED
          BY <1>6, <5>1, <5>2
      <4> QED
        BY <1>3, <1>4, <4>1, <4>2 DEF LastAt
    <3>3. Index!SizeIn(both, r, d) = both[i].size
      BY <1>2, <3>2, LastAtIs
    <3>4. Index!SizeIn(p, r, d) = p[i].size
      BY <3>1, LastAtIs
    <3>5. both[i] = p[i]
      BY <1>1, <1>4, <3>1 DEF LastAt
    <3> QED
      BY <2>1, <3>3, <3>4, <3>5 DEF both
  <2> QED
    BY <2>2, <2>3, LastAtIs
<1> QED
  BY <1>7, <1>8, LastAtIs

LEMMA SizeOfOne ==
    ASSUME NEW e, NEW r, NEW d
    PROVE  Index!SizeIn(<<e>>, r, d) = IF e.kind = "rom" /\ e.rom = r THEN e.size ELSE d
<1> DEFINE one == <<e>>
<1>1. one \in Seq({e}) /\ DOMAIN one = {1} /\ one[1] = e
  OBVIOUS
<1> HIDE DEF one
<1>2. CASE e.kind = "rom" /\ e.rom = r
  <2>1. LastAt(one, r, 1)
    BY <1>1, <1>2 DEF LastAt
  <2>2. Index!SizeIn(one, r, d) = one[1].size
    BY <1>1, <2>1, LastAtIs
  <2> QED
    BY <1>1, <1>2, <2>2 DEF one
<1>3. CASE ~ (e.kind = "rom" /\ e.rom = r)
  <2>1. Silent(one, r)
    BY <1>1, <1>3 DEF Silent
  <2>2. Index!SizeIn(one, r, d) = d
    BY <1>1, <2>1, LastAtIs
  <2> QED
    BY <1>3, <2>2 DEF one
<1> QED
  BY <1>2, <1>3

LEMMA SizeOfNone ==
    ASSUME NEW r, NEW d
    PROVE  Index!SizeIn(<<>>, r, d) = d
<1>1. <<>> \in Seq({}) /\ DOMAIN <<>> = {}
  OBVIOUS
<1>2. Silent(<<>>, r)
  BY <1>1 DEF Silent
<1> QED
  BY <1>1, <1>2, LastAtIs

\* What is appended counts.
LEMMA SizeOfAppended ==
    ASSUME NEW S, NEW q \in Seq(S), NEW e \in S, NEW r, NEW d
    PROVE  Index!SizeIn(Append(q, e), r, d) =
             IF e.kind = "rom" /\ e.rom = r THEN e.size ELSE Index!SizeIn(q, r, d)
<1> DEFINE one == <<e>>
<1>1. one \in Seq(S) /\ Append(q, e) = q \o one
  OBVIOUS
<1>2. \A c : Index!SizeIn(one, r, c) = IF e.kind = "rom" /\ e.rom = r THEN e.size ELSE c
  BY SizeOfOne
<1> HIDE DEF one
<1>3. Index!SizeIn(q \o one, r, d) = Index!SizeIn(one, r, Index!SizeIn(q, r, d))
  BY <1>1, SizeOfBoth
<1> QED
  BY <1>1, <1>2, <1>3

\* What is delivered is what the server has, or it is overtaken.
LEMMA SizeOfRest ==
    ASSUME NEW S, NEW q \in Seq(S), q # <<>>, NEW r, NEW d
    PROVE  Index!SizeIn(q, r, d) =
             Index!SizeIn(Tail(q), r, IF Head(q).kind = "rom" /\ Head(q).rom = r
                                      THEN Head(q).size ELSE d)
<1> DEFINE one == <<Head(q)>>
           rest == Tail(q)
           first == Head(q)
<1>1. one \in Seq(S) /\ rest \in Seq(S) /\ q = one \o rest
  OBVIOUS
<1>2. \A c : Index!SizeIn(one, r, c) = IF first.kind = "rom" /\ first.rom = r THEN first.size ELSE c
  BY SizeOfOne
<1> HIDE DEF one, rest
<1>3. Index!SizeIn(one \o rest, r, d) = Index!SizeIn(rest, r, Index!SizeIn(one, r, d))
  BY <1>1, SizeOfBoth
<1> QED
  BY <1>1, <1>2, <1>3 DEF rest

SizeTable == [Games -> Sizes \union {0}]
ScanState == [on : BOOLEAN, todo : SUBSET Games, games : SizeTable \union {<<>>},
              events : Seq(IndexEvent), seen : SUBSET Games]

IndexTypes ==
    /\ disk \in SizeTable /\ games \in SizeTable /\ known \in SizeTable
    /\ scan \in ScanState /\ (scan.on => scan.games \in SizeTable)
    /\ indexOutbox \in Seq(IndexEvent)
    /\ metadata \in [Titles -> [row : BOOLEAN, cover : BOOLEAN]]
    /\ stale \subseteq Games

CoverTypes ==
    /\ \A row \in coverRows : row.title \in Titles
    /\ DOMAIN indexFetch = {"on", "todo"} /\ \A row \in indexFetch.todo : row.title \in Titles
    /\ indexStored \in Titles \union {"no title"}

IndexBounds ==
    /\ scans \in 0..MaxScans /\ indexFetches \in 0..MaxFetches /\ indexFaults \in 0..MaxFaults

\* The events of a scan bring what is announced to what its transaction has.
AnnouncedInv ==
    /\ \A r \in Games : Index!SizeIn(indexOutbox, r, known[r]) = games[r]
    /\ scan.on => \A r \in Games : Index!SizeIn(scan.events, r, games[r]) = scan.games[r]

\* A ROM that did not change since a scan looked at it is in the index as it is.
LookedAtInv ==
    /\ \A r \in Games \ stale : disk[r] # 0 => games[r] = disk[r]
    /\ scan.on => \A r \in scan.seen \union (Games \ stale) : disk[r] # 0 => scan.games[r] = disk[r]

IndexInv == IndexTypes /\ CoverTypes /\ IndexBounds /\ AnnouncedInv /\ LookedAtInv

LEMMA IndexStart == Index!Init => IndexInv
<1> SUFFICES ASSUME Index!Init PROVE IndexInv
  OBVIOUS
<1>0. /\ disk \in SizeTable /\ games = [r \in Games |-> 0] /\ known = games
      /\ scan = [on |-> FALSE, todo |-> {}, games |-> <<>>, events |-> <<>>, seen |-> {}]
      /\ indexFetch = [on |-> FALSE, todo |-> {}] /\ indexStored = "no title"
      /\ coverRows = {[id |-> i, title |-> CoverRows[i], cover |-> FALSE] : i \in DOMAIN CoverRows}
      /\ indexOutbox = <<>>
      /\ metadata = [t \in Titles |-> [row |-> FALSE, cover |-> FALSE]]
      /\ scans = 0 /\ indexFetches = 0 /\ indexFaults = 0 /\ stale = Games
  BY DEF Index!Init, SizeTable, Index!Absent, Index!NoScan, Index!NoFetch, Index!NoTitle
<1>1. IndexTypes
  <2>1. <<>> \in Seq(IndexEvent)
    OBVIOUS
  <2>2. scan \in ScanState
    BY <1>0, <2>1 DEF ScanState
  <2> QED
    BY <1>0, <2>1, <2>2 DEF IndexTypes, SizeTable
<1>2. CoverTypes
  <2>1. \A i \in DOMAIN CoverRows : CoverRows[i] \in Titles
    BY IndexNumbers
  <2>2. ASSUME NEW row \in coverRows PROVE row.title \in Titles
    <3>1. PICK i \in DOMAIN CoverRows : row = [id |-> i, title |-> CoverRows[i], cover |-> FALSE]
      BY <1>0
    <3> QED
      BY <2>1, <3>1
  <2>3. DOMAIN indexFetch = {"on", "todo"} /\ indexFetch.todo = {}
    BY <1>0
  <2> QED
    BY <1>0, <2>2, <2>3 DEF CoverTypes
<1>3. IndexBounds
  <2>1. 0 \in 0..MaxScans /\ 0 \in 0..MaxFetches /\ 0 \in 0..MaxFaults
    BY IndexNumbers
  <2> QED
    BY <1>0, <2>1 DEF IndexBounds
<1>4. AnnouncedInv
  BY <1>0, SizeOfNone DEF AnnouncedInv
<1>5. LookedAtInv
  BY <1>0 DEF LookedAtInv
<1> QED
  BY <1>1, <1>2, <1>3, <1>4, <1>5 DEF IndexInv

LEMMA ScanChanges ==
    ASSUME NEW v \in ScanState
    PROVE  /\ \A todo \in SUBSET Games, seen \in SUBSET Games :
                LET w == [v EXCEPT !.todo = todo, !.seen = seen]
                IN  /\ w \in ScanState /\ w.on = v.on /\ w.games = v.games
                    /\ w.events = v.events /\ w.seen = seen
           /\ \A seen \in SUBSET Games :
                LET w == [v EXCEPT !.seen = seen]
                IN  /\ w \in ScanState /\ w.on = v.on /\ w.games = v.games
                    /\ w.events = v.events /\ w.seen = seen
  BY DEF ScanState

LEMMA IndexChange ==
    ASSUME IndexInv, NEW r \in Games, Index!Change(r)
    PROVE  IndexInv'
<1>0. IndexTypes /\ CoverTypes /\ IndexBounds /\ AnnouncedInv /\ LookedAtInv
  BY DEF IndexInv
<1>1. PICK s \in Sizes \union {0} :
        /\ disk' = [disk EXCEPT ![r] = s] /\ stale' = stale \union {r}
        /\ scan' = [scan EXCEPT !.seen = @ \ {r}]
        /\ indexFaults < MaxFaults /\ indexFaults' = indexFaults + 1
        /\ UNCHANGED <<games, coverRows, indexFetch, indexStored, indexOutbox, known,
                       metadata, scans, indexFetches>>
  BY DEF Index!Change, Index!Absent
<1>2. scan \in ScanState /\ scan.seen \in SUBSET Games
  BY <1>0 DEF IndexTypes, ScanState
<1>3. /\ scan' \in ScanState /\ scan'.on = scan.on /\ scan'.games = scan.games
      /\ scan'.events = scan.events /\ scan'.seen = scan.seen \ {r}
  BY <1>1, <1>2, ScanChanges
<1>4. IndexTypes'
  BY <1>0, <1>1, <1>3 DEF IndexTypes, SizeTable
<1>5. CoverTypes'
  BY <1>0, <1>1 DEF CoverTypes
<1>6. IndexBounds'
  <2>1. indexFaults + 1 \in 0..MaxFaults
    BY <1>0, <1>1, CountsUp, IndexNumbers DEF IndexBounds
  <2> QED
    BY <1>0, <1>1, <2>1, Zenon DEF IndexBounds
<1>7. AnnouncedInv'
  BY <1>0, <1>1, <1>3, Zenon DEF AnnouncedInv
<1>8. LookedAtInv'
  <2>1. \A q \in Games : q # r => disk'[q] = disk[q]
    BY <1>0, <1>1 DEF IndexTypes, SizeTable
  <2>2. \A q \in Games \ stale' : q \in Games \ stale /\ q # r
    BY <1>1
  <2>3. \A q \in scan'.seen : q \in scan.seen /\ q # r /\ q \in Games
    BY <1>2, <1>3
  <2>4. UNCHANGED games
    BY <1>1
  <2> QED
    BY <1>0, <1>3, <2>1, <2>2, <2>3, <2>4 DEF LookedAtInv
<1> QED
  BY <1>4, <1>5, <1>6, <1>7, <1>8 DEF IndexInv

LEMMA IndexLookAt ==
    ASSUME IndexInv, NEW r \in Games, Index!LookAt(r)
    PROVE  IndexInv'
<1>0. IndexTypes /\ CoverTypes /\ IndexBounds /\ AnnouncedInv /\ LookedAtInv
  BY DEF IndexInv
<1> DEFINE rom == [kind |-> "rom", rom |-> r, size |-> disk[r], title |-> TitleOf[r]]
           blank == [kind |-> "metadata", title |-> TitleOf[r], cover |-> FALSE]
<1>1. /\ scan.on
      /\ UNCHANGED <<disk, games, coverRows, indexFetch, indexStored, indexOutbox, known,
                     metadata, scans, indexFetches, indexFaults, stale>>
  BY DEF Index!LookAt
<1>2. /\ scan \in ScanState /\ scan.games \in SizeTable /\ scan.events \in Seq(IndexEvent)
      /\ scan.seen \in SUBSET Games /\ scan.todo \in SUBSET Games
  BY <1>0, <1>1 DEF IndexTypes, ScanState
<1>3. CASE disk[r] \in {0, scan.games[r]}
  <2>1. scan' = [scan EXCEPT !.todo = scan.todo \ {r}, !.seen = scan.seen \union {r}]
    BY <1>3 DEF Index!LookAt, Index!Unchanged, Index!Absent
  <2>2. /\ scan' \in ScanState /\ scan'.on = scan.on /\ scan'.games = scan.games
        /\ scan'.events = scan.events /\ scan'.seen = scan.seen \union {r}
    BY <1>2, <2>1 DEF ScanState
  <2>3. IndexTypes'
    BY <1>0, <1>1, <2>2 DEF IndexTypes
  <2>4. CoverTypes' /\ IndexBounds'
    BY <1>0, <1>1, Zenon DEF CoverTypes, IndexBounds
  <2>5. AnnouncedInv'
    BY <1>0, <1>1, <2>2, Zenon DEF AnnouncedInv
  <2>6. LookedAtInv'
    BY <1>0, <1>1, <1>3, <2>2 DEF LookedAtInv
  <2> QED
    BY <2>3, <2>4, <2>5, <2>6 DEF IndexInv
<1>4. CASE ~ (disk[r] \in {0, scan.games[r]})
  <2>1. scan' = [scan EXCEPT !.todo = @ \ {r}, !.seen = @ \union {r}, !.games[r] = disk[r],
                             !.events = @ \o <<rom, blank>>]
    BY <1>4 DEF Index!LookAt, Index!Unchanged, Index!Absent, Index!Scanned, Index!Blank
  <2>2. rom \in IndexEvent /\ blank \in IndexEvent
    <3>1. disk[r] \in Sizes \union {0} /\ TitleOf[r] \in Titles
      BY <1>0, IndexNumbers DEF IndexTypes, SizeTable
    <3> QED
      BY <3>1 DEF IndexEvent, RomEvent, CoverEvent
  <2>3. rom.kind = "rom" /\ rom.rom = r /\ rom.size = disk[r] /\ blank.kind # "rom"
    OBVIOUS
  <2> HIDE DEF rom, blank
  <2> DEFINE told == Append(scan.events, rom)
  <2>4. /\ scan.events \o <<rom, blank>> = Append(Append(scan.events, rom), blank)
        /\ Append(scan.events, rom) \in Seq(IndexEvent)
        /\ scan.events \o <<rom, blank>> \in Seq(IndexEvent)
    BY <1>2, <2>2
  <2>5. [scan.games EXCEPT ![r] = disk[r]] \in SizeTable
    BY <1>0, <1>2 DEF IndexTypes, SizeTable
  <2>6. /\ scan'.on = scan.on /\ scan'.games = [scan.games EXCEPT ![r] = disk[r]]
        /\ scan'.todo = scan.todo \ {r}
        /\ scan'.events = scan.events \o <<rom, blank>> /\ scan'.seen = scan.seen \union {r}
        /\ DOMAIN scan' = {"on", "todo", "games", "events", "seen"}
    BY <1>2, <2>1 DEF ScanState
  <2>7. scan' \in ScanState
    BY <1>2, <2>1, <2>4, <2>5 DEF ScanState
  <2>8. IndexTypes'
    BY <1>0, <1>1, <2>5, <2>6, <2>7 DEF IndexTypes
  <2>9. CoverTypes' /\ IndexBounds'
    BY <1>0, <1>1, Zenon DEF CoverTypes, IndexBounds
  <2>10. \A q \in Games : scan'.games[q] = IF q = r THEN disk[r] ELSE scan.games[q]
    BY <1>2, <2>6 DEF SizeTable
  <2>11. AnnouncedInv'
    <3>1. ASSUME NEW q \in Games
          PROVE  Index!SizeIn(scan'.events, q, games[q]) = scan'.games[q]
      <4>1. Index!SizeIn(Append(Append(scan.events, rom), blank), q, games[q])
              = Index!SizeIn(Append(scan.events, rom), q, games[q])
        <5>1. told \in Seq(IndexEvent)
          BY <2>4
        <5> HIDE DEF told
        <5>2. Index!SizeIn(Append(told, blank), q, games[q]) = Index!SizeIn(told, q, games[q])
          BY <2>2, <2>3, <5>1, SizeOfAppended
        <5> QED
          BY <5>2 DEF told
      <4>2. Index!SizeIn(Append(scan.events, rom), q, games[q])
              = IF r = q THEN disk[r] ELSE Index!SizeIn(scan.events, q, games[q])
        BY <1>2, <2>2, <2>3, SizeOfAppended
      <4>3. Index!SizeIn(scan.events, q, games[q]) = scan.games[q]
        BY <1>0, <1>1 DEF AnnouncedInv
      <4> QED
        BY <2>4, <2>6, <2>10, <4>1, <4>2, <4>3
    <3> QED
      BY <1>0, <1>1, <3>1, Zenon DEF AnnouncedInv
  <2>12. LookedAtInv'
    BY <1>0, <1>1, <1>2, <2>6, <2>10 DEF LookedAtInv
  <2> QED
    BY <2>8, <2>9, <2>11, <2>12 DEF IndexInv
<1> QED
  BY <1>3, <1>4

LEMMA IndexPassOver ==
    ASSUME IndexInv, NEW r \in Games, Index!PassOver(r)
    PROVE  IndexInv'
<1>0. IndexTypes /\ CoverTypes /\ IndexBounds /\ AnnouncedInv /\ LookedAtInv
  BY DEF IndexInv
<1>1. /\ scan.on /\ scan' = [scan EXCEPT !.todo = scan.todo \ {r}]
      /\ UNCHANGED <<disk, games, coverRows, indexFetch, indexStored, indexOutbox, known,
                     metadata, scans, indexFetches, indexFaults, stale>>
  BY DEF Index!PassOver
<1>2. /\ scan' \in ScanState /\ scan'.on = scan.on /\ scan'.games = scan.games
      /\ scan'.events = scan.events /\ scan'.seen = scan.seen
  BY <1>0, <1>1 DEF IndexTypes, ScanState
<1>3. IndexTypes'
  BY <1>0, <1>1, <1>2 DEF IndexTypes
<1>4. CoverTypes' /\ IndexBounds'
  BY <1>0, <1>1, Zenon DEF CoverTypes, IndexBounds
<1>5. AnnouncedInv' /\ LookedAtInv'
  BY <1>0, <1>1, <1>2, Zenon DEF AnnouncedInv, LookedAtInv
<1> QED
  BY <1>3, <1>4, <1>5 DEF IndexInv

\* A step that leaves the index, its scan and its outbox alone.
IndexAside == UNCHANGED <<disk, games, scan, indexOutbox, known, stale>>

LEMMA IndexBesides ==
    ASSUME IndexInv, IndexAside, CoverTypes', IndexBounds', UNCHANGED metadata
    PROVE  IndexInv'
<1>1. IndexTypes'
  BY DEF IndexInv, IndexAside, IndexTypes
<1>2. AnnouncedInv' /\ LookedAtInv'
  BY Zenon DEF IndexInv, IndexAside, AnnouncedInv, LookedAtInv
<1> QED
  BY <1>1, <1>2 DEF IndexInv

LEMMA IndexStep ==
    ASSUME IndexInv, Index!Next
    PROVE  IndexInv'
<1>0. IndexTypes /\ CoverTypes /\ IndexBounds /\ AnnouncedInv /\ LookedAtInv
  BY DEF IndexInv
<1>1. CASE Index!BeginScan
  <2>1. /\ scans < MaxScans /\ scans' = scans + 1
        /\ scan' = [on |-> TRUE, todo |-> Games, games |-> games, events |-> <<>>, seen |-> {}]
        /\ UNCHANGED <<disk, games, coverRows, indexFetch, indexStored, indexOutbox, known,
                       metadata, indexFetches, indexFaults, stale>>
    BY <1>1 DEF Index!BeginScan
  <2>2. <<>> \in Seq(IndexEvent)
    OBVIOUS
  <2>3. scan' \in ScanState /\ scan'.games \in SizeTable
    BY <1>0, <2>1, <2>2 DEF ScanState, IndexTypes
  <2>4. IndexTypes'
    BY <1>0, <2>1, <2>3 DEF IndexTypes
  <2>5. CoverTypes'
    BY <1>0, <2>1, Zenon DEF CoverTypes
  <2>6. IndexBounds'
    <3>1. scans + 1 \in 0..MaxScans
      BY <1>0, <2>1, CountsUp, IndexNumbers DEF IndexBounds
    <3> QED
      BY <1>0, <2>1, <3>1, Zenon DEF IndexBounds
  <2>7. scan'.games = games /\ scan'.events = <<>> /\ scan'.seen = {}
    BY <2>1
  <2>8. AnnouncedInv'
    <3>1. \A q \in Games : Index!SizeIn(<<>>, q, games[q]) = games[q]
      BY SizeOfNone
    <3>2. \A q \in Games : Index!SizeIn(scan'.events, q, games[q]) = scan'.games[q]
      BY <2>7, <3>1, Zenon
    <3> QED
      BY <1>0, <2>1, <3>2, Zenon DEF AnnouncedInv
  <2>9. LookedAtInv'
    BY <1>0, <2>1, <2>7 DEF LookedAtInv
  <2> QED
    BY <2>4, <2>5, <2>6, <2>8, <2>9 DEF IndexInv
<1>2. CASE Index!Commit
  <2>1. /\ scan.on /\ games' = scan.games
        /\ indexOutbox' = indexOutbox \o scan.events
        /\ stale' = stale \ scan.seen
        /\ scan' = [on |-> FALSE, todo |-> {}, games |-> <<>>, events |-> <<>>, seen |-> {}]
        /\ UNCHANGED <<disk, coverRows, indexFetch, indexStored, known, metadata, scans,
                       indexFetches, indexFaults>>
    BY <1>2 DEF Index!Commit, Index!NoScan
  <2>2. scan.events \in Seq(IndexEvent) /\ <<>> \in Seq(IndexEvent)
    BY <1>0 DEF IndexTypes, ScanState
  <2>3. scan' \in ScanState /\ ~ scan'.on
    BY <2>1, <2>2 DEF ScanState
  <2>4. IndexTypes'
    <3>1. indexOutbox' \in Seq(IndexEvent)
      BY <1>0, <2>1, <2>2 DEF IndexTypes
    <3> QED
      BY <1>0, <2>1, <2>3, <3>1 DEF IndexTypes
  <2>5. CoverTypes' /\ IndexBounds'
    BY <1>0, <2>1, Zenon DEF CoverTypes, IndexBounds
  <2>6. AnnouncedInv'
    <3>1. ASSUME NEW q \in Games
          PROVE  Index!SizeIn(indexOutbox \o scan.events, q, known[q]) = scan.games[q]
      <4>1. Index!SizeIn(indexOutbox \o scan.events, q, known[q])
              = Index!SizeIn(scan.events, q, Index!SizeIn(indexOutbox, q, known[q]))
        BY <1>0, <2>2, SizeOfBoth DEF IndexTypes
      <4> QED
        BY <1>0, <2>1, <4>1, Zenon DEF AnnouncedInv
    <3> QED
      BY <2>1, <2>3, <3>1, Zenon DEF AnnouncedInv
  <2>7. LookedAtInv'
    BY <1>0, <2>1, <2>3 DEF LookedAtInv
  <2> QED
    BY <2>4, <2>5, <2>6, <2>7 DEF IndexInv
<1>3. CASE Index!ScanEnds
  <2>1. /\ indexFaults < MaxFaults /\ indexFaults' = indexFaults + 1
        /\ scan' = [on |-> FALSE, todo |-> {}, games |-> <<>>, events |-> <<>>, seen |-> {}]
        /\ UNCHANGED <<disk, games, coverRows, indexFetch, indexStored, indexOutbox, known,
                       metadata, scans, indexFetches, stale>>
    BY <1>3 DEF Index!ScanEnds, Index!NoScan, Index!RolledBack
  <2>2. scan' \in ScanState /\ ~ scan'.on
    <3>1. <<>> \in Seq(IndexEvent)
      OBVIOUS
    <3> QED
      BY <2>1, <3>1 DEF ScanState
  <2>3. IndexTypes'
    BY <1>0, <2>1, <2>2 DEF IndexTypes
  <2>4. CoverTypes'
    BY <1>0, <2>1, Zenon DEF CoverTypes
  <2>5. IndexBounds'
    <3>1. indexFaults + 1 \in 0..MaxFaults
      BY <1>0, <2>1, CountsUp, IndexNumbers DEF IndexBounds
    <3> QED
      BY <1>0, <2>1, <3>1, Zenon DEF IndexBounds
  <2>6. AnnouncedInv' /\ LookedAtInv'
    BY <1>0, <2>1, <2>2, Zenon DEF AnnouncedInv, LookedAtInv
  <2> QED
    BY <2>3, <2>4, <2>5, <2>6 DEF IndexInv
<1>4. CASE Index!BeginFetch
  <2>1. /\ indexFetches < MaxFetches /\ indexFetches' = indexFetches + 1
        /\ indexFetch' = [on |-> Index!Uncovered # {}, todo |-> Index!Uncovered]
        /\ UNCHANGED <<disk, games, scan, coverRows, indexStored, indexOutbox, known, metadata,
                       scans, indexFaults, stale>>
    BY <1>4 DEF Index!BeginFetch
  <2>2. Index!Uncovered \subseteq coverRows
    BY DEF Index!Uncovered
  <2>3. indexFetch'.todo = Index!Uncovered /\ DOMAIN indexFetch' = {"on", "todo"}
    BY <2>1
  <2>4. CoverTypes'
    BY <1>0, <2>1, <2>2, <2>3 DEF CoverTypes
  <2>5. IndexBounds'
    <3>1. indexFetches + 1 \in 0..MaxFetches
      BY <1>0, <2>1, CountsUp, IndexNumbers DEF IndexBounds
    <3> QED
      BY <1>0, <2>1, <3>1, Zenon DEF IndexBounds
  <2> QED
    BY <2>1, <2>4, <2>5, IndexBesides DEF IndexAside
<1>5. CASE Index!ReportCover
  <2>1. /\ indexStored # "no title"
        /\ indexOutbox' = Append(indexOutbox, [kind |-> "metadata", title |-> indexStored, cover |-> TRUE])
        /\ indexStored' = "no title"
        /\ UNCHANGED <<disk, games, scan, coverRows, indexFetch, known, metadata, scans,
                       indexFetches, indexFaults, stale>>
    BY <1>5 DEF Index!ReportCover, Index!NoTitle
  <2> DEFINE cover == [kind |-> "metadata", title |-> indexStored, cover |-> TRUE]
  <2>2. cover \in IndexEvent /\ cover.kind # "rom"
    BY <1>0, <2>1 DEF IndexEvent, CoverEvent, CoverTypes
  <2>3. indexOutbox' = Append(indexOutbox, cover)
    BY <2>1
  <2> HIDE DEF cover
  <2>4. IndexTypes'
    <3>1. indexOutbox' \in Seq(IndexEvent)
      <4>1. indexOutbox \in Seq(IndexEvent)
        BY <1>0 DEF IndexTypes
      <4> QED
        BY <2>2, <2>3, <4>1
    <3> QED
      BY <1>0, <2>1, <3>1, Zenon DEF IndexTypes
  <2>5. CoverTypes' /\ IndexBounds'
    BY <1>0, <2>1, Zenon DEF CoverTypes, IndexBounds
  <2>6. AnnouncedInv'
    <3>1. \A q \in Games : Index!SizeIn(Append(indexOutbox, cover), q, known[q])
                             = Index!SizeIn(indexOutbox, q, known[q])
      BY <1>0, <2>2, SizeOfAppended DEF IndexTypes
    <3> QED
      BY <1>0, <2>1, <2>3, <3>1, Zenon DEF AnnouncedInv
  <2>7. LookedAtInv'
    BY <1>0, <2>1, Zenon DEF LookedAtInv
  <2> QED
    BY <2>4, <2>5, <2>6, <2>7 DEF IndexInv
<1>6. CASE Index!EndFetch
  <2>1. /\ indexFetch' = [on |-> FALSE, todo |-> {}]
        /\ UNCHANGED <<disk, games, scan, coverRows, indexStored, indexOutbox, known, metadata,
                       scans, indexFetches, indexFaults, stale>>
    BY <1>6 DEF Index!EndFetch, Index!NoFetch
  <2>2. CoverTypes'
    BY <1>0, <2>1 DEF CoverTypes
  <2>3. IndexBounds'
    BY <1>0, <2>1, Zenon DEF IndexBounds
  <2> QED
    BY <2>1, <2>2, <2>3, IndexBesides DEF IndexAside
<1>7. CASE Index!FetchKilled
  <2>1. /\ indexFaults < MaxFaults /\ indexFaults' = indexFaults + 1
        /\ indexFetch' = [on |-> FALSE, todo |-> {}] /\ indexStored' = "no title"
        /\ UNCHANGED <<disk, games, scan, coverRows, indexOutbox, known, metadata, scans,
                       indexFetches, stale>>
    BY <1>7 DEF Index!FetchKilled, Index!NoFetch, Index!NoTitle
  <2>2. CoverTypes'
    BY <1>0, <2>1 DEF CoverTypes
  <2>3. IndexBounds'
    <3>1. indexFaults + 1 \in 0..MaxFaults
      BY <1>0, <2>1, CountsUp, IndexNumbers DEF IndexBounds
    <3> QED
      BY <1>0, <2>1, <3>1, Zenon DEF IndexBounds
  <2> QED
    BY <2>1, <2>2, <2>3, IndexBesides DEF IndexAside
<1>8. ASSUME NEW row \in indexFetch.todo, Index!Store(row) PROVE IndexInv'
  <2>1. /\ coverRows' = {other \in coverRows : other.title # row.title}
                          \union {[id |-> 1 + Index!Max({other.id : other \in coverRows}),
                                   title |-> row.title, cover |-> TRUE]}
        /\ indexStored' = row.title
        /\ indexFetch' = [indexFetch EXCEPT !.todo = indexFetch.todo \ {row}]
        /\ UNCHANGED <<disk, games, scan, indexOutbox, known, metadata, scans,
                       indexFetches, indexFaults, stale>>
    BY <1>8 DEF Index!Store
  <2>2. row.title \in Titles
    BY <1>0 DEF CoverTypes
  <2>3. \A other \in coverRows' : other.title \in Titles
    <3>1. PICK n : coverRows' = {other \in coverRows : other.title # row.title}
                                  \union {[id |-> n, title |-> row.title, cover |-> TRUE]}
      BY <2>1
    <3> DEFINE stored == [id |-> n, title |-> row.title, cover |-> TRUE]
    <3>2. stored.title = row.title /\ coverRows' \subseteq coverRows \union {stored}
      BY <3>1
    <3> HIDE DEF stored
    <3> QED
      BY <1>0, <2>2, <3>2 DEF CoverTypes
  <2>4. indexFetch'.todo = indexFetch.todo \ {row} /\ DOMAIN indexFetch' = {"on", "todo"}
    BY <1>0, <2>1 DEF CoverTypes
  <2>5. CoverTypes'
    BY <1>0, <2>1, <2>2, <2>3, <2>4 DEF CoverTypes
  <2>6. IndexBounds'
    BY <1>0, <2>1, Zenon DEF IndexBounds
  <2> QED
    BY <2>1, <2>5, <2>6, IndexBesides DEF IndexAside
<1>9. ASSUME NEW row \in indexFetch.todo, Index!LookUpFails(row) PROVE IndexInv'
  <2>1. /\ indexFetch' = [indexFetch EXCEPT !.todo = indexFetch.todo \ {row}]
        /\ UNCHANGED <<disk, games, scan, coverRows, indexStored, indexOutbox, known, metadata,
                       scans, indexFetches, indexFaults, stale>>
    BY <1>9 DEF Index!LookUpFails
  <2>2. indexFetch'.todo = indexFetch.todo \ {row} /\ DOMAIN indexFetch' = {"on", "todo"}
    BY <1>0, <2>1 DEF CoverTypes
  <2>3. CoverTypes'
    BY <1>0, <2>1, <2>2 DEF CoverTypes
  <2>4. IndexBounds'
    BY <1>0, <2>1, Zenon DEF IndexBounds
  <2> QED
    BY <2>1, <2>3, <2>4, IndexBesides DEF IndexAside
<1>10. CASE Index!Deliver
  <2>1. /\ indexOutbox # <<>> /\ indexOutbox' = Tail(indexOutbox)
        /\ UNCHANGED <<disk, games, scan, coverRows, indexFetch, indexStored, scans,
                       indexFetches, indexFaults, stale>>
    BY <1>10 DEF Index!Deliver
  <2> DEFINE first == Head(indexOutbox)
  <2>2. /\ indexOutbox \in Seq(IndexEvent) /\ Tail(indexOutbox) \in Seq(IndexEvent)
        /\ first \in IndexEvent
    BY <1>0, <2>1 DEF IndexTypes
  <2>3. /\ first.kind = "rom" => known' = [known EXCEPT ![first.rom] = first.size]
                                 /\ metadata' = metadata
        /\ first.kind # "rom" =>
             /\ \/ metadata' = [metadata EXCEPT ![first.title] =
                                  Index!Merged(metadata[first.title], first)]
                \/ UNCHANGED metadata
             /\ known' = known
    BY <1>10 DEF Index!Deliver
  <2>4. /\ first.kind = "rom" => first.rom \in Games /\ first.size \in Sizes \union {0}
        /\ first.kind # "rom" => first.title \in Titles /\ first.cover \in BOOLEAN
    BY <2>2 DEF IndexEvent, RomEvent, CoverEvent
  <2> HIDE DEF first
  <2>5. known' \in SizeTable /\ \A q \in Games :
           known'[q] = IF first.kind = "rom" /\ first.rom = q THEN first.size ELSE known[q]
    BY <1>0, <2>3, <2>4 DEF IndexTypes, SizeTable
  <2>6. metadata' \in [Titles -> [row : BOOLEAN, cover : BOOLEAN]]
    <3>1. CASE first.kind = "rom"
      BY <1>0, <2>3, <3>1 DEF IndexTypes
    <3>2. CASE first.kind # "rom"
      <4>1. Index!Merged(metadata[first.title], first) \in [row : BOOLEAN, cover : BOOLEAN]
        BY <1>0, <2>4, <3>2 DEF Index!Merged, IndexTypes
      <4> QED
        BY <1>0, <2>3, <3>2, <4>1 DEF IndexTypes
    <3> QED
      BY <3>1, <3>2
  <2>7. IndexTypes'
    BY <1>0, <2>1, <2>2, <2>5, <2>6 DEF IndexTypes
  <2>8. CoverTypes' /\ IndexBounds'
    BY <1>0, <2>1, Zenon DEF CoverTypes, IndexBounds
  <2>9. AnnouncedInv'
    <3>1. \A q \in Games : Index!SizeIn(indexOutbox, q, known[q])
            = Index!SizeIn(Tail(indexOutbox), q, IF first.kind = "rom" /\ first.rom = q
                                                THEN first.size ELSE known[q])
      BY <2>1, <2>2, SizeOfRest DEF first
    <3>2. \A q \in Games : Index!SizeIn(Tail(indexOutbox), q, known'[q])
            = Index!SizeIn(indexOutbox, q, known[q])
      BY <2>5, <3>1, Zenon
    <3> QED
      BY <1>0, <2>1, <3>2, Zenon DEF AnnouncedInv
  <2>10. LookedAtInv'
    BY <1>0, <2>1, Zenon DEF LookedAtInv
  <2> QED
    BY <2>7, <2>8, <2>9, <2>10 DEF IndexInv
<1>11. ASSUME NEW r \in Games, Index!Change(r) PROVE IndexInv'
  BY <1>11, IndexChange
<1>12. ASSUME NEW r \in Games, Index!LookAt(r) PROVE IndexInv'
  BY <1>12, IndexLookAt
<1>13. ASSUME NEW r \in Games, Index!PassOver(r) PROVE IndexInv'
  BY <1>13, IndexPassOver
<1> QED
  BY <1>1, <1>2, <1>3, <1>4, <1>5, <1>6, <1>7, <1>8, <1>9, <1>10, <1>11, <1>12, <1>13
    DEF Index!Next

LEMMA IndexAgrees == IndexInv => Index!TypeOK /\ Index!IndexIsAnnounced /\ Index!CardIsKnown
<1> SUFFICES ASSUME IndexInv PROVE Index!TypeOK /\ Index!IndexIsAnnounced /\ Index!CardIsKnown
  OBVIOUS
<1>0. IndexTypes /\ CoverTypes /\ IndexBounds /\ AnnouncedInv /\ LookedAtInv
  BY DEF IndexInv
<1>1. Index!TypeOK
  BY <1>0 DEF IndexTypes, CoverTypes, IndexBounds, SizeTable, Index!TypeOK, Index!Absent, Index!NoTitle
<1>2. Index!IndexIsAnnounced
  BY <1>0 DEF AnnouncedInv, Index!IndexIsAnnounced, Index!Announced
<1>3. Index!CardIsKnown
  <2> SUFFICES ASSUME indexOutbox = <<>>, NEW r \in Games \ stale, disk[r] # 0
               PROVE  known[r] = disk[r]
    BY DEF Index!CardIsKnown, Index!Absent
  <2>1. Index!SizeIn(indexOutbox, r, known[r]) = known[r]
    BY SizeOfNone
  <2> QED
    BY <1>0, <2>1 DEF AnnouncedInv, LookedAtInv
<1> QED
  BY <1>1, <1>2, <1>3

\* A cover the server has stays.
LEMMA CoversKept ==
    ASSUME IndexInv, Index!Next
    PROVE  Index!CoverStays
<1>1. CASE UNCHANGED metadata
  BY <1>1 DEF Index!CoverStays
<1>2. CASE Index!Deliver
  <2> DEFINE first == Head(indexOutbox)
  <2>1. metadata \in [Titles -> [row : BOOLEAN, cover : BOOLEAN]]
    BY DEF IndexInv, IndexTypes
  <2>2. first.kind = "rom" => UNCHANGED metadata
    BY <1>2 DEF Index!Deliver
  <2>3. first.kind # "rom" => \/ metadata' = [metadata EXCEPT ![first.title] =
                                  Index!Merged(metadata[first.title], first)]
                              \/ UNCHANGED metadata
    BY <1>2 DEF Index!Deliver
  <2>4. \A t \in Titles : metadata[t].cover => Index!Merged(metadata[t], first).cover
    BY DEF Index!Merged
  <2> HIDE DEF first
  <2>5. CASE first.kind # "rom"
    BY <2>1, <2>3, <2>4, <2>5 DEF Index!CoverStays
  <2> QED
    BY <1>1, <2>2, <2>5
<1> QED
  BY <1>1, <1>2 DEF Index!Next, Index!Change, Index!LookAt, Index!PassOver, Index!BeginScan, Index!Commit,
    Index!ScanEnds, Index!Store, Index!LookUpFails, Index!BeginFetch, Index!ReportCover,
    Index!EndFetch, Index!FetchKilled

-----------------------------------------------------------------------------
(* Sequences of events: what is in them, and what comes before what        *)

LEMMA Upwards ==
    ASSUME NEW N \in Nat, NEW S, 0 \in S, \A n \in 1..N : n - 1 \in S => n \in S
    PROVE  0..N \subseteq S
<1> DEFINE missed == (0..N) \ S
<1>1. SUFFICES ASSUME missed # {} PROVE FALSE
  OBVIOUS
<1>2. missed \subseteq Nat
  OBVIOUS
<1>3. PICK m \in missed : \A n \in missed : ~ (<<n, m>> \in OpToRel(<, Nat))
  <2> HIDE DEF missed
  <2>1. IsWellFoundedOn(OpToRel(<, Nat), Nat)
    BY NatLessThanWellFounded
  <2> QED
    BY <1>1, <1>2, <2>1, WFMin
<1>4. m \in 1..N /\ m - 1 \in 0..N
  OBVIOUS
<1>5. <<m - 1, m>> \in OpToRel(<, Nat)
  <2>1. m \in Nat /\ m - 1 \in Nat /\ m - 1 < m
    BY <1>4
  <2> QED
    BY <2>1 DEF OpToRel
<1>6. m - 1 \notin missed
  BY <1>3, <1>5, Zenon
<1> QED
  BY <1>4, <1>6

In(q) == {q[i] : i \in DOMAIN q}

Before(q, y, x) == \E i, j \in DOMAIN q : i < j /\ q[i] = y /\ q[j] = x

\* r has those of the first n of q that are in S, in their order.
Picks(q, n, S, r) ==
    /\ \A a \in DOMAIN r : r[a] \in S /\ \E i \in 1..n : r[a] = q[i]
    /\ \A i \in 1..n : q[i] \in S => \E a \in DOMAIN r : r[a] = q[i]
    /\ \A a, b \in DOMAIN r : a < b => \E i, j \in 1..n : i < j /\ r[a] = q[i] /\ r[b] = q[j]

LEMMA PicksNext ==
    ASSUME NEW T, NEW q \in Seq(T), NEW S, NEW n \in 1..Len(q),
           NEW r \in Seq(T), Picks(q, n - 1, S, r)
    PROVE  /\ q[n] \in S => Append(r, q[n]) \in Seq(T) /\ Picks(q, n, S, Append(r, q[n]))
           /\ q[n] \notin S => Picks(q, n, S, r)
<1>1. /\ n \in Nat /\ n - 1 \in Nat /\ n \in 1..n /\ \A i \in 1..n - 1 : i \in 1..n /\ i < n
      /\ \A i \in 1..n : i = n \/ i \in 1..n - 1
  OBVIOUS
<1>2. q[n] \in T
  OBVIOUS
<1>3. /\ \A a \in DOMAIN r : r[a] \in S /\ \E i \in 1..n - 1 : r[a] = q[i]
      /\ \A i \in 1..n - 1 : q[i] \in S => \E a \in DOMAIN r : r[a] = q[i]
      /\ \A a, b \in DOMAIN r : a < b => \E i, j \in 1..n - 1 : i < j /\ r[a] = q[i] /\ r[b] = q[j]
  BY DEF Picks
<1>4. ASSUME q[n] \notin S PROVE Picks(q, n, S, r)
  <2>1. \A a \in DOMAIN r : r[a] \in S /\ \E i \in 1..n : r[a] = q[i]
    BY <1>1, <1>3
  <2>2. \A i \in 1..n : q[i] \in S => \E a \in DOMAIN r : r[a] = q[i]
    BY <1>1, <1>3, <1>4
  <2>3. ASSUME NEW a \in DOMAIN r, NEW b \in DOMAIN r, a < b
        PROVE  \E i, j \in 1..n : i < j /\ r[a] = q[i] /\ r[b] = q[j]
    <3>1. PICK i \in 1..n - 1, j \in 1..n - 1 : i < j /\ r[a] = q[i] /\ r[b] = q[j]
      BY <1>3, <2>3
    <3> QED
      BY <1>1, <3>1
  <2> QED
    BY <2>1, <2>2, <2>3, Zenon DEF Picks
<1>5. ASSUME q[n] \in S PROVE Append(r, q[n]) \in Seq(T) /\ Picks(q, n, S, Append(r, q[n]))
  <2> DEFINE s == Append(r, q[n])
             k == Len(r) + 1
  <2>1. /\ s \in Seq(T) /\ DOMAIN s = DOMAIN r \union {k} /\ s[k] = q[n]
        /\ \A a \in DOMAIN r : s[a] = r[a] /\ a < k /\ ~ (k < a)
        /\ ~ (k < k) /\ k \in DOMAIN s
    BY <1>2
  <2> HIDE DEF s, k
  <2>2. \A a \in DOMAIN s : s[a] \in S /\ \E i \in 1..n : s[a] = q[i]
    BY <1>1, <1>3, <1>5, <2>1
  <2>3. ASSUME NEW i \in 1..n, q[i] \in S PROVE \E a \in DOMAIN s : s[a] = q[i]
    <3>1. CASE i = n
      BY <2>1, <3>1
    <3>2. CASE i # n
      <4>1. i \in 1..n - 1
        BY <1>1, <3>2
      <4>2. PICK a \in DOMAIN r : r[a] = q[i]
        BY <1>3, <2>3, <4>1
      <4> QED
        BY <2>1, <4>2
    <3> QED
      BY <3>1, <3>2
  <2>4. ASSUME NEW a \in DOMAIN s, NEW b \in DOMAIN s, a < b
        PROVE  \E i, j \in 1..n : i < j /\ s[a] = q[i] /\ s[b] = q[j]
    <3>1. a \in DOMAIN r
      BY <2>1, <2>4
    <3>2. CASE b \in DOMAIN r
      <4>1. PICK i \in 1..n - 1, j \in 1..n - 1 : i < j /\ r[a] = q[i] /\ r[b] = q[j]
        BY <1>3, <2>4, <3>1, <3>2
      <4>2. s[a] = r[a] /\ s[b] = r[b] /\ i \in 1..n /\ j \in 1..n
        BY <1>1, <2>1, <3>1, <3>2
      <4> QED
        BY <4>1, <4>2
    <3>3. CASE b = k
      <4>1. PICK i \in 1..n - 1 : r[a] = q[i]
        BY <1>3, <3>1
      <4> QED
        BY <1>1, <2>1, <3>1, <3>3, <4>1
    <3> QED
      BY <2>1, <3>2, <3>3
  <2>5. Picks(q, n, S, s)
    BY <2>2, <2>3, <2>4 DEF Picks
  <2> QED
    BY <2>1, <2>5 DEF s
<1> QED
  BY <1>4, <1>5

\* The steps by which Only goes through a sequence.
Sieve(q, S, f) ==
    /\ f[0] = <<>>
    /\ \A n \in 1..Len(q) : f[n] = IF q[n] \in S THEN Append(f[n - 1], q[n]) ELSE f[n - 1]

LEMMA SievePicks ==
    ASSUME NEW T, NEW q \in Seq(T), NEW S, NEW f, Sieve(q, S, f)
    PROVE  \A n \in 0..Len(q) : f[n] \in Seq(T) /\ Picks(q, n, S, f[n])
<1> DEFINE Good == {n \in 0..Len(q) : f[n] \in Seq(T) /\ Picks(q, n, S, f[n])}
<1>0. Len(q) \in Nat
  OBVIOUS
<1>1. 0 \in Good
  <2> DEFINE none == <<>>
  <2>1. none \in Seq(T) /\ DOMAIN none = {} /\ 1..0 = {}
    OBVIOUS
  <2> HIDE DEF none
  <2>2. Picks(q, 0, S, none)
    BY <2>1 DEF Picks
  <2>3. f[0] = none
    BY DEF Sieve, none
  <2>4. f[0] \in Seq(T) /\ Picks(q, 0, S, f[0])
    BY <2>1, <2>2, <2>3, Zenon
  <2> QED
    BY <1>0, <2>4
<1>2. ASSUME NEW n \in 1..Len(q), n - 1 \in Good PROVE n \in Good
  <2> DEFINE r == f[n - 1]
  <2>1. r \in Seq(T) /\ Picks(q, n - 1, S, r)
    BY <1>2
  <2>2. f[n] = IF q[n] \in S THEN Append(r, q[n]) ELSE r
    BY DEF Sieve
  <2> HIDE DEF r, Good
  <2>3. f[n] \in Seq(T) /\ Picks(q, n, S, f[n])
    BY <2>1, <2>2, PicksNext, Zenon
  <2> QED
    BY <2>3 DEF Good
<1>3. 0..Len(q) \subseteq Good
  <2> HIDE DEF Good
  <2> QED
    BY <1>0, <1>1, <1>2, Upwards
<1> QED
  BY <1>3

LEMMA SieveExists ==
    ASSUME NEW T, NEW q \in Seq(T), NEW S
    PROVE  \E f : DOMAIN f = 0..Len(q) /\ f = [n \in DOMAIN f |-> f[n]] /\ Sieve(q, S, f)
<1> DEFINE Sieved(m, f) ==
             /\ DOMAIN f = 0..m /\ f = [n \in DOMAIN f |-> f[n]] /\ f[0] = <<>>
             /\ \A n \in 1..m : f[n] = IF q[n] \in S THEN Append(f[n - 1], q[n]) ELSE f[n - 1]
           Has(m) == \E f : Sieved(m, f)
           Good == {m \in 0..Len(q) : Has(m)}
<1>0. Len(q) \in Nat
  OBVIOUS
<1>1. 0 \in Good
  <2> DEFINE f == [n \in 0..0 |-> <<>>]
  <2>1. Sieved(0, f)
    OBVIOUS
  <2>2. Has(0)
    BY <2>1
  <2> HIDE DEF Has
  <2> QED
    BY <1>0, <2>2
<1>2. ASSUME NEW m \in 1..Len(q), m - 1 \in Good PROVE m \in Good
  <2>1. PICK f : Sieved(m - 1, f)
    <3>1. Has(m - 1)
      <4> HIDE DEF Has
      <4> QED
        BY <1>2
    <3> QED
      BY <3>1
  <2> DEFINE g == [n \in 0..m |-> IF n < m THEN f[n]
                                  ELSE IF q[m] \in S THEN Append(f[m - 1], q[m])
                                  ELSE f[m - 1]]
  <2>2. ASSUME NEW n \in 1..m
        PROVE  g[n] = IF q[n] \in S THEN Append(g[n - 1], q[n]) ELSE g[n - 1]
    <3>1. g[n - 1] = f[n - 1]
      OBVIOUS
    <3>2. CASE n = m
      BY <3>1, <3>2
    <3>3. CASE n < m
      <4>1. n \in 1..m - 1 /\ g[n] = f[n]
        BY <3>3
      <4> QED
        BY <2>1, <3>1, <4>1
    <3> QED
      BY <3>2, <3>3
  <2>3. DOMAIN g = 0..m /\ g = [n \in DOMAIN g |-> g[n]]
    OBVIOUS
  <2>4. g[0] = <<>>
    BY <2>1
  <2>5. Has(m)
    <3> HIDE DEF g
    <3> QED
      BY <2>2, <2>3, <2>4
  <2> HIDE DEF Has
  <2> QED
    BY <2>5
<1>3. Len(q) \in Good
  <2> HIDE DEF Good
  <2>1. 0..Len(q) \subseteq Good
    BY <1>0, <1>1, <1>2, Upwards
  <2> QED
    BY <1>0, <2>1
<1>4. Has(Len(q))
  <2> HIDE DEF Has
  <2> QED
    BY <1>3
<1> QED
  BY <1>4 DEF Sieve

LEMMA OnlyIs ==
    ASSUME NEW T, NEW q \in Seq(T), NEW S
    PROVE  \E f : Sieve(q, S, f) /\ Pages!Only(q, S) = f[Len(q)]
<1> DEFINE step(f) == [i \in 0..Len(q) |->
                         IF i = 0 THEN <<>>
                         ELSE IF q[i] \in S THEN Append(f[i - 1], q[i]) ELSE f[i - 1]]
           g == CHOOSE f : f = step(f)
<1>1. Pages!Only(q, S) = g[Len(q)]
  BY DEF Pages!Only
<1>2. PICK f : DOMAIN f = 0..Len(q) /\ f = [n \in DOMAIN f |-> f[n]] /\ Sieve(q, S, f)
  BY SieveExists
<1>3. f = step(f)
  <2>1. \A i \in 0..Len(q) : f[i] = step(f)[i]
    <3> TAKE i \in 0..Len(q)
    <3>1. CASE i = 0
      BY <1>2, <3>1 DEF Sieve
    <3>2. CASE i # 0
      <4>1. i \in 1..Len(q)
        BY <3>2
      <4> QED
        BY <1>2, <3>2, <4>1 DEF Sieve
    <3> QED
      BY <3>1, <3>2
  <2>2. f = [i \in 0..Len(q) |-> f[i]]
    BY <1>2
  <2>3. step(f) = [i \in 0..Len(q) |-> step(f)[i]]
    OBVIOUS
  <2> HIDE DEF step
  <2> QED
    BY <2>1, <2>2, <2>3
<1>4. g = step(g)
  <2> HIDE DEF step
  <2> QED
    BY <1>3
<1>5. Sieve(q, S, g)
  <2> HIDE DEF g
  <2>1. \A i \in 0..Len(q) : g[i] = step(g)[i]
    BY <1>4
  <2>2. g[0] = <<>>
    BY <2>1
  <2>3. ASSUME NEW n \in 1..Len(q)
        PROVE  g[n] = IF q[n] \in S THEN Append(g[n - 1], q[n]) ELSE g[n - 1]
    <3>1. n \in 0..Len(q) /\ n # 0
      OBVIOUS
    <3> QED
      BY <2>1, <3>1
  <2> QED
    BY <2>2, <2>3 DEF Sieve
<1> HIDE DEF g
<1> QED
  BY <1>1, <1>5

LEMMA OnlyPicks ==
    ASSUME NEW T, NEW q \in Seq(T), NEW S
    PROVE  /\ Pages!Only(q, S) \in Seq(T)
           /\ In(Pages!Only(q, S)) = In(q) \cap S
           /\ \A y, x : Before(Pages!Only(q, S), y, x) => Before(q, y, x)
<1>1. PICK f : Sieve(q, S, f) /\ Pages!Only(q, S) = f[Len(q)]
  BY OnlyIs
<1> DEFINE r == Pages!Only(q, S)
<1>2. Len(q) \in 0..Len(q) /\ DOMAIN q = 1..Len(q)
  OBVIOUS
<1>3. r \in Seq(T) /\ Picks(q, Len(q), S, r)
  <2>1. f[Len(q)] \in Seq(T) /\ Picks(q, Len(q), S, f[Len(q)])
    BY <1>1, <1>2, SievePicks
  <2> QED
    BY <1>1, <2>1
<1> HIDE DEF r
<1>4. In(r) = In(q) \cap S
  BY <1>2, <1>3 DEF Picks, In
<1>5. \A y, x : Before(r, y, x) => Before(q, y, x)
  <2> SUFFICES ASSUME NEW y, NEW x, Before(r, y, x) PROVE Before(q, y, x)
    OBVIOUS
  <2>1. PICK a \in DOMAIN r, b \in DOMAIN r : a < b /\ r[a] = y /\ r[b] = x
    BY DEF Before
  <2>2. PICK i \in 1..Len(q), j \in 1..Len(q) : i < j /\ r[a] = q[i] /\ r[b] = q[j]
    BY <1>3, <2>1 DEF Picks
  <2> QED
    BY <1>2, <2>1, <2>2 DEF Before
<1> QED
  BY <1>3, <1>4, <1>5 DEF r

\* The last of a sequence comes last, if it is kept.
LEMMA OnlyLast ==
    ASSUME NEW T, NEW q \in Seq(T), NEW S, q # <<>>, q[Len(q)] \in S
    PROVE  LET r == Pages!Only(q, S)
           IN  r # <<>> /\ r[Len(r)] = q[Len(q)]
<1>1. PICK f : Sieve(q, S, f) /\ Pages!Only(q, S) = f[Len(q)]
  BY OnlyIs
<1> DEFINE n == Len(q)
           s == f[n - 1]
<1>2. n \in 1..Len(q) /\ n - 1 \in 0..Len(q)
  OBVIOUS
<1>3. f[n] = Append(s, q[n])
  BY <1>1, <1>2 DEF Sieve
<1>4. s \in Seq(T) /\ q[n] \in T
  BY <1>1, <1>2, SievePicks
<1> HIDE DEF s
<1> DEFINE r == Append(s, q[n])
<1>5. Len(r) = Len(s) + 1 /\ Len(s) \in Nat /\ r[Len(s) + 1] = q[n] /\ Len(<<>>) = 0
  BY <1>4
<1>6. Pages!Only(q, S) = r
  BY <1>1, <1>3
<1> HIDE DEF r
<1> QED
  BY <1>5, <1>6

LEMMA BeforeIn ==
    ASSUME NEW q, NEW y, NEW x, Before(q, y, x)
    PROVE  y \in In(q) /\ x \in In(q)
  BY DEF Before, In

LEMMA Ordered ==
    ASSUME NEW T, NEW q \in Seq(T), NEW x \in In(q), NEW y \in In(q), x # y
    PROVE  Before(q, x, y) \/ Before(q, y, x)
<1>1. PICK i \in DOMAIN q, j \in DOMAIN q : q[i] = x /\ q[j] = y
  BY DEF In
<1>2. i \in Nat /\ j \in Nat /\ i # j
  BY <1>1
<1> QED
  BY <1>1, <1>2 DEF Before

LEMMA InAppend ==
    ASSUME NEW T, NEW q \in Seq(T), NEW e \in T
    PROVE  /\ Append(q, e) \in Seq(T) /\ In(Append(q, e)) = In(q) \union {e}
           /\ \A y, x : Before(Append(q, e), y, x) => Before(q, y, x) \/ (y \in In(q) /\ x = e)
<1> DEFINE s == Append(q, e)
           k == Len(q) + 1
<1>1. /\ s \in Seq(T) /\ DOMAIN s = DOMAIN q \union {k} /\ s[k] = e
      /\ \A a \in DOMAIN q : s[a] = q[a] /\ ~ (k < a)
      /\ ~ (k < k)
  OBVIOUS
<1> HIDE DEF s, k
<1>2. In(s) = In(q) \union {e}
  BY <1>1 DEF In
<1>3. ASSUME NEW y, NEW x, Before(s, y, x)
      PROVE  Before(q, y, x) \/ (y \in In(q) /\ x = e)
  <2>1. PICK a \in DOMAIN s, b \in DOMAIN s : a < b /\ s[a] = y /\ s[b] = x
    BY <1>3 DEF Before
  <2>2. a \in DOMAIN q
    BY <1>1, <2>1
  <2> QED
    BY <1>1, <2>1, <2>2 DEF Before, In
<1> QED
  BY <1>1, <1>2, <1>3 DEF s

LEMMA InBoth ==
    ASSUME NEW T, NEW p \in Seq(T), NEW q \in Seq(T)
    PROVE  /\ p \o q \in Seq(T) /\ In(p \o q) = In(p) \union In(q)
           /\ \A y, x : Before(p \o q, y, x) =>
                Before(p, y, x) \/ Before(q, y, x) \/ (y \in In(p) /\ x \in In(q))
           /\ \A y, x : (Before(p, y, x) \/ Before(q, y, x) \/ (y \in In(p) /\ x \in In(q)))
                => Before(p \o q, y, x)
<1> DEFINE m == Len(p)
           n == Len(q)
           both == p \o q
<1>1. m \in Nat /\ n \in Nat /\ DOMAIN p = 1..m /\ DOMAIN q = 1..n
  OBVIOUS
<1>2. /\ both \in Seq(T) /\ Len(both) = m + n
      /\ \A i \in 1..(m + n) : both[i] = IF i <= m THEN p[i] ELSE q[i - m]
  BY ConcatProperties
<1>3. DOMAIN both = 1..(m + n)
  BY <1>1, <1>2
<1> HIDE DEF m, n, both
<1>4. \A i \in 1..m : i \in 1..(m + n) /\ both[i] = p[i]
  BY <1>1, <1>2
<1>5. \A i \in 1..n : m + i \in 1..(m + n) /\ both[m + i] = q[i]
  <2> TAKE i \in 1..n
  <2>1. m + i \in 1..(m + n) /\ ~ (m + i <= m) /\ (m + i) - m = i
    BY <1>1
  <2>2. both[m + i] = IF m + i <= m THEN p[m + i] ELSE q[(m + i) - m]
    BY <1>2, <2>1
  <2> QED
    BY <2>1, <2>2
<1>6. \A i \in 1..(m + n) : i \in 1..m \/ \E j \in 1..n : i = m + j
  <2> TAKE i \in 1..(m + n)
  <2>1. i \in 1..m \/ (i - m \in 1..n /\ i = m + (i - m))
    BY <1>1
  <2> QED
    BY <2>1
<1>7. In(both) = In(p) \union In(q)
  <2>1. \A i \in 1..m : both[i] \in In(p)
    BY <1>1, <1>4 DEF In
  <2>2. \A i \in 1..n : both[m + i] \in In(q)
    BY <1>1, <1>5 DEF In
  <2>3. In(both) \subseteq In(p) \union In(q)
    BY <1>3, <1>6, <2>1, <2>2 DEF In
  <2>4. In(p) \subseteq In(both)
    BY <1>1, <1>3, <1>4 DEF In
  <2>5. In(q) \subseteq In(both)
    BY <1>1, <1>3, <1>5 DEF In
  <2> QED
    BY <2>3, <2>4, <2>5
<1>8. ASSUME NEW y, NEW x, Before(both, y, x)
      PROVE  Before(p, y, x) \/ Before(q, y, x) \/ (y \in In(p) /\ x \in In(q))
  <2>1. PICK a \in 1..(m + n), b \in 1..(m + n) : a < b /\ both[a] = y /\ both[b] = x
    BY <1>3, <1>8 DEF Before
  <2>2. CASE a \in 1..m /\ b \in 1..m
    BY <1>1, <1>4, <2>1, <2>2 DEF Before
  <2>3. CASE a \in 1..m /\ \E j \in 1..n : b = m + j
    <3>1. PICK j \in 1..n : b = m + j
      BY <2>3
    <3>2. p[a] = y /\ q[j] = x
      BY <1>4, <1>5, <2>1, <2>3, <3>1
    <3> QED
      BY <1>1, <2>3, <3>2 DEF In
  <2>4. CASE (\E i \in 1..n : a = m + i) /\ b \in 1..m
    BY <1>1, <2>1, <2>4
  <2>5. CASE (\E i \in 1..n : a = m + i) /\ \E j \in 1..n : b = m + j
    <3>1. PICK i \in 1..n, j \in 1..n : a = m + i /\ b = m + j
      BY <2>5
    <3>2. i < j
      BY <1>1, <2>1, <3>1
    <3>3. q[i] = y /\ q[j] = x
      BY <1>5, <2>1, <3>1
    <3> QED
      BY <1>1, <3>2, <3>3 DEF Before
  <2> QED
    BY <1>6, <2>2, <2>3, <2>4, <2>5
<1>9. ASSUME NEW y, NEW x, Before(p, y, x) PROVE Before(both, y, x)
  BY <1>1, <1>3, <1>4, <1>9 DEF Before
<1>10. ASSUME NEW y, NEW x, Before(q, y, x) PROVE Before(both, y, x)
  <2>1. PICK i \in 1..n, j \in 1..n : i < j /\ q[i] = y /\ q[j] = x
    BY <1>1, <1>10 DEF Before
  <2>2. m + i < m + j
    BY <1>1, <2>1
  <2> QED
    BY <1>3, <1>5, <2>1, <2>2 DEF Before
<1>11. ASSUME NEW y \in In(p), NEW x \in In(q) PROVE Before(both, y, x)
  <2>1. PICK i \in 1..m, j \in 1..n : p[i] = y /\ q[j] = x
    BY <1>1 DEF In
  <2>2. i < m + j
    BY <1>1
  <2> QED
    BY <1>3, <1>4, <1>5, <2>1, <2>2 DEF Before
<1> QED
  BY <1>2, <1>7, <1>8, <1>9, <1>10, <1>11 DEF both

\* A sequence is its first n and the rest.
LEMMA Split ==
    ASSUME NEW T, NEW q \in Seq(T), NEW n \in 0..Len(q)
    PROVE  /\ SubSeq(q, 1, n) \in Seq(T) /\ SubSeq(q, n + 1, Len(q)) \in Seq(T)
           /\ Len(SubSeq(q, 1, n)) = n
           /\ \A i \in 1..n : SubSeq(q, 1, n)[i] = q[i]
           /\ q = SubSeq(q, 1, n) \o SubSeq(q, n + 1, Len(q))
<1>1. Len(q) \in Nat /\ n \in Nat /\ n <= Len(q) /\ \A i \in 1..Len(q) : q[i] \in T
  OBVIOUS
<1> DEFINE p == SubSeq(q, 1, n)
           r == SubSeq(q, n + 1, Len(q))
           k == Len(q) - n
<1>2. /\ p \in Seq(T) /\ Len(p) = n /\ \A i \in 1..n : p[i] = q[i]
  BY <1>1
<1>3. k \in Nat /\ r \in Seq(T) /\ Len(r) = k /\ \A i \in 1..k : r[i] = q[n + i]
  BY <1>1
<1> HIDE DEF p, r, k
<1>4. /\ p \o r \in Seq(T) /\ Len(p \o r) = n + k
      /\ \A i \in 1..(n + k) : (p \o r)[i] = IF i <= n THEN p[i] ELSE r[i - n]
  BY <1>2, <1>3, ConcatProperties
<1>5. n + k = Len(q)
  BY <1>1 DEF k
<1>6. ASSUME NEW i \in 1..Len(q) PROVE (p \o r)[i] = q[i]
  <2>1. CASE i <= n
    <3>1. i \in 1..n
      BY <1>1, <2>1
    <3> QED
      BY <1>2, <1>4, <1>5, <2>1, <3>1
  <2>2. CASE ~ (i <= n)
    <3>1. i - n \in 1..k /\ n + (i - n) = i
      BY <1>1, <2>2 DEF k
    <3>2. r[i - n] = q[n + (i - n)]
      BY <1>3, <3>1
    <3> QED
      BY <1>4, <1>5, <2>2, <3>1, <3>2
  <2> QED
    BY <2>1, <2>2
<1>7. q = p \o r
  <2> DEFINE both == p \o r
  <2>1. both \in Seq(T) /\ Len(both) = Len(q) /\ \A i \in 1..Len(q) : both[i] = q[i]
    BY <1>4, <1>5, <1>6
  <2> HIDE DEF both
  <2>2. q = both
    BY <2>1, SeqEqual
  <2> QED
    BY <2>2 DEF both
<1> QED
  BY <1>2, <1>3, <1>7 DEF p, r

-----------------------------------------------------------------------------
(* The pages of a device (doctor.rs, audit.rs, hw.rs, sync.rs, routes.rs)   *)

Reporting == {"doctor", "audit", "snapshot"}
PageEvents == [kind : Reporting \union {"issue", "heartbeat"}, run : Nat, nth : Nat,
               severity : Severities \union {"none"}]
PageRows == [device : {"this device", ""}, run : Nat]

Final(q) == q[Len(q)]

\* Two reports of a kind, x the older
Older(x, y) == x.kind \in Reporting /\ y.kind = x.kind /\ x.run < y.run

OfARun(e) == e.kind # "heartbeat" /\ e.run \in DOMAIN runs

\* What got into the outbox and is not lost there.
Heard == In(pagesOutbox) \union In(pagesEvents)

\* Of a run, with what the runs found
Issues(problems, n) == {Pages!Issue(n, i, problems[n].found[i]) : i \in DOMAIN problems[n].found}

PageTypes ==
    /\ command \in [Commands -> Seq(PageEvents)]
    /\ runs \in Seq([kind : Reporting, found : Seq(Severities)])
    /\ pagesOutbox \in Seq(PageEvents) /\ pagesEvents \in Seq(PageEvents)
    /\ sending.events \in Seq(PageEvents)
    /\ \A r \in late : r.events \in Seq(PageEvents)
    /\ snapshots \in Seq(PageRows)

RunTypes ==
    /\ \A c \in Commands : \A e \in In(command[c]) : OfARun(e)
    /\ \A e \in In(pagesOutbox) : e = Pages!Beat \/ OfARun(e)
    /\ \A e \in In(pagesEvents) : OfARun(e)
    /\ excused \subseteq DOMAIN runs /\ dropped \subseteq DOMAIN runs
    /\ refused \subseteq DOMAIN runs /\ cut \subseteq DOMAIN runs

\* Issues of a run, and its report behind them
Shape(q) ==
    q # <<>> =>
      /\ Final(q).kind \in Reporting
      /\ \A e \in In(q) : e.run = Final(q).run
      /\ \A i \in DOMAIN q : i # Len(q) => q[i].kind = "issue"

\* Of two commands of a kind neither is alone, and no report that was is ahead of one
\* that is to come and older.
CommandInv ==
    /\ \A c \in Commands : Shape(command[c])
    /\ \A c, d \in Commands :
         c # d /\ command[c] # <<>> /\ command[d] # <<>>
           /\ Final(command[c]).kind = Final(command[d]).kind => Final(command[c]).run \in excused
    /\ \A c \in Commands, y \in Heard :
         command[c] # <<>> /\ Older(Final(command[c]), y) => y.run \in excused

\* The issues of a run are ahead of its report.
FoundInv ==
    /\ \A c \in Commands :
         command[c] # <<>> /\ Final(command[c]).kind = "doctor" /\ Final(command[c]).run \notin dropped
           => Issues(runs, Final(command[c]).run) \subseteq In(command[c]) \union Heard
    /\ \A e \in Heard : e.kind = "doctor" /\ e.run \notin dropped => Issues(runs, e.run) \subseteq Heard

InOrder(q) == \A y, x : Before(q, y, x) /\ Older(x, y) => y.run \in excused

\* The request is the beginning of the outbox; what is stored is older than what waits.
OutboxInv ==
    /\ InOrder(pagesOutbox)
    /\ Len(sending.events) <= Len(pagesOutbox)
    /\ \A i \in 1..Len(sending.events) : sending.events[i] = pagesOutbox[i]
    /\ \A y \in In(pagesEvents), x \in In(pagesOutbox) :
         Older(x, y) /\ y.run \notin excused => x \in In(pagesEvents) \/ x.run \in refused

\* So it is for a request the agent gave up.
LateInv ==
    \A r \in late :
      /\ In(r.events) \subseteq Heard \union {Pages!Beat}
      /\ InOrder(r.events)
      /\ \A y \in In(r.events), x \in In(pagesOutbox) :
           Older(x, y) /\ y.run \notin excused => x \in In(pagesEvents) \union In(r.events)

\* The rows are in the order in which the reports were made.
StoredInv ==
    /\ \A y, x : Before(pagesEvents, y, x) /\ Older(x, y) => y.run \in excused \/ x.run \in refused
    /\ \A y, x : Before(snapshots, y, x) /\ y.device = "this device" /\ x.device = "this device"
         /\ x.run < y.run => y.run \in excused \/ x.run \in refused
    /\ \A s \in In(snapshots) : s.device = "this device" =>
         \E e \in In(pagesEvents) : e.kind = "snapshot" /\ e.run = s.run
    /\ \A e \in In(pagesEvents) : e.kind = "snapshot" =>
         e.run \in cut \/ [device |-> "this device", run |-> e.run] \in In(snapshots)

SeedInv ==
    /\ server \in {"down", "seeding", "up"} /\ catalog \in 0..Items
    /\ server = "seeding" => catalog < Items
    /\ server # "seeding" => catalog \in {0, Items} \/ seedCut
    /\ server = "up" => catalog = Items \/ seedCut

ReportsInv ==
    /\ PageTypes /\ RunTypes /\ CommandInv /\ FoundInv /\ OutboxInv /\ LateInv /\ StoredInv

LEMMA KnownIs ==
    /\ Pages!Known = In(pagesEvents)
    /\ \A q : Pages!ToSet(q) = In(q)
  BY DEF Pages!Known, Pages!ToSet, In

LEMMA BeatIs ==
    /\ Pages!Beat \in PageEvents /\ Pages!Beat.kind = "heartbeat"
    /\ \A x : ~ Older(Pages!Beat, x) /\ ~ Older(x, Pages!Beat)
    /\ \A e : OfARun(e) => e # Pages!Beat
<1>1. Pages!Beat = [kind |-> "heartbeat", run |-> 0, nth |-> 0, severity |-> "none"]
  BY DEF Pages!Beat, Pages!Unrated
<1>2. Pages!Beat \in PageEvents /\ Pages!Beat.kind = "heartbeat"
  BY <1>1 DEF PageEvents
<1>3. ASSUME NEW x PROVE ~ Older(Pages!Beat, x) /\ ~ Older(x, Pages!Beat)
  BY <1>2 DEF Older, Reporting
<1> QED
  BY <1>2, <1>3 DEF OfARun

LEMMA EventIs ==
    ASSUME NEW e \in PageEvents
    PROVE  e.run \in Nat /\ e.kind \in Reporting \union {"issue", "heartbeat"}
  BY DEF PageEvents

LEMMA InSeq ==
    ASSUME NEW T, NEW q \in Seq(T)
    PROVE  In(q) \subseteq T
  BY DEF In

LEMMA TailLength ==
    ASSUME NEW T, NEW q \in Seq(T), q # <<>>
    PROVE  /\ Len(q) \in Nat /\ Len(q) >= 1 /\ DOMAIN q = 1..Len(q) /\ Head(q) = q[1]
           /\ Tail(q) \in Seq(T) /\ Len(Tail(q)) = Len(q) - 1
           /\ \A i \in 1..Len(q) - 1 : Tail(q)[i] = q[i + 1]
           /\ Tail(q) = <<>> <=> Len(q) = 1
<1>1. Len(q) \in Nat /\ Len(q) >= 1 /\ DOMAIN q = 1..Len(q) /\ Head(q) = q[1]
  OBVIOUS
<1>2. Tail(q) \in Seq(T) /\ Len(Tail(q)) = Len(q) - 1
      /\ \A i \in 1..Len(q) - 1 : Tail(q)[i] = q[i + 1]
  OBVIOUS
<1>3. \A r \in Seq(T) : r = <<>> <=> Len(r) = 0
  OBVIOUS
<1>4. Tail(q) = <<>> <=> Len(Tail(q)) = 0
  BY <1>2, <1>3, Zenon
<1> QED
  BY <1>1, <1>2, <1>4

LEMMA TailIs ==
    ASSUME NEW T, NEW q \in Seq(T), q # <<>>
    PROVE  /\ Head(q) \in In(q) /\ Tail(q) \in Seq(T)
           /\ In(q) = In(Tail(q)) \union {Head(q)}
           /\ Tail(q) # <<>> => Final(Tail(q)) = Final(q)
           /\ Tail(q) = <<>> => Head(q) = Final(q)
           /\ Final(q) \in In(q)
<1> DEFINE n == Len(q)
           r == Tail(q)
<1>1. /\ n \in Nat /\ n >= 1 /\ DOMAIN q = 1..n /\ Head(q) = q[1]
      /\ r \in Seq(T) /\ Len(r) = n - 1 /\ DOMAIN r = 1..n - 1
      /\ \A i \in 1..n - 1 : r[i] = q[i + 1]
      /\ r = <<>> <=> n = 1
  BY TailLength
<1> HIDE DEF n, r
<1>2. \A i \in 1..n : i = 1 \/ (i - 1 \in 1..n - 1 /\ (i - 1) + 1 = i)
  BY <1>1
<1>3. \A i \in 1..n - 1 : i + 1 \in 1..n
  BY <1>1
<1>4. 1 \in 1..n /\ n \in 1..n
  BY <1>1
<1>5. In(q) = In(r) \union {Head(q)}
  <2>1. In(r) \subseteq In(q)
    BY <1>1, <1>3 DEF In
  <2>2. ASSUME NEW i \in 1..n PROVE q[i] \in In(r) \union {Head(q)}
    <3>1. CASE i = 1
      BY <1>1, <3>1
    <3>2. CASE i # 1
      <4>1. i - 1 \in 1..n - 1 /\ r[i - 1] = q[i]
        BY <1>1, <1>2, <3>2
      <4> QED
        BY <1>1, <4>1 DEF In
    <3> QED
      BY <3>1, <3>2
  <2>3. Head(q) \in In(q)
    BY <1>1, <1>4 DEF In
  <2>4. In(q) \subseteq In(r) \union {Head(q)}
    BY <1>1, <2>2 DEF In
  <2> QED
    BY <2>1, <2>3, <2>4
<1>6. r # <<>> => Final(r) = Final(q)
  <2>1. r # <<>> => n - 1 \in 1..n - 1 /\ r[n - 1] = q[(n - 1) + 1] /\ (n - 1) + 1 = n
    BY <1>1
  <2> QED
    BY <1>1, <2>1 DEF Final, n
<1>7. r = <<>> => Head(q) = Final(q)
  BY <1>1 DEF Final, n
<1>8. Final(q) \in In(q)
  BY <1>1, <1>4 DEF Final, In, n
<1> QED
  BY <1>1, <1>4, <1>5, <1>6, <1>7, <1>8 DEF r

LEMMA ShapeOfTail ==
    ASSUME NEW T, NEW q \in Seq(T), q # <<>>, Shape(q)
    PROVE  /\ Shape(Tail(q))
           /\ Head(q).run = Final(q).run
           /\ Head(q).kind \in Reporting => Tail(q) = <<>> /\ Head(q) = Final(q)
<1>1. /\ Head(q) \in In(q) /\ Tail(q) \in Seq(T) /\ In(Tail(q)) \subseteq In(q)
      /\ Tail(q) # <<>> => Final(Tail(q)) = Final(q)
      /\ Tail(q) = <<>> => Head(q) = Final(q)
  BY TailIs
<1>2. /\ Final(q).kind \in Reporting
      /\ \A e \in In(q) : e.run = Final(q).run
      /\ \A i \in DOMAIN q : i # Len(q) => q[i].kind = "issue"
  BY DEF Shape
<1>3. Tail(q) # <<>> => Head(q).kind = "issue"
  <2>1. Tail(q) # <<>> => 1 \in DOMAIN q /\ 1 # Len(q) /\ Head(q) = q[1]
    BY TailLength
  <2> QED
    BY <1>2, <2>1
<1>4. ASSUME NEW i \in DOMAIN Tail(q), i # Len(Tail(q)) PROVE Tail(q)[i].kind = "issue"
  <2>1. i + 1 \in DOMAIN q /\ i + 1 # Len(q) /\ Tail(q)[i] = q[i + 1]
    BY <1>4, TailLength
  <2> QED
    BY <1>2, <2>1
<1>5. Shape(Tail(q))
  <2> DEFINE r == Tail(q)
  <2>1. \A i \in DOMAIN r : i # Len(r) => r[i].kind = "issue"
    BY <1>4
  <2>2. r # <<>> => Final(r) = Final(q)
    BY <1>1
  <2>3. In(r) \subseteq In(q)
    BY <1>1
  <2> HIDE DEF r
  <2>4. Shape(r)
    BY <1>2, <2>1, <2>2, <2>3 DEF Shape
  <2> QED
    BY <2>4 DEF r
<1> QED
  BY <1>1, <1>2, <1>3, <1>5 DEF Reporting
\* Requests, outbox and tables as they were, and no less excused.
LEMMA NoLessExcused ==
    ASSUME OutboxInv, LateInv, StoredInv,
           UNCHANGED <<pagesOutbox, sending, late, pagesEvents, snapshots>>,
           excused \subseteq excused', refused \subseteq refused', cut \subseteq cut'
    PROVE  OutboxInv' /\ LateInv' /\ StoredInv'
<1>1. OutboxInv'
  BY DEF OutboxInv, InOrder
<1>2. LateInv'
  BY DEF LateInv, InOrder, Heard
<1>3. StoredInv'
  BY DEF StoredInv
<1> QED
  BY <1>1, <1>2, <1>3

LEMMA CaptureStep ==
    ASSUME ReportsInv, NEW c \in Commands, NEW sort \in Reporting,
           NEW problems \in Seq(Severities), NEW todo \in Seq(PageEvents),
           Pages!Capture(c, sort, problems, todo),
           todo # <<>>, Shape(todo), Final(todo).kind = sort,
           Final(todo).run = Len(runs) + 1, \A e \in In(todo) : e.kind # "heartbeat",
           sort = "doctor" => \A i \in DOMAIN problems :
                                Pages!Issue(Len(runs) + 1, i, problems[i]) \in In(todo)
    PROVE  ReportsInv'
<1> DEFINE n == Len(runs) + 1
           entry == [kind |-> sort, found |-> problems]
           same == Pages!Same(sort)
<1>0. PageTypes /\ RunTypes /\ CommandInv /\ FoundInv /\ OutboxInv /\ LateInv /\ StoredInv
  BY DEF ReportsInv
<1>1. /\ command[c] = <<>>
      /\ runs' = Append(runs, entry)
      /\ command' = [command EXCEPT ![c] = todo]
      /\ excused' = excused \union same \union (IF same = {} THEN {} ELSE {n})
      /\ UNCHANGED <<pagesOutbox, sending, late, pagesEvents, snapshots, dropped, refused, cut>>
  BY DEF Pages!Capture, Pages!serverVars
<1>2. /\ entry \in [kind : Reporting, found : Seq(Severities)] /\ entry.found = problems
      /\ runs \in Seq([kind : Reporting, found : Seq(Severities)])
  BY <1>0 DEF PageTypes
<1> HIDE DEF entry
<1>3. /\ n \in Nat /\ n \notin DOMAIN runs
      /\ Append(runs, entry) \in Seq([kind : Reporting, found : Seq(Severities)])
      /\ DOMAIN Append(runs, entry) = DOMAIN runs \union {n} /\ Append(runs, entry)[n] = entry
      /\ \A m \in DOMAIN runs : m < n /\ ~ (n < m) /\ Append(runs, entry)[m] = runs[m]
  BY <1>2
<1>4. /\ runs' \in Seq([kind : Reporting, found : Seq(Severities)])
      /\ DOMAIN runs' = DOMAIN runs \union {n} /\ runs'[n].found = problems
      /\ \A m \in DOMAIN runs : runs'[m] = runs[m]
  BY <1>1, <1>2, <1>3
<1>5. \A d \in Commands : command'[d] = IF d = c THEN todo ELSE command[d]
  BY <1>0, <1>1 DEF PageTypes
<1>6. PageTypes'
  <2>1. command' \in [Commands -> Seq(PageEvents)]
    BY <1>0, <1>1 DEF PageTypes
  <2> QED
    BY <1>0, <1>1, <1>4, <2>1 DEF PageTypes
<1>7. \A d \in Commands : command[d] # <<>> =>
        /\ Head(command[d]).run = Final(command[d]).run
        /\ Final(command[d]).run \in DOMAIN runs
  <2> SUFFICES ASSUME NEW d \in Commands, command[d] # <<>>
               PROVE  /\ Head(command[d]).run = Final(command[d]).run
                      /\ Final(command[d]).run \in DOMAIN runs
    OBVIOUS
  <2>1. command[d] \in Seq(PageEvents) /\ Shape(command[d])
    BY <1>0 DEF PageTypes, CommandInv
  <2>2. Head(command[d]).run = Final(command[d]).run /\ Final(command[d]) \in In(command[d])
    BY <2>1, ShapeOfTail, TailIs
  <2> QED
    BY <1>0, <2>2 DEF RunTypes, OfARun
<1>8. same = {Head(command[d]).run : d \in {d \in Commands :
                 command[d] # <<>> /\ Final(command[d]).kind = sort}}
  BY DEF Pages!Same, Pages!Last, Final
<1> HIDE DEF same
<1>9. /\ same \subseteq DOMAIN runs
      /\ \A d \in Commands : command[d] # <<>> /\ Final(command[d]).kind = sort
           => Final(command[d]).run \in same
  BY <1>7, <1>8
<1> HIDE DEF n
<1>10. RunTypes'
  <2>1. \A e : OfARun(e) => OfARun(e)'
    BY <1>4 DEF OfARun
  <2>2. \A e \in In(todo) : OfARun(e)'
    <3>1. \A e \in In(todo) : e.run = n
      BY DEF Shape, n
    <3> QED
      BY <1>4, <3>1 DEF OfARun
  <2>3. excused' \subseteq DOMAIN runs'
    BY <1>0, <1>1, <1>4, <1>9 DEF RunTypes
  <2>4. \A d \in Commands : \A e \in In(command'[d]) : OfARun(e)'
    BY <1>0, <1>5, <2>1, <2>2 DEF RunTypes
  <2> QED
    BY <1>0, <1>1, <1>4, <2>1, <2>3, <2>4 DEF RunTypes
<1>11. \A y \in Heard : ~ Older(Final(todo), y)
  <2> SUFFICES ASSUME NEW y \in Heard, Older(Final(todo), y) PROVE FALSE
    OBVIOUS
  <2>1. OfARun(y)
    BY <1>0, BeatIs DEF Heard, RunTypes
  <2> QED
    BY <1>3, <2>1 DEF Older, OfARun, n
<1>12. Heard' = Heard /\ excused \subseteq excused'
  BY <1>1 DEF Heard
<1>13. CommandInv'
  <2>1. \A d \in Commands : Shape(command'[d])
    BY <1>0, <1>5 DEF CommandInv
  <2>2. ASSUME NEW d \in Commands, NEW b \in Commands, d # b, command'[d] # <<>>,
               command'[b] # <<>>, Final(command'[d]).kind = Final(command'[b]).kind
        PROVE  Final(command'[d]).run \in excused'
    <3>1. CASE d = c
      <4>1. same # {}
        BY <1>5, <1>9, <2>2, <3>1
      <4> QED
        BY <1>1, <1>5, <3>1, <4>1 DEF n
    <3>2. CASE b = c
      BY <1>1, <1>5, <1>9, <2>2, <3>2
    <3>3. CASE d # c /\ b # c
      BY <1>0, <1>5, <1>12, <2>2, <3>3 DEF CommandInv
    <3> QED
      BY <3>1, <3>2, <3>3
  <2>3. ASSUME NEW d \in Commands, NEW y \in Heard, command'[d] # <<>>, Older(Final(command'[d]), y)
        PROVE  y.run \in excused'
    BY <1>0, <1>5, <1>11, <1>12, <2>3 DEF CommandInv
  <2> QED
    BY <1>12, <2>1, <2>2, <2>3 DEF CommandInv
<1>14. FoundInv'
  <2>1. \A m \in DOMAIN runs : Issues(runs', m) = Issues(runs, m)
    BY <1>4 DEF Issues
  <2>2. sort = "doctor" => Issues(runs', n) \subseteq In(todo)
    BY <1>4 DEF Issues, n
  <2>3. \A e \in Heard : e.kind = "doctor" => e.run \in DOMAIN runs
    BY <1>0, BeatIs DEF Heard, RunTypes, OfARun
  <2>4. \A e \in Heard : e.kind = "doctor" /\ e.run \notin dropped' => Issues(runs', e.run) \subseteq Heard'
    BY <1>0, <1>1, <1>12, <2>1, <2>3 DEF FoundInv
  <2>5. ASSUME NEW d \in Commands, command'[d] # <<>>, Final(command'[d]).kind = "doctor",
               Final(command'[d]).run \notin dropped'
        PROVE  Issues(runs', Final(command'[d]).run) \subseteq In(command'[d]) \union Heard'
    <3>1. CASE d = c
      BY <1>5, <2>2, <2>5, <3>1 DEF n
    <3>2. CASE d # c
      <4>1. command'[d] = command[d]
        BY <1>5, <3>2
      <4>2. Issues(runs, Final(command[d]).run) \subseteq In(command[d]) \union Heard
        BY <1>0, <1>1, <2>5, <4>1 DEF FoundInv
      <4>3. Issues(runs', Final(command[d]).run) = Issues(runs, Final(command[d]).run)
        BY <1>7, <2>1, <2>5, <4>1
      <4> QED
        BY <1>12, <4>1, <4>2, <4>3
    <3> QED
      BY <3>1, <3>2
  <2> QED
    BY <1>12, <2>4, <2>5 DEF FoundInv
<1>15. OutboxInv' /\ LateInv' /\ StoredInv'
  BY <1>0, <1>1, <1>12, NoLessExcused
<1> QED
  BY <1>6, <1>10, <1>13, <1>14, <1>15 DEF ReportsInv

LEMMA EnqueueStep ==
    ASSUME ReportsInv, NEW c \in Commands, Pages!Enqueue(c)
    PROVE  ReportsInv'
<1> DEFINE q == command[c]
           e == Head(command[c])
<1>0. PageTypes /\ RunTypes /\ CommandInv /\ FoundInv /\ OutboxInv /\ LateInv /\ StoredInv
  BY DEF ReportsInv
<1>1. /\ q # <<>>
      /\ command' = [command EXCEPT ![c] = Tail(q)]
      /\ pagesOutbox' = Append(pagesOutbox, e)
      /\ UNCHANGED <<runs, sending, late, pagesEvents, snapshots, excused, dropped, refused, cut>>
  BY DEF Pages!Enqueue, Pages!serverVars, Pages!history
<1>2. q \in Seq(PageEvents) /\ Shape(q)
  BY <1>0 DEF PageTypes, CommandInv
<1>3. \A d \in Commands : command'[d] = IF d = c THEN Tail(q) ELSE command[d]
  BY <1>0, <1>1 DEF PageTypes
<1> HIDE DEF q, e
<1>4. /\ e \in In(q) /\ Tail(q) \in Seq(PageEvents) /\ In(q) = In(Tail(q)) \union {e}
      /\ Tail(q) # <<>> => Final(Tail(q)) = Final(q)
      /\ Shape(Tail(q)) /\ e.run = Final(q).run
      /\ e.kind \in Reporting => Tail(q) = <<>> /\ e = Final(q)
  BY <1>1, <1>2, TailIs, ShapeOfTail DEF q, e
<1>5. e \in PageEvents /\ OfARun(e)
  BY <1>0, <1>2, <1>4, InSeq DEF RunTypes, q
<1>6. pagesOutbox \in Seq(PageEvents)
  BY <1>0 DEF PageTypes
<1>7. /\ pagesOutbox' \in Seq(PageEvents) /\ In(pagesOutbox') = In(pagesOutbox) \union {e}
      /\ \A y, x : Before(pagesOutbox', y, x) =>
           Before(pagesOutbox, y, x) \/ (y \in In(pagesOutbox) /\ x = e)
  BY <1>1, <1>5, <1>6, InAppend
<1>8. Heard' = Heard \union {e}
  BY <1>1, <1>7 DEF Heard
<1>9. \A y \in Heard : Older(e, y) => y.run \in excused
  <2>1. \A y \in Heard : Older(Final(q), y) => y.run \in excused
    BY <1>0, <1>1 DEF CommandInv, q
  <2>2. \A y : Older(e, y) => e.kind \in Reporting
    BY DEF Older
  <2> QED
    BY <1>4, <2>1, <2>2
<1>10. PageTypes'
  <2>1. command' \in [Commands -> Seq(PageEvents)]
    BY <1>0, <1>1, <1>4 DEF PageTypes
  <2> QED
    BY <1>0, <1>1, <1>7, <2>1 DEF PageTypes
<1>11. RunTypes'
  <2>1. \A y : OfARun(y)' <=> OfARun(y)
    BY <1>1 DEF OfARun
  <2>2. \A d \in Commands : In(command'[d]) \subseteq In(command[d])
    BY <1>3, <1>4 DEF q
  <2>3. \A d \in Commands : \A y \in In(command'[d]) : OfARun(y)'
    BY <1>0, <2>1, <2>2 DEF RunTypes
  <2>4. \A y \in In(pagesOutbox') : y = Pages!Beat \/ OfARun(y)'
    BY <1>0, <1>5, <1>7, <2>1 DEF RunTypes
  <2>5. \A y \in In(pagesEvents') : OfARun(y)'
    BY <1>0, <1>1, <2>1 DEF RunTypes
  <2> QED
    BY <1>0, <1>1, <2>3, <2>4, <2>5 DEF RunTypes
<1>12. CommandInv'
  <2>1. \A d \in Commands : Shape(command'[d])
    BY <1>0, <1>3, <1>4 DEF CommandInv
  <2>2. \A d \in Commands : command'[d] # <<>> =>
           command[d] # <<>> /\ Final(command'[d]) = Final(command[d])
    BY <1>1, <1>3, <1>4 DEF q
  <2>3. ASSUME NEW d \in Commands, NEW b \in Commands, d # b, command'[d] # <<>>,
               command'[b] # <<>>, Final(command'[d]).kind = Final(command'[b]).kind
        PROVE  Final(command'[d]).run \in excused'
    BY <1>0, <1>1, <2>2, <2>3 DEF CommandInv
  <2>4. ASSUME NEW d \in Commands, NEW y \in Heard', command'[d] # <<>>, Older(Final(command'[d]), y)
        PROVE  y.run \in excused'
    <3>1. CASE y \in Heard
      BY <1>0, <1>1, <2>2, <2>4, <3>1 DEF CommandInv
    <3>2. CASE y = e
      <4>1. e.kind = Final(command[d]).kind /\ e.kind \in Reporting /\ command[d] # <<>>
        BY <2>2, <2>4, <3>2 DEF Older
      <4>2. Tail(q) = <<>> /\ e = Final(q)
        BY <1>4, <4>1
      <4>3. d # c
        BY <1>3, <2>4, <4>2
      <4> QED
        BY <1>0, <1>1, <3>2, <4>1, <4>2, <4>3 DEF CommandInv, q
    <3> QED
      BY <1>8, <3>1, <3>2
  <2> QED
    BY <2>1, <2>3, <2>4 DEF CommandInv
<1>13. FoundInv'
  <2>1. ASSUME NEW d \in Commands, command'[d] # <<>>, Final(command'[d]).kind = "doctor",
               Final(command'[d]).run \notin dropped'
        PROVE  Issues(runs', Final(command'[d]).run) \subseteq In(command'[d]) \union Heard'
    <3>1. command[d] # <<>> /\ Final(command'[d]) = Final(command[d])
      BY <1>1, <1>3, <1>4, <2>1 DEF q
    <3>2. Issues(runs, Final(command[d]).run) \subseteq In(command[d]) \union Heard
      BY <1>0, <1>1, <2>1, <3>1 DEF FoundInv
    <3>3. In(command[d]) \subseteq In(command'[d]) \union {e}
      BY <1>3, <1>4 DEF q
    <3> QED
      BY <1>1, <1>8, <3>1, <3>2, <3>3
  <2>2. ASSUME NEW y \in Heard', y.kind = "doctor", y.run \notin dropped'
        PROVE  Issues(runs', y.run) \subseteq Heard'
    <3>1. CASE y \in Heard
      BY <1>0, <1>1, <1>8, <2>2, <3>1 DEF FoundInv
    <3>2. CASE y = e
      <4>1. Tail(q) = <<>> /\ e = Final(q)
        BY <1>4, <2>2, <3>2 DEF Reporting
      <4>2. Issues(runs, e.run) \subseteq In(q) \union Heard
        BY <1>0, <1>1, <2>2, <3>2, <4>1 DEF FoundInv, q
      <4>3. In(q) = {e}
        BY <1>4, <4>1 DEF In
      <4> QED
        BY <1>1, <1>8, <3>2, <4>2, <4>3
    <3> QED
      BY <1>8, <3>1, <3>2
  <2> QED
    BY <2>1, <2>2 DEF FoundInv
<1>14. OutboxInv'
  <2>1. InOrder(pagesOutbox)'
    <3> SUFFICES ASSUME NEW y, NEW x, Before(pagesOutbox', y, x), Older(x, y)
                 PROVE  y.run \in excused'
      BY DEF InOrder
    <3> QED
      BY <1>0, <1>1, <1>7, <1>9 DEF OutboxInv, InOrder, Heard
  <2>2. /\ Len(sending'.events) <= Len(pagesOutbox')
        /\ \A i \in 1..Len(sending'.events) : sending'.events[i] = pagesOutbox'[i]
    <3> DEFINE k == Len(sending.events)
    <3>1. k \in Nat /\ k <= Len(pagesOutbox) /\ \A i \in 1..k : sending.events[i] = pagesOutbox[i]
      BY <1>0 DEF PageTypes, OutboxInv
    <3>2. k <= Len(Append(pagesOutbox, e))
          /\ \A i \in 1..k : sending.events[i] = Append(pagesOutbox, e)[i]
      <4> HIDE DEF k
      <4> QED
        BY <1>6, <3>1
    <3> QED
      BY <1>1, <3>2
  <2>3. ASSUME NEW y \in In(pagesEvents'), NEW x \in In(pagesOutbox'), Older(x, y), y.run \notin excused'
        PROVE  x \in In(pagesEvents') \/ x.run \in refused'
    <3>1. y \in Heard /\ y.run \notin excused
      BY <1>1, <2>3 DEF Heard
    <3>2. x # e
      BY <1>9, <2>3, <3>1
    <3> QED
      BY <1>0, <1>1, <1>7, <2>3, <3>1, <3>2 DEF OutboxInv
  <2> QED
    BY <2>1, <2>2, <2>3 DEF OutboxInv
<1>15. LateInv'
  <2> SUFFICES ASSUME NEW r \in late
               PROVE  /\ In(r.events) \subseteq Heard' \union {Pages!Beat}
                      /\ InOrder(r.events)'
                      /\ \A y \in In(r.events), x \in In(pagesOutbox') :
                           Older(x, y) /\ y.run \notin excused'
                             => x \in In(pagesEvents') \union In(r.events)
    BY <1>1 DEF LateInv
  <2>1. /\ In(r.events) \subseteq Heard \union {Pages!Beat} /\ InOrder(r.events)
        /\ \A y \in In(r.events), x \in In(pagesOutbox) :
             Older(x, y) /\ y.run \notin excused => x \in In(pagesEvents) \union In(r.events)
    BY <1>0 DEF LateInv
  <2>2. ASSUME NEW y \in In(r.events), Older(e, y) PROVE y.run \in excused
    BY <1>9, <2>1, <2>2, BeatIs
  <2>3. InOrder(r.events)'
    BY <1>1, <2>1 DEF InOrder
  <2> QED
    BY <1>1, <1>7, <1>8, <2>1, <2>2, <2>3
<1>16. StoredInv'
  BY <1>0, <1>1 DEF StoredInv
<1> QED
  BY <1>10, <1>11, <1>12, <1>13, <1>14, <1>15, <1>16 DEF ReportsInv

\* An event that does not get into the outbox, or a command that is killed
LEMMA LostStep ==
    ASSUME ReportsInv, NEW c \in Commands, Pages!EnqueueFails(c) \/ Pages!Kill(c)
    PROVE  ReportsInv'
<1> DEFINE q == command[c]
           e == Head(command[c])
<1>0. PageTypes /\ RunTypes /\ CommandInv /\ FoundInv /\ OutboxInv /\ LateInv /\ StoredInv
  BY DEF ReportsInv
<1>1. /\ q # <<>>
      /\ \/ command' = [command EXCEPT ![c] = Tail(q)] /\ dropped' = dropped \union {e.run}
         \/ command' = [command EXCEPT ![c] = <<>>] /\ dropped' = dropped
      /\ UNCHANGED <<runs, pagesOutbox, sending, late, pagesEvents, snapshots, excused, refused, cut>>
  BY DEF Pages!EnqueueFails, Pages!Kill, Pages!serverVars, Pages!history
<1>2. q \in Seq(PageEvents) /\ Shape(q)
  BY <1>0 DEF PageTypes, CommandInv
<1> HIDE DEF e
<1>3. /\ e \in In(q) /\ Tail(q) \in Seq(PageEvents) /\ In(q) = In(Tail(q)) \union {e}
      /\ Tail(q) # <<>> => Final(Tail(q)) = Final(q)
      /\ Shape(Tail(q)) /\ e.run = Final(q).run
  BY <1>1, <1>2, TailIs, ShapeOfTail DEF e
<1>4. PICK r \in {Tail(q), <<>>} : command' = [command EXCEPT ![c] = r]
        /\ (r = <<>> \/ dropped' = dropped \union {e.run})
  BY <1>1
<1>5. \A d \in Commands : command'[d] = IF d = c THEN r ELSE command[d]
  BY <1>0, <1>4 DEF PageTypes
<1>6. /\ r \in Seq(PageEvents) /\ In(r) \subseteq In(q) /\ Shape(r)
      /\ r # <<>> => Final(r) = Final(q)
  <2>1. CASE r = Tail(q)
    BY <1>3, <2>1
  <2>2. CASE r = <<>>
    BY <2>2 DEF In, Shape
  <2> QED
    BY <2>1, <2>2
<1>7. \A d \in Commands : command'[d] # <<>> =>
        command[d] # <<>> /\ Final(command'[d]) = Final(command[d])
  BY <1>1, <1>5, <1>6
<1>8. Heard' = Heard /\ dropped \subseteq dropped'
  BY <1>1 DEF Heard
<1>9. PageTypes'
  <2>1. command' \in [Commands -> Seq(PageEvents)]
    BY <1>0, <1>4, <1>6 DEF PageTypes
  <2> QED
    BY <1>0, <1>1, <2>1 DEF PageTypes
<1>10. RunTypes'
  <2>1. \A y : OfARun(y)' <=> OfARun(y)
    BY <1>1 DEF OfARun
  <2>2. \A d \in Commands : In(command'[d]) \subseteq In(command[d])
    BY <1>5, <1>6
  <2>3. \A d \in Commands : \A y \in In(command'[d]) : OfARun(y)'
    BY <1>0, <2>1, <2>2 DEF RunTypes
  <2>4. OfARun(e)
    BY <1>0, <1>3 DEF RunTypes
  <2>5. dropped' \subseteq DOMAIN runs'
    BY <1>0, <1>1, <2>4 DEF RunTypes, OfARun
  <2> QED
    BY <1>0, <1>1, <2>1, <2>3, <2>5 DEF RunTypes
<1>11. CommandInv'
  <2>1. \A d \in Commands : Shape(command'[d])
    BY <1>0, <1>5, <1>6 DEF CommandInv
  <2>2. ASSUME NEW d \in Commands, NEW b \in Commands, d # b, command'[d] # <<>>,
               command'[b] # <<>>, Final(command'[d]).kind = Final(command'[b]).kind
        PROVE  Final(command'[d]).run \in excused'
    BY <1>0, <1>1, <1>7, <2>2 DEF CommandInv
  <2>3. ASSUME NEW d \in Commands, NEW y \in Heard', command'[d] # <<>>, Older(Final(command'[d]), y)
        PROVE  y.run \in excused'
    BY <1>0, <1>1, <1>7, <1>8, <2>3 DEF CommandInv
  <2> QED
    BY <2>1, <2>2, <2>3 DEF CommandInv
<1>12. FoundInv'
  <2>1. ASSUME NEW d \in Commands, command'[d] # <<>>, Final(command'[d]).kind = "doctor",
               Final(command'[d]).run \notin dropped'
        PROVE  Issues(runs', Final(command'[d]).run) \subseteq In(command'[d]) \union Heard'
    <3>1. d # c
      BY <1>3, <1>4, <1>5, <1>7, <2>1
    <3>2. command'[d] = command[d]
      BY <1>5, <3>1
    <3>3. Issues(runs, Final(command[d]).run) \subseteq In(command[d]) \union Heard
      BY <1>0, <1>8, <2>1, <3>2 DEF FoundInv
    <3> QED
      BY <1>1, <1>8, <3>2, <3>3
  <2>2. ASSUME NEW y \in Heard', y.kind = "doctor", y.run \notin dropped'
        PROVE  Issues(runs', y.run) \subseteq Heard'
    BY <1>0, <1>1, <1>8, <2>2 DEF FoundInv
  <2> QED
    BY <2>1, <2>2 DEF FoundInv
<1>13. OutboxInv' /\ LateInv' /\ StoredInv'
  BY <1>0, <1>1, NoLessExcused
<1> QED
  BY <1>9, <1>10, <1>11, <1>12, <1>13 DEF ReportsInv

\* The beginning of a sequence and the rest
LEMMA BeginningIs ==
    ASSUME NEW T, NEW q \in Seq(T), NEW p \in Seq(T), Len(p) <= Len(q),
           \A i \in 1..Len(p) : p[i] = q[i]
    PROVE  /\ SubSeq(q, Len(p) + 1, Len(q)) \in Seq(T)
           /\ q = p \o SubSeq(q, Len(p) + 1, Len(q))
<1> DEFINE n == Len(p)
           first == SubSeq(q, 1, n)
<1>1. n \in 0..Len(q)
  OBVIOUS
<1>2. /\ first \in Seq(T) /\ SubSeq(q, n + 1, Len(q)) \in Seq(T)
      /\ Len(first) = n /\ \A i \in 1..n : first[i] = q[i]
      /\ q = first \o SubSeq(q, n + 1, Len(q))
  BY <1>1, Split
<1>3. first = p
  <2> HIDE DEF first
  <2> QED
    BY <1>2, SeqEqual
<1> QED
  BY <1>2, <1>3

\* What a request that is the beginning of the outbox does not have is younger than what
\* it has.
LEMMA BeginningInOrder ==
    ASSUME PageTypes, OutboxInv, NEW p \in Seq(PageEvents), Len(p) <= Len(pagesOutbox),
           \A i \in 1..Len(p) : p[i] = pagesOutbox[i]
    PROVE  /\ In(p) \subseteq In(pagesOutbox) /\ InOrder(p)
           /\ \A y \in In(p), x \in In(pagesOutbox) :
                Older(x, y) /\ y.run \notin excused => x \in In(p)
<1> DEFINE after == SubSeq(pagesOutbox, Len(p) + 1, Len(pagesOutbox))
<1>1. after \in Seq(PageEvents) /\ pagesOutbox = p \o after
  BY BeginningIs DEF PageTypes
<1> HIDE DEF after
<1>2. /\ In(pagesOutbox) = In(p) \union In(after)
      /\ \A y, x : (Before(p, y, x) \/ (y \in In(p) /\ x \in In(after)))
           => Before(pagesOutbox, y, x)
  BY <1>1, InBoth
<1> QED
  BY <1>2 DEF OutboxInv, InOrder

LEMMA SendStep ==
    ASSUME ReportsInv, NEW pending, pending = pagesOutbox \/ pending = Append(pagesOutbox, Pages!Beat),
           Pages!BeginSend(pending)
    PROVE  ReportsInv'
<1>0. PageTypes /\ RunTypes /\ CommandInv /\ FoundInv /\ OutboxInv /\ LateInv /\ StoredInv
  BY DEF ReportsInv
<1>1. /\ pagesOutbox' = pending
      /\ sending' = IF pending = <<>> THEN Pages!NoRequest
                    ELSE [events |-> SubSeq(pending, 1, Pages!Min({Len(pending), BatchSize})),
                          version |-> version, ip |-> ip]
      /\ UNCHANGED <<command, runs, late, pagesEvents, snapshots, excused, dropped, refused, cut>>
  BY DEF Pages!BeginSend, Pages!serverVars, Pages!history
<1>2. pagesOutbox \in Seq(PageEvents)
  BY <1>0 DEF PageTypes
<1>3. /\ pending \in Seq(PageEvents)
      /\ In(pagesOutbox) \subseteq In(pending)
      /\ In(pending) \subseteq In(pagesOutbox) \union {Pages!Beat}
      /\ \A y, x : Before(pending, y, x) => Before(pagesOutbox, y, x) \/ x = Pages!Beat
  <2>1. CASE pending = pagesOutbox
    BY <1>2, <2>1
  <2>2. CASE pending = Append(pagesOutbox, Pages!Beat)
    BY <1>2, <2>2, BeatIs, InAppend
  <2> QED
    BY <2>1, <2>2
<1>4. /\ sending'.events \in Seq(PageEvents) /\ Len(sending'.events) <= Len(pending)
      /\ \A i \in 1..Len(sending'.events) : sending'.events[i] = pending[i]
  <2>1. CASE pending = <<>>
    <3>1. sending'.events = <<>>
      BY <1>1, <2>1 DEF Pages!NoRequest
    <3> QED
      BY <2>1, <3>1
  <2>2. CASE pending # <<>>
    <3> DEFINE n == Pages!Min({Len(pending), BatchSize})
    <3>1. sending'.events = SubSeq(pending, 1, n)
      BY <1>1, <2>2
    <3>2. n \in 0..Len(pending)
      <4>1. Len(pending) \in Nat /\ BatchSize \in Nat
        BY <1>3, Assumptions DEF Pages!ReportsAssumption
      <4>2. \E k \in {Len(pending), BatchSize} : \A l \in {Len(pending), BatchSize} : k <= l
        BY <4>1
      <4>3. n \in {Len(pending), BatchSize} /\ \A l \in {Len(pending), BatchSize} : n <= l
        BY <4>2 DEF Pages!Min
      <4> HIDE DEF n
      <4> QED
        BY <4>1, <4>3
    <3> HIDE DEF n
    <3>3. /\ SubSeq(pending, 1, n) \in Seq(PageEvents) /\ Len(SubSeq(pending, 1, n)) = n
          /\ \A i \in 1..n : SubSeq(pending, 1, n)[i] = pending[i]
      BY <1>3, <3>2, Split
    <3> QED
      BY <3>1, <3>2, <3>3
  <2> QED
    BY <2>1, <2>2
<1>5. /\ \A x \in In(pending) : x \in In(pagesOutbox) \/ x = Pages!Beat
      /\ Heard \subseteq Heard' /\ Heard' \subseteq Heard \union {Pages!Beat}
  BY <1>1, <1>3 DEF Heard
<1>6. PageTypes'
  BY <1>0, <1>1, <1>3, <1>4 DEF PageTypes
<1>7. RunTypes'
  <2>1. \A y : OfARun(y)' <=> OfARun(y)
    BY <1>1 DEF OfARun
  <2> QED
    BY <1>0, <1>1, <1>5, <2>1 DEF RunTypes
<1>8. CommandInv'
  <2>1. ASSUME NEW d \in Commands, NEW y \in Heard', command'[d] # <<>>, Older(Final(command'[d]), y)
        PROVE  y.run \in excused'
    BY <1>0, <1>1, <1>5, <2>1, BeatIs DEF CommandInv
  <2> QED
    BY <1>0, <1>1, <2>1 DEF CommandInv
<1>9. FoundInv'
  <2>1. \A y \in Heard' : y.kind = "doctor" => y \in Heard
    BY <1>5, BeatIs
  <2> QED
    BY <1>0, <1>1, <1>5, <2>1 DEF FoundInv
<1>10. OutboxInv'
  <2>1. InOrder(pagesOutbox)'
    BY <1>0, <1>1, <1>3, BeatIs DEF OutboxInv, InOrder
  <2>2. ASSUME NEW y \in In(pagesEvents'), NEW x \in In(pagesOutbox'), Older(x, y), y.run \notin excused'
        PROVE  x \in In(pagesEvents') \/ x.run \in refused'
    BY <1>0, <1>1, <1>5, <2>2, BeatIs DEF OutboxInv
  <2> QED
    BY <1>1, <1>4, <2>1, <2>2 DEF OutboxInv
<1>11. LateInv'
  <2> SUFFICES ASSUME NEW r \in late
               PROVE  /\ In(r.events) \subseteq Heard' \union {Pages!Beat}
                      /\ InOrder(r.events)'
                      /\ \A y \in In(r.events), x \in In(pagesOutbox') :
                           Older(x, y) /\ y.run \notin excused'
                             => x \in In(pagesEvents') \union In(r.events)
    BY <1>1 DEF LateInv
  <2>1. /\ In(r.events) \subseteq Heard \union {Pages!Beat} /\ InOrder(r.events)
        /\ \A y \in In(r.events), x \in In(pagesOutbox) :
             Older(x, y) /\ y.run \notin excused => x \in In(pagesEvents) \union In(r.events)
    BY <1>0 DEF LateInv
  <2>2. InOrder(r.events)'
    BY <1>1, <2>1 DEF InOrder
  <2> QED
    BY <1>1, <1>5, <2>1, <2>2, BeatIs
<1>12. StoredInv'
  BY <1>0, <1>1 DEF StoredInv
<1> QED
  BY <1>6, <1>7, <1>8, <1>9, <1>10, <1>11, <1>12 DEF ReportsInv

\* The request is over without an answer, or nothing of all this changes.
LEMMA AsideStep ==
    ASSUME ReportsInv, sending' = sending \/ sending' = Pages!NoRequest,
           late' \subseteq late \union {sending},
           UNCHANGED <<command, runs, pagesOutbox, pagesEvents, snapshots,
                       excused, dropped, refused, cut>>
    PROVE  ReportsInv'
<1>0. PageTypes /\ RunTypes /\ CommandInv /\ FoundInv /\ OutboxInv /\ LateInv /\ StoredInv
  BY DEF ReportsInv
<1> DEFINE p == sending.events
<1>1. p \in Seq(PageEvents) /\ Len(p) <= Len(pagesOutbox) /\ \A i \in 1..Len(p) : p[i] = pagesOutbox[i]
  BY <1>0 DEF PageTypes, OutboxInv
<1>2. sending'.events = p \/ sending'.events = <<>>
  BY DEF Pages!NoRequest
<1>3. /\ sending'.events \in Seq(PageEvents) /\ Len(sending'.events) <= Len(pagesOutbox)
      /\ \A i \in 1..Len(sending'.events) : sending'.events[i] = pagesOutbox[i]
  <2>1. CASE sending'.events = p
    BY <1>1, <2>1
  <2>2. CASE sending'.events = <<>>
    BY <1>0, <2>2 DEF PageTypes
  <2> QED
    BY <1>2, <2>1, <2>2
<1>4. /\ In(p) \subseteq In(pagesOutbox) /\ InOrder(p)
      /\ \A y \in In(p), x \in In(pagesOutbox) :
           Older(x, y) /\ y.run \notin excused => x \in In(p)
  <2> HIDE DEF p
  <2> QED
    BY <1>0, <1>1, BeginningInOrder
<1>5. Heard' = Heard
  BY DEF Heard
<1>6. PageTypes'
  BY <1>0, <1>1, <1>3 DEF PageTypes
<1>7. RunTypes'
  BY <1>0 DEF RunTypes, OfARun
<1>8. CommandInv' /\ FoundInv'
  BY <1>0, <1>5 DEF CommandInv, FoundInv
<1>9. OutboxInv'
  BY <1>0, <1>3 DEF OutboxInv, InOrder
<1>10. LateInv'
  <2> SUFFICES ASSUME NEW r \in late'
               PROVE  /\ In(r.events) \subseteq Heard \union {Pages!Beat}
                      /\ InOrder(r.events)
                      /\ \A y \in In(r.events), x \in In(pagesOutbox) :
                           Older(x, y) /\ y.run \notin excused
                             => x \in In(pagesEvents) \union In(r.events)
    BY <1>5 DEF LateInv, InOrder
  <2>1. CASE r \in late
    BY <1>0, <2>1 DEF LateInv
  <2>2. CASE r = sending
    BY <1>4, <2>2 DEF Heard
  <2> QED
    BY <2>1, <2>2
<1>11. StoredInv'
  BY <1>0 DEF StoredInv
<1> QED
  BY <1>6, <1>7, <1>8, <1>9, <1>10, <1>11 DEF ReportsInv

LEMMA PostStep ==
    ASSUME ReportsInv, Pages!PostSnapshot
    PROVE  ReportsInv'
<1>0. PageTypes /\ RunTypes /\ CommandInv /\ FoundInv /\ OutboxInv /\ LateInv /\ StoredInv
  BY DEF ReportsInv
<1> DEFINE row == [device |-> "", run |-> 0]
<1>1. /\ snapshots' = Append(snapshots, row)
      /\ UNCHANGED <<command, runs, pagesOutbox, sending, late, pagesEvents,
                     excused, dropped, refused, cut>>
  BY DEF Pages!PostSnapshot, Pages!deviceVars, Pages!history
<1>2. row \in PageRows /\ row.device # "this device" /\ snapshots \in Seq(PageRows)
  BY <1>0 DEF PageRows, PageTypes
<1> HIDE DEF row
<1>3. /\ snapshots' \in Seq(PageRows) /\ In(snapshots') = In(snapshots) \union {row}
      /\ \A y, x : Before(snapshots', y, x) =>
           Before(snapshots, y, x) \/ (y \in In(snapshots) /\ x = row)
  BY <1>1, <1>2, InAppend
<1>4. Heard' = Heard
  BY <1>1 DEF Heard
<1>5. PageTypes' /\ RunTypes'
  BY <1>0, <1>1, <1>3 DEF PageTypes, RunTypes, OfARun
<1>6. CommandInv' /\ FoundInv'
  BY <1>0, <1>1, <1>4 DEF CommandInv, FoundInv
<1>7. OutboxInv' /\ LateInv'
  BY <1>0, <1>1, <1>4 DEF OutboxInv, LateInv, InOrder
<1>8. StoredInv'
  BY <1>0, <1>1, <1>2, <1>3 DEF StoredInv
<1> QED
  BY <1>5, <1>6, <1>7, <1>8 DEF ReportsInv

LEMMA AcceptedIs ==
    ASSUME NEW q \in Seq(PageEvents), NEW rejects
    PROVE  LET taken == Pages!Accepted(q, rejects)
           IN  /\ taken \in Seq(PageEvents)
               /\ In(taken) = {e \in In(q) : e.kind # "heartbeat" /\ e \notin In(pagesEvents)
                                               /\ e \notin rejects}
               /\ \A y, x : Before(taken, y, x) => Before(q, y, x)
<1> DEFINE S == {e \in In(q) : e.kind # "heartbeat"} \ (In(pagesEvents) \union rejects)
<1>1. Pages!Accepted(q, rejects) = Pages!Only(q, S)
  BY KnownIs DEF Pages!Accepted
<1>2. In(q) \cap S = {e \in In(q) : e.kind # "heartbeat" /\ e \notin In(pagesEvents)
                                      /\ e \notin rejects}
  OBVIOUS
<1> HIDE DEF S
<1> QED
  BY <1>1, <1>2, OnlyPicks

\* Rows n and m are of snapshots of q, n the first.
Rowed(q, n, m) ==
    \E i, j \in DOMAIN q :
      i < j /\ q[i].kind = "snapshot" /\ q[j].kind = "snapshot" /\ q[i].run = n /\ q[j].run = m

\* The rows of what is stored: of every snapshot one, in their order.
LEMMA ProjectedIs ==
    ASSUME NEW q \in Seq(PageEvents)
    PROVE  LET added == Pages!Projected(q)
           IN  /\ added \in Seq(PageRows)
               /\ \A s \in In(added) : \E e \in In(q) : e.kind = "snapshot" /\ e.run = s.run
               /\ \A e \in In(q) : e.kind = "snapshot" =>
                    [device |-> "this device", run |-> e.run] \in In(added)
               /\ \A s, t : Before(added, s, t) => Rowed(q, s.run, t.run)
<1> DEFINE S == {e \in In(q) : e.kind = "snapshot"}
           taken == Pages!Only(q, S)
           row(i) == [device |-> "this device", run |-> taken[i].run]
           added == [i \in DOMAIN taken |-> row(i)]
<1>1. Pages!Projected(q) = added
  BY KnownIs DEF Pages!Projected, Pages!This
<1>2. /\ taken \in Seq(PageEvents) /\ In(taken) = S
      /\ \A y, x : Before(taken, y, x) => Before(q, y, x)
  <2>1. In(q) \cap S = S
    OBVIOUS
  <2> HIDE DEF S
  <2> QED
    BY <2>1, OnlyPicks
<1> HIDE DEF taken
<1>3. DOMAIN taken = 1..Len(taken) /\ Len(taken) \in Nat /\ \A i \in 1..Len(taken) : taken[i] \in PageEvents
  BY <1>2
<1>4. \A i \in DOMAIN taken : taken[i] \in In(q) /\ taken[i].kind = "snapshot"
  <2>1. \A i \in DOMAIN taken : taken[i] \in In(taken)
    BY DEF In
  <2> QED
    BY <1>2, <2>1
<1>5. added \in Seq(PageRows)
  <2>1. \A i \in 1..Len(taken) : row(i) \in PageRows
    BY <1>3, EventIs DEF PageRows
  <2> HIDE DEF row
  <2> QED
    BY <1>3, <2>1
<1>6. DOMAIN added = DOMAIN taken /\ \A i \in DOMAIN taken : added[i] = row(i) /\ added[i].run = taken[i].run
  OBVIOUS
<1> HIDE DEF added
<1>7. ASSUME NEW s \in In(added) PROVE \E e \in In(q) : e.kind = "snapshot" /\ e.run = s.run
  BY <1>4, <1>6, <1>7 DEF In
<1>8. ASSUME NEW e \in In(q), e.kind = "snapshot"
      PROVE  [device |-> "this device", run |-> e.run] \in In(added)
  <2>1. e \in In(taken)
    BY <1>2, <1>8
  <2>2. PICK i \in DOMAIN taken : taken[i] = e
    BY <2>1 DEF In
  <2> QED
    BY <1>6, <2>2 DEF In
<1>9. ASSUME NEW s, NEW t, Before(added, s, t)
      PROVE  Rowed(q, s.run, t.run)
  <2>1. PICK i \in DOMAIN taken, j \in DOMAIN taken : i < j /\ added[i] = s /\ added[j] = t
    BY <1>6, <1>9 DEF Before
  <2>2. Before(taken, taken[i], taken[j])
    BY <2>1 DEF Before
  <2>3. Before(q, taken[i], taken[j])
    BY <1>2, <2>2
  <2>4. PICK k \in DOMAIN q, l \in DOMAIN q : k < l /\ q[k] = taken[i] /\ q[l] = taken[j]
    BY <2>3 DEF Before
  <2>5. s.run = taken[i].run /\ t.run = taken[j].run
    BY <1>6, <2>1
  <2> QED
    BY <1>4, <2>1, <2>4, <2>5 DEF Rowed
<1>10. /\ \A s \in In(added) : \E e \in In(q) : e.kind = "snapshot" /\ e.run = s.run
       /\ \A e \in In(q) : e.kind = "snapshot" =>
            [device |-> "this device", run |-> e.run] \in In(added)
  BY <1>7, <1>8
<1>11. \A s, t : Before(added, s, t) => Rowed(q, s.run, t.run)
  BY <1>9
<1> QED
  BY <1>1, <1>5, <1>10, <1>11

\* The server stores some of what waits, and projects it or as much as it comes to.
LEMMA StoreStep ==
    ASSUME ReportsInv, NEW taken \in Seq(PageEvents), NEW seen \in Seq(PageEvents),
           pagesEvents' = pagesEvents \o taken,
           snapshots' = snapshots \o Pages!Projected(seen),
           UNCHANGED <<command, runs, excused, dropped>>,
           refused \subseteq refused', refused' \subseteq DOMAIN runs,
           cut \subseteq cut', cut' \subseteq DOMAIN runs,
           late' \subseteq late,
           pagesOutbox' \in Seq(PageEvents), In(pagesOutbox') \subseteq In(pagesOutbox),
           \A y, x : Before(pagesOutbox', y, x) => Before(pagesOutbox, y, x),
           \A e \in In(pagesOutbox) : e \in In(pagesOutbox') \/ e \in In(pagesEvents)
                                        \/ e \in In(taken) \/ e = Pages!Beat,
           sending'.events \in Seq(PageEvents), Len(sending'.events) <= Len(pagesOutbox'),
           \A i \in 1..Len(sending'.events) : sending'.events[i] = pagesOutbox'[i],
           \A e \in In(taken) : e \in In(pagesOutbox) /\ e \notin In(pagesEvents)
                                  /\ e.kind # "heartbeat",
           InOrder(taken),
           \A y \in In(taken), x \in In(pagesOutbox') :
              Older(x, y) /\ y.run \notin excused =>
                x \in In(pagesEvents) \/ x \in In(taken) \/ x.run \in refused',
           In(seen) \subseteq In(taken),
           \A y, x : Before(seen, y, x) => Before(taken, y, x),
           \A e \in In(taken) : e \in In(seen) \/ e.run \in cut'
    PROVE  ReportsInv'
<1> DEFINE added == Pages!Projected(seen)
<1>0. PageTypes /\ RunTypes /\ CommandInv /\ FoundInv /\ OutboxInv /\ LateInv /\ StoredInv
  BY DEF ReportsInv
<1>1. /\ added \in Seq(PageRows)
      /\ \A s \in In(added) : \E e \in In(seen) : e.kind = "snapshot" /\ e.run = s.run
      /\ \A e \in In(seen) : e.kind = "snapshot" =>
           [device |-> "this device", run |-> e.run] \in In(added)
      /\ \A s, t : Before(added, s, t) => Rowed(seen, s.run, t.run)
  BY ProjectedIs
<1> HIDE DEF added
<1>2. /\ pagesEvents \in Seq(PageEvents) /\ pagesEvents' \in Seq(PageEvents)
      /\ In(pagesEvents') = In(pagesEvents) \union In(taken)
      /\ \A y, x : Before(pagesEvents', y, x) =>
           Before(pagesEvents, y, x) \/ Before(taken, y, x) \/ (y \in In(pagesEvents) /\ x \in In(taken))
  <2>1. pagesEvents \in Seq(PageEvents)
    BY <1>0 DEF PageTypes
  <2> QED
    BY <2>1, InBoth
<1>3. /\ snapshots' \in Seq(PageRows)
      /\ In(snapshots') = In(snapshots) \union In(added)
      /\ \A y, x : Before(snapshots', y, x) =>
           Before(snapshots, y, x) \/ Before(added, y, x) \/ (y \in In(snapshots) /\ x \in In(added))
  <2>1. snapshots \in Seq(PageRows) /\ snapshots' = snapshots \o added
    BY <1>0 DEF PageTypes, added
  <2>2. added \in Seq(PageRows)
    BY <1>1
  <2> QED
    BY <2>1, <2>2, InBoth
<1>4. Heard' \subseteq Heard /\ Heard \subseteq Heard' \union {Pages!Beat}
  BY <1>2 DEF Heard
<1>5. PageTypes'
  BY <1>0, <1>2, <1>3 DEF PageTypes
<1>6. RunTypes'
  <2>1. \A y : OfARun(y)' <=> OfARun(y)
    BY DEF OfARun
  <2>2. \A e \in In(taken) : OfARun(e)
    BY <1>0, BeatIs DEF RunTypes
  <2> QED
    BY <1>0, <1>2, <2>1, <2>2 DEF RunTypes
<1>7. CommandInv'
  BY <1>0, <1>4 DEF CommandInv
<1>8. FoundInv'
  <2>1. ASSUME NEW n, Pages!Beat \in Issues(runs, n) PROVE FALSE
    <3>1. PICK i : Pages!Beat = Pages!Issue(n, i, runs[n].found[i])
      BY <2>1 DEF Issues
    <3>2. Pages!Issue(n, i, runs[n].found[i]).kind = "issue"
      BY DEF Pages!Issue
    <3> QED
      BY <3>1, <3>2, BeatIs
  <2>2. \A n : Issues(runs', n) = Issues(runs, n)
    BY DEF Issues
  <2>3. ASSUME NEW e \in Heard', e.kind = "doctor", e.run \notin dropped'
        PROVE  Issues(runs', e.run) \subseteq Heard'
    BY <1>0, <1>4, <2>1, <2>2, <2>3 DEF FoundInv
  <2>4. ASSUME NEW d \in Commands, command'[d] # <<>>, Final(command'[d]).kind = "doctor",
               Final(command'[d]).run \notin dropped'
        PROVE  Issues(runs', Final(command'[d]).run) \subseteq In(command'[d]) \union Heard'
    BY <1>0, <1>4, <2>1, <2>2, <2>4 DEF FoundInv
  <2> QED
    BY <2>3, <2>4 DEF FoundInv
<1>9. OutboxInv'
  <2>1. InOrder(pagesOutbox)'
    BY <1>0 DEF OutboxInv, InOrder
  <2>2. ASSUME NEW y \in In(pagesEvents'), NEW x \in In(pagesOutbox'), Older(x, y), y.run \notin excused'
        PROVE  x \in In(pagesEvents') \/ x.run \in refused'
    <3>1. CASE y \in In(pagesEvents)
      BY <1>0, <1>2, <2>2, <3>1 DEF OutboxInv
    <3>2. CASE y \in In(taken)
      BY <1>2, <2>2, <3>2
    <3> QED
      BY <1>2, <3>1, <3>2
  <2> QED
    BY <2>1, <2>2 DEF OutboxInv
<1>10. LateInv'
  <2> SUFFICES ASSUME NEW r \in late
               PROVE  /\ In(r.events) \subseteq Heard' \union {Pages!Beat}
                      /\ InOrder(r.events)'
                      /\ \A y \in In(r.events), x \in In(pagesOutbox') :
                           Older(x, y) /\ y.run \notin excused'
                             => x \in In(pagesEvents') \union In(r.events)
    BY DEF LateInv
  <2>1. /\ In(r.events) \subseteq Heard \union {Pages!Beat} /\ InOrder(r.events)
        /\ \A y \in In(r.events), x \in In(pagesOutbox) :
             Older(x, y) /\ y.run \notin excused => x \in In(pagesEvents) \union In(r.events)
    BY <1>0 DEF LateInv
  <2>2. InOrder(r.events)'
    BY <2>1 DEF InOrder
  <2> QED
    BY <1>2, <1>4, <2>1, <2>2
<1>11. StoredInv'
  <2>1. ASSUME NEW y, NEW x, Before(pagesEvents', y, x), Older(x, y)
        PROVE  y.run \in excused' \/ x.run \in refused'
    <3>1. CASE Before(pagesEvents, y, x)
      BY <1>0, <2>1, <3>1 DEF StoredInv
    <3>2. CASE Before(taken, y, x)
      BY <2>1, <3>2 DEF InOrder
    <3>3. CASE y \in In(pagesEvents) /\ x \in In(taken)
      BY <1>0, <2>1, <3>3 DEF OutboxInv
    <3> QED
      BY <1>2, <2>1, <3>1, <3>2, <3>3
  <2>2. ASSUME NEW s, NEW t, Before(snapshots', s, t), s.device = "this device",
               t.device = "this device", t.run < s.run
        PROVE  s.run \in excused' \/ t.run \in refused'
    <3>1. CASE Before(snapshots, s, t)
      BY <1>0, <2>2, <3>1 DEF StoredInv
    <3>2. CASE Before(added, s, t)
      <4>1. Rowed(seen, s.run, t.run)
        BY <1>1, <3>2
      <4>2. PICK i \in DOMAIN seen, j \in DOMAIN seen :
              i < j /\ seen[i].kind = "snapshot" /\ seen[j].kind = "snapshot"
              /\ seen[i].run = s.run /\ seen[j].run = t.run
        BY <4>1 DEF Rowed
      <4>3. Older(seen[j], seen[i])
        BY <2>2, <4>2 DEF Older, Reporting
      <4>4. Before(seen, seen[i], seen[j])
        BY <4>2 DEF Before
      <4>5. Before(taken, seen[i], seen[j])
        BY <4>4
      <4> QED
        BY <4>2, <4>3, <4>5 DEF InOrder
    <3>3. CASE s \in In(snapshots) /\ t \in In(added)
      <4>1. PICK y \in In(pagesEvents) : y.kind = "snapshot" /\ y.run = s.run
        BY <1>0, <2>2, <3>3 DEF StoredInv
      <4>2. PICK x \in In(taken) : x.kind = "snapshot" /\ x.run = t.run
        BY <1>1, <3>3
      <4>3. Older(x, y)
        BY <2>2, <4>1, <4>2 DEF Older, Reporting
      <4> QED
        BY <1>0, <4>1, <4>2, <4>3 DEF OutboxInv
    <3> QED
      BY <1>3, <2>2, <3>1, <3>2, <3>3
  <2>3. ASSUME NEW s \in In(snapshots'), s.device = "this device"
        PROVE  \E e \in In(pagesEvents') : e.kind = "snapshot" /\ e.run = s.run
    <3>1. CASE s \in In(snapshots)
      BY <1>0, <1>2, <2>3, <3>1 DEF StoredInv
    <3>2. CASE s \in In(added)
      BY <1>1, <1>2, <3>2
    <3> QED
      BY <1>3, <3>1, <3>2
  <2>4. ASSUME NEW e \in In(pagesEvents'), e.kind = "snapshot"
        PROVE  e.run \in cut' \/ [device |-> "this device", run |-> e.run] \in In(snapshots')
    <3>1. CASE e \in In(pagesEvents)
      BY <1>0, <1>3, <2>4, <3>1 DEF StoredInv
    <3>2. CASE e \in In(taken)
      BY <1>1, <1>3, <2>4, <3>2
    <3> QED
      BY <1>2, <3>1, <3>2
  <2> QED
    BY <2>1, <2>2, <2>3, <2>4 DEF StoredInv
<1> QED
  BY <1>5, <1>6, <1>7, <1>8, <1>9, <1>10, <1>11 DEF ReportsInv

\* The answer comes in time.
LEMMA AnswerStep ==
    ASSUME ReportsInv, NEW rejects, Pages!Answer(rejects),
           rejects \subseteq In(sending.events), Pages!Beat \notin rejects,
           refused' = refused \union {e.run : e \in rejects}
    PROVE  ReportsInv'
<1> DEFINE p == sending.events
           after == SubSeq(pagesOutbox, Len(p) + 1, Len(pagesOutbox))
           back == Pages!Only(p, rejects)
           taken == Pages!Accepted(p, rejects)
<1>0. PageTypes /\ RunTypes /\ OutboxInv /\ LateInv
  BY DEF ReportsInv
<1>1. /\ pagesEvents' = pagesEvents \o taken
      /\ snapshots' = snapshots \o Pages!Projected(taken)
      /\ pagesOutbox' = back \o after /\ sending'.events = <<>>
      /\ UNCHANGED <<command, runs, excused, dropped, late, cut>>
  BY DEF Pages!Answer, Pages!Handle, Pages!Remaining, Pages!Rejected, Pages!NoRequest
<1>2. /\ p \in Seq(PageEvents) /\ Len(p) <= Len(pagesOutbox)
      /\ \A i \in 1..Len(p) : p[i] = pagesOutbox[i]
      /\ pagesOutbox \in Seq(PageEvents)
  BY <1>0 DEF PageTypes, OutboxInv
<1>3. after \in Seq(PageEvents) /\ pagesOutbox = p \o after
  <2> HIDE DEF p
  <2> QED
    BY <1>2, BeginningIs
<1>4. rejects \subseteq In(p)
  OBVIOUS
<1>5. /\ back \in Seq(PageEvents) /\ In(back) = In(p) \cap rejects
      /\ \A y, x : Before(back, y, x) => Before(p, y, x)
  <2> HIDE DEF p
  <2> QED
    BY <1>2, OnlyPicks
<1>6. /\ taken \in Seq(PageEvents)
      /\ In(taken) = {e \in In(p) : e.kind # "heartbeat" /\ e \notin In(pagesEvents)
                                      /\ e \notin rejects}
      /\ \A y, x : Before(taken, y, x) => Before(p, y, x)
  <2> HIDE DEF p
  <2> QED
    BY <1>2, AcceptedIs
<1>7. /\ In(p) \subseteq In(pagesOutbox) /\ InOrder(p)
      /\ \A y \in In(p), x \in In(pagesOutbox) :
           Older(x, y) /\ y.run \notin excused => x \in In(p)
  <2> HIDE DEF p
  <2> QED
    BY <1>0, <1>2, BeginningInOrder
<1> HIDE DEF p, after, back, taken
<1>8. /\ In(pagesOutbox) = In(p) \union In(after)
      /\ \A y, x : (Before(p, y, x) \/ Before(after, y, x) \/ (y \in In(p) /\ x \in In(after)))
           => Before(pagesOutbox, y, x)
  BY <1>2, <1>3, InBoth
<1>9. /\ pagesOutbox' \in Seq(PageEvents) /\ In(pagesOutbox') = In(back) \union In(after)
      /\ \A y, x : Before(pagesOutbox', y, x) =>
           Before(back, y, x) \/ Before(after, y, x) \/ (y \in In(back) /\ x \in In(after))
  BY <1>1, <1>3, <1>5, InBoth
<1>10. /\ In(pagesOutbox') \subseteq In(pagesOutbox)
       /\ \A y, x : Before(pagesOutbox', y, x) => Before(pagesOutbox, y, x)
  BY <1>5, <1>8, <1>9
<1>11. \A e \in In(p) : e.kind # "heartbeat" <=> e # Pages!Beat
  <2>1. \A e \in In(p) : e = Pages!Beat \/ OfARun(e)
    BY <1>0, <1>7 DEF RunTypes
  <2> QED
    BY <2>1, BeatIs DEF OfARun
<1>12. \A e \in In(pagesOutbox) : e \in In(pagesOutbox') \/ e \in In(pagesEvents)
                                   \/ e \in In(taken) \/ e = Pages!Beat
  BY <1>5, <1>6, <1>8, <1>9, <1>11
<1>13. refused \subseteq refused' /\ refused' \subseteq DOMAIN runs
  <2>1. \A e \in rejects : OfARun(e)
    BY <1>0, <1>4, <1>7 DEF RunTypes
  <2> QED
    BY <1>0, <2>1 DEF RunTypes, OfARun
<1>14. cut \subseteq cut' /\ cut' \subseteq DOMAIN runs /\ late' \subseteq late
  BY <1>0, <1>1 DEF RunTypes
<1>15. /\ sending'.events \in Seq(PageEvents) /\ Len(sending'.events) <= Len(pagesOutbox')
       /\ \A i \in 1..Len(sending'.events) : sending'.events[i] = pagesOutbox'[i]
  BY <1>1, <1>9
<1>16. \A e \in In(taken) : e \in In(pagesOutbox) /\ e \notin In(pagesEvents)
                              /\ e.kind # "heartbeat"
  BY <1>6, <1>7
<1>17. InOrder(taken)
  BY <1>6, <1>7 DEF InOrder
<1>18. ASSUME NEW y \in In(taken), NEW x \in In(pagesOutbox'), Older(x, y), y.run \notin excused
       PROVE  x \in In(pagesEvents) \/ x \in In(taken) \/ x.run \in refused'
  <2>1. y \in In(p) /\ x \in In(pagesOutbox)
    BY <1>6, <1>10, <1>18
  <2>2. x \in In(p)
    BY <1>7, <1>18, <2>1
  <2>3. x # Pages!Beat
    BY <1>18, BeatIs
  <2> QED
    BY <1>6, <1>11, <2>2, <2>3
<1>19. pagesEvents' = pagesEvents \o taken /\ snapshots' = snapshots \o Pages!Projected(taken)
       /\ UNCHANGED <<command, runs, excused, dropped>>
  BY <1>1
<1> QED
  BY <1>6, <1>9, <1>10, <1>12, <1>13, <1>14, <1>15, <1>16, <1>17, <1>18, <1>19, StoreStep

LEMMA LateStep ==
    ASSUME ReportsInv, Pages!ServeLate
    PROVE  ReportsInv'
<1>0. PageTypes /\ RunTypes /\ OutboxInv /\ LateInv
  BY DEF ReportsInv
<1>1. PICK request \in late : Pages!Handle(request, {}) /\ late' = late \ {request}
  BY DEF Pages!ServeLate
<1> DEFINE p == request.events
           taken == Pages!Accepted(p, {})
<1>2. /\ pagesEvents' = pagesEvents \o taken
      /\ snapshots' = snapshots \o Pages!Projected(taken)
      /\ UNCHANGED <<command, runs, pagesOutbox, sending, excused, dropped, refused, cut>>
  BY <1>1 DEF Pages!ServeLate, Pages!Handle, Pages!deviceVars, Pages!history
<1>3. p \in Seq(PageEvents) /\ pagesOutbox \in Seq(PageEvents)
  BY <1>0 DEF PageTypes
<1>4. /\ In(p) \subseteq Heard \union {Pages!Beat} /\ InOrder(p)
      /\ \A y \in In(p), x \in In(pagesOutbox) :
           Older(x, y) /\ y.run \notin excused => x \in In(pagesEvents) \union In(p)
  BY <1>0 DEF LateInv
<1>5. /\ taken \in Seq(PageEvents)
      /\ In(taken) = {e \in In(p) : e.kind # "heartbeat" /\ e \notin In(pagesEvents)}
      /\ \A y, x : Before(taken, y, x) => Before(p, y, x)
  <2> HIDE DEF p
  <2> QED
    BY <1>3, AcceptedIs
<1> HIDE DEF p, taken
<1>6. \A e \in In(taken) : e \in In(pagesOutbox) /\ e \notin In(pagesEvents)
                             /\ e.kind # "heartbeat"
  BY <1>4, <1>5, BeatIs DEF Heard
<1>7. InOrder(taken)
  BY <1>4, <1>5 DEF InOrder
<1>8. ASSUME NEW y \in In(taken), NEW x \in In(pagesOutbox'), Older(x, y), y.run \notin excused
      PROVE  x \in In(pagesEvents) \/ x \in In(taken) \/ x.run \in refused'
  <2>1. x \in In(pagesEvents) \union In(p)
    BY <1>2, <1>4, <1>5, <1>8
  <2>2. x.kind # "heartbeat"
    BY <1>8 DEF Older, Reporting
  <2> QED
    BY <1>5, <2>1, <2>2
<1>9. /\ refused \subseteq refused' /\ refused' \subseteq DOMAIN runs
      /\ cut \subseteq cut' /\ cut' \subseteq DOMAIN runs /\ late' \subseteq late
  BY <1>0, <1>1, <1>2 DEF RunTypes
<1>10. /\ sending'.events \in Seq(PageEvents) /\ Len(sending'.events) <= Len(pagesOutbox')
       /\ \A i \in 1..Len(sending'.events) : sending'.events[i] = pagesOutbox'[i]
  BY <1>0, <1>2 DEF PageTypes, OutboxInv
<1>11. /\ pagesOutbox' \in Seq(PageEvents) /\ In(pagesOutbox') \subseteq In(pagesOutbox)
       /\ \A y, x : Before(pagesOutbox', y, x) => Before(pagesOutbox, y, x)
       /\ \A e \in In(pagesOutbox) : e \in In(pagesOutbox')
  BY <1>2, <1>3
<1>12. pagesEvents' = pagesEvents \o taken /\ snapshots' = snapshots \o Pages!Projected(taken)
       /\ UNCHANGED <<command, runs, excused, dropped>>
  BY <1>2
<1> QED
  BY <1>5, <1>6, <1>7, <1>8, <1>9, <1>10, <1>11, <1>12, StoreStep

\* All of a sequence but its last
LEMMA FrontIs ==
    ASSUME NEW T, NEW q \in Seq(T), q # <<>>
    PROVE  /\ Pages!Front(q) \in Seq(T) /\ In(Pages!Front(q)) \subseteq In(q)
           /\ \A e \in In(q) : e \in In(Pages!Front(q)) \/ e = Final(q)
           /\ \A y, x : Before(Pages!Front(q), y, x) => Before(q, y, x)
<1> DEFINE n == Len(q) - 1
           p == SubSeq(q, 1, n)
           r == SubSeq(q, n + 1, Len(q))
<1>1. Len(q) \in Nat /\ n \in 0..Len(q) /\ n + 1 = Len(q) /\ DOMAIN q = 1..Len(q)
  OBVIOUS
<1>2. /\ p \in Seq(T) /\ r \in Seq(T) /\ q = p \o r
  <2> HIDE DEF n
  <2> QED
    BY <1>1, Split
<1>3. \A e \in In(r) : e = Final(q)
  <2>1. r = SubSeq(q, Len(q), Len(q))
    BY <1>1
  <2>2. \A i \in DOMAIN r : r[i] = q[Len(q)]
    BY <1>1, <2>1
  <2> HIDE DEF r
  <2> QED
    BY <2>2 DEF In, Final
<1>4. Pages!Front(q) = p
  BY DEF Pages!Front
<1> HIDE DEF p, r
<1> QED
  BY <1>2, <1>3, <1>4, InBoth

LEMMA CutStep ==
    ASSUME ReportsInv, Pages!ServeCut
    PROVE  ReportsInv'
<1> DEFINE p == sending.events
<1>0. PageTypes /\ RunTypes /\ OutboxInv /\ LateInv
  BY DEF ReportsInv
<1>1. PICK n \in DOMAIN p :
        LET taken == Pages!Accepted(SubSeq(p, 1, n), {})
        IN /\ p[n] \in Pages!ToSet(taken)
           /\ pagesEvents' = pagesEvents \o taken
           /\ snapshots' = snapshots \o Pages!Projected(Pages!Front(taken))
           /\ cut' = cut \union {p[n].run}
  BY DEF Pages!ServeCut
<1>2. /\ UNCHANGED <<command, runs, pagesOutbox, excused, dropped, refused>>
      /\ late' = {} /\ sending'.events = <<>>
  BY DEF Pages!ServeCut, Pages!NoRequest
<1>3. /\ p \in Seq(PageEvents) /\ Len(p) <= Len(pagesOutbox)
      /\ \A i \in 1..Len(p) : p[i] = pagesOutbox[i]
      /\ pagesOutbox \in Seq(PageEvents)
  BY <1>0 DEF PageTypes, OutboxInv
<1> DEFINE q == SubSeq(p, 1, n)
           taken == Pages!Accepted(q, {})
           seen == Pages!Front(taken)
<1>4. p[n] \in In(taken)
  BY <1>1, KnownIs
<1>5. /\ pagesEvents' = pagesEvents \o taken
      /\ snapshots' = snapshots \o Pages!Projected(seen)
      /\ cut' = cut \union {p[n].run}
  BY <1>1
<1> HIDE DEF p
<1>6. /\ q \in Seq(PageEvents) /\ Len(q) = n /\ n \in 1..Len(p)
      /\ \A i \in 1..n : q[i] = p[i]
  BY <1>3, Split
<1> HIDE DEF q
<1>7. /\ Len(q) <= Len(pagesOutbox) /\ \A i \in 1..Len(q) : q[i] = pagesOutbox[i]
  BY <1>3, <1>6
<1>8. /\ In(q) \subseteq In(pagesOutbox) /\ InOrder(q)
      /\ \A y \in In(q), x \in In(pagesOutbox) :
           Older(x, y) /\ y.run \notin excused => x \in In(q)
  BY <1>0, <1>6, <1>7, BeginningInOrder
<1>9. /\ taken \in Seq(PageEvents)
      /\ In(taken) = {e \in In(q) : e.kind # "heartbeat" /\ e \notin In(pagesEvents)}
      /\ \A y, x : Before(taken, y, x) => Before(q, y, x)
  BY <1>6, AcceptedIs
<1>10. taken # <<>> /\ Final(taken) = p[n]
  <2> DEFINE S == {e \in In(q) : e.kind # "heartbeat"} \ (In(pagesEvents) \union {})
  <2>1. taken = Pages!Only(q, S)
    BY KnownIs DEF Pages!Accepted
  <2>2. q # <<>> /\ q[Len(q)] = p[n]
    BY <1>6
  <2>3. p[n] \in S
    BY <1>4, <1>9
  <2> HIDE DEF S, taken
  <2>4. LET r == Pages!Only(q, S) IN r # <<>> /\ r[Len(r)] = q[Len(q)]
    BY <1>6, <2>2, <2>3, OnlyLast
  <2> QED
    BY <2>1, <2>2, <2>4 DEF Final
<1> HIDE DEF taken
<1>11. /\ seen \in Seq(PageEvents) /\ In(seen) \subseteq In(taken)
       /\ \A e \in In(taken) : e \in In(seen) \/ e = p[n]
       /\ \A y, x : Before(seen, y, x) => Before(taken, y, x)
  BY <1>9, <1>10, FrontIs
<1> HIDE DEF seen
<1>12. \A e \in In(taken) : e \in In(pagesOutbox) /\ e \notin In(pagesEvents)
                              /\ e.kind # "heartbeat"
  BY <1>8, <1>9
<1>13. InOrder(taken)
  BY <1>8, <1>9 DEF InOrder
<1>14. ASSUME NEW y \in In(taken), NEW x \in In(pagesOutbox'), Older(x, y), y.run \notin excused
       PROVE  x \in In(pagesEvents) \/ x \in In(taken) \/ x.run \in refused'
  <2>1. x \in In(q)
    BY <1>2, <1>8, <1>9, <1>14
  <2>2. x.kind # "heartbeat"
    BY <1>14 DEF Older, Reporting
  <2> QED
    BY <1>9, <2>1, <2>2
<1>15. /\ refused \subseteq refused' /\ refused' \subseteq DOMAIN runs
       /\ cut \subseteq cut' /\ cut' \subseteq DOMAIN runs /\ late' \subseteq late
  <2>1. OfARun(p[n])
    BY <1>0, <1>4, <1>12, BeatIs DEF RunTypes, OfARun
  <2> QED
    BY <1>0, <1>2, <1>5, <2>1 DEF RunTypes, OfARun
<1>16. /\ sending'.events \in Seq(PageEvents) /\ Len(sending'.events) <= Len(pagesOutbox')
       /\ \A i \in 1..Len(sending'.events) : sending'.events[i] = pagesOutbox'[i]
  BY <1>2, <1>3
<1>17. /\ pagesOutbox' \in Seq(PageEvents) /\ In(pagesOutbox') \subseteq In(pagesOutbox)
       /\ \A y, x : Before(pagesOutbox', y, x) => Before(pagesOutbox, y, x)
       /\ \A e \in In(pagesOutbox) : e \in In(pagesOutbox')
  BY <1>2, <1>3
<1>18. \A e \in In(taken) : e \in In(seen) \/ e.run \in cut'
  BY <1>5, <1>11
<1>19. UNCHANGED <<command, runs, excused, dropped>>
  BY <1>2
<1> QED
  BY <1>5, <1>9, <1>11, <1>12, <1>13, <1>14, <1>15, <1>16, <1>17, <1>18, <1>19, StoreStep

\* What a run of the doctor leaves to report: its issues, and the report behind them.
LEMMA EmissionIs ==
    ASSUME NEW n \in Nat, NEW problems \in Seq(Severities)
    PROVE  LET todo == Pages!Emission(n, problems)
           IN  /\ todo \in Seq(PageEvents) /\ todo # <<>> /\ Shape(todo)
               /\ Final(todo).kind = "doctor" /\ Final(todo).run = n
               /\ \A e \in In(todo) : e.kind # "heartbeat"
               /\ \A i \in DOMAIN problems : Pages!Issue(n, i, problems[i]) \in In(todo)
<1> DEFINE k == Len(problems)
           row(i) == Pages!Issue(n, i, problems[i])
           issues == [i \in DOMAIN problems |-> row(i)]
           last == Pages!Report("doctor", n)
           todo == issues \o <<last>>
<1>1. k \in Nat /\ DOMAIN problems = 1..k
  OBVIOUS
<1>2. \A i \in 1..k : row(i) \in PageEvents /\ row(i).kind = "issue" /\ row(i).run = n
  <2> TAKE i \in 1..k
  <2>1. i \in Nat /\ problems[i] \in Severities
    BY <1>1
  <2>2. row(i) = [kind |-> "issue", run |-> n, nth |-> i, severity |-> problems[i]]
    BY DEF Pages!Issue
  <2> HIDE DEF row
  <2> QED
    BY <2>1, <2>2 DEF PageEvents
<1>3. last \in PageEvents /\ last.kind = "doctor" /\ last.run = n
  <2>1. last = [kind |-> "doctor", run |-> n, nth |-> 0, severity |-> "none"]
    BY DEF Pages!Report, Pages!Unrated
  <2> HIDE DEF last
  <2> QED
    BY <2>1 DEF PageEvents, Reporting
<1> HIDE DEF row, last
<1>4. issues \in Seq(PageEvents) /\ Len(issues) = k /\ \A i \in 1..k : issues[i] = row(i)
  BY <1>1, <1>2
<1> DEFINE rest == <<last>>
<1>5. rest \in Seq(PageEvents) /\ Len(rest) = 1 /\ rest[1] = last
  BY <1>3
<1> HIDE DEF issues, rest
<1>6. /\ todo \in Seq(PageEvents) /\ Len(todo) = k + 1
      /\ \A i \in 1..(k + 1) : todo[i] = IF i <= k THEN issues[i] ELSE rest[i - k]
  BY <1>4, <1>5, ConcatProperties DEF rest
<1>7. DOMAIN todo = 1..(k + 1) /\ todo[k + 1] = last /\ \A i \in 1..k : todo[i] = row(i)
  <2> HIDE DEF todo
  <2>1. DOMAIN todo = 1..(k + 1)
    BY <1>1, <1>6
  <2>2. k + 1 \in 1..(k + 1) /\ ~ (k + 1 <= k) /\ k + 1 - k = 1
    BY <1>1
  <2>3. todo[k + 1] = last
    BY <1>5, <1>6, <2>2
  <2>4. \A i \in 1..k : i \in 1..(k + 1) /\ i <= k
    BY <1>1
  <2>5. \A i \in 1..k : todo[i] = row(i)
    BY <1>4, <1>6, <2>4
  <2> QED
    BY <2>1, <2>3, <2>5
<1>8. Pages!Emission(n, problems) = todo
  BY DEF Pages!Emission, issues, rest, row, last
<1> HIDE DEF todo, k
<1>9. \A e \in In(todo) : e = last \/ \E i \in 1..k : e = row(i)
  BY <1>1, <1>7 DEF In
<1>10. Final(todo) = last /\ todo # <<>>
  <2>1. Len(todo) # 0
    BY <1>1, <1>6
  <2> QED
    BY <1>6, <1>7, <2>1 DEF Final
<1>11. Shape(todo)
  <2>1. \A i \in DOMAIN todo : i # Len(todo) => i \in 1..k
    BY <1>1, <1>6, <1>7
  <2> QED
    BY <1>2, <1>3, <1>7, <1>9, <1>10, <2>1 DEF Shape, Reporting
<1>12. \A i \in DOMAIN problems : Pages!Issue(n, i, problems[i]) \in In(todo)
  BY <1>1, <1>7 DEF In, row
<1> QED
  BY <1>2, <1>3, <1>6, <1>8, <1>9, <1>10, <1>11, <1>12

LEMMA RunStep ==
    ASSUME ReportsInv, NEW c \in Commands,
           Pages!Doctor(c) \/ Pages!Audit(c) \/ Pages!Snapshot(c)
    PROVE  ReportsInv'
<1> DEFINE n == Len(runs) + 1
<1>0. n \in Nat
  BY DEF ReportsInv, PageTypes
<1>1. CASE Pages!Doctor(c)
  <2>1. PICK problems \in UNION {[1..k -> Severities] : k \in Counts} :
          Pages!Capture(c, "doctor", problems, Pages!Emission(n, problems))
    BY <1>1 DEF Pages!Doctor
  <2>2. problems \in Seq(Severities)
    <3>1. PICK k \in Counts : problems \in [1..k -> Severities]
      OBVIOUS
    <3>2. k \in Nat
      BY Assumptions DEF Pages!ReportsAssumption
    <3> QED
      BY <3>1, <3>2
  <2> DEFINE todo == Pages!Emission(n, problems)
  <2> HIDE DEF n
  <2>3. /\ todo \in Seq(PageEvents) /\ todo # <<>> /\ Shape(todo)
        /\ Final(todo).kind = "doctor" /\ Final(todo).run = n
        /\ \A e \in In(todo) : e.kind # "heartbeat"
        /\ \A i \in DOMAIN problems : Pages!Issue(n, i, problems[i]) \in In(todo)
    BY <1>0, <2>2, EmissionIs
  <2>4. "doctor" \in Reporting /\ Pages!Capture(c, "doctor", problems, todo)
    BY <2>1 DEF Reporting
  <2> HIDE DEF todo
  <2> QED
    BY <2>2, <2>3, <2>4, CaptureStep DEF n
<1>2. ASSUME NEW sort \in {"audit", "snapshot"},
             Pages!Capture(c, sort, <<>>, <<Pages!Report(sort, n)>>)
      PROVE  ReportsInv'
  <2> DEFINE problems == <<>>
             last == Pages!Report(sort, n)
             todo == <<last>>
  <2>1. problems \in Seq(Severities)
    OBVIOUS
  <2>2. last \in PageEvents /\ last.kind = sort /\ last.run = n /\ sort \in Reporting
    <3>1. last = [kind |-> sort, run |-> n, nth |-> 0, severity |-> "none"]
      BY DEF Pages!Report, Pages!Unrated
    <3> HIDE DEF last, n
    <3> QED
      BY <1>0, <3>1 DEF PageEvents, Reporting
  <2> HIDE DEF last, n
  <2>3. todo \in Seq(PageEvents) /\ Len(todo) = 1 /\ DOMAIN todo = {1} /\ todo[1] = last /\ todo # <<>>
    BY <2>2
  <2>4. Pages!Capture(c, sort, problems, todo)
    BY <1>2 DEF last
  <2>5. sort \notin {"doctor", "heartbeat"}
    OBVIOUS
  <2> HIDE DEF todo, problems
  <2>6. /\ Final(todo) = last /\ \A e \in In(todo) : e = last
    BY <2>3 DEF Final, In
  <2>7. Shape(todo)
    BY <2>2, <2>3, <2>6 DEF Shape
  <2> QED
    BY <2>1, <2>2, <2>3, <2>4, <2>5, <2>6, <2>7, CaptureStep DEF n
<1> QED
  BY <1>1, <1>2 DEF Pages!Audit, Pages!Snapshot

LEMMA ReportsStart == Pages!Init => ReportsInv /\ SeedInv
<1> SUFFICES ASSUME Pages!Init PROVE ReportsInv /\ SeedInv
  OBVIOUS
<1>1. /\ command = [c \in Commands |-> <<>>] /\ runs = <<>> /\ pagesOutbox = <<>>
      /\ sending.events = <<>> /\ late = {} /\ server = "down" /\ catalog = 0
      /\ pagesEvents = <<>> /\ snapshots = <<>>
      /\ excused = {} /\ dropped = {} /\ refused = {} /\ cut = {}
  BY DEF Pages!Init, Pages!NoRequest
<1> DEFINE none == <<>>
<1>2. /\ none \in Seq(PageEvents) /\ none \in Seq(PageRows) /\ Len(none) = 0 /\ DOMAIN none = {}
      /\ none \in Seq([kind : Reporting, found : Seq(Severities)])
  OBVIOUS
<1>3. /\ \A c \in Commands : command[c] = none
      /\ runs = none /\ pagesOutbox = none /\ sending.events = none /\ pagesEvents = none /\ snapshots = none
  BY <1>1
<1>4. command \in [Commands -> Seq(PageEvents)]
  BY <1>1
<1>5. Shape(none)
  BY DEF Shape
<1> HIDE DEF none
<1>6. In(none) = {} /\ \A y, x : ~ Before(none, y, x)
  BY <1>2 DEF In, Before
<1>7. PageTypes
  BY <1>1, <1>2, <1>3, <1>4 DEF PageTypes
<1>8. RunTypes
  BY <1>1, <1>3, <1>6 DEF RunTypes
<1>9. CommandInv /\ FoundInv
  <2>1. \A c \in Commands : command[c] = <<>>
    BY <1>1
  <2> QED
    BY <1>3, <1>5, <1>6, <2>1 DEF CommandInv, FoundInv, Heard
<1>10. OutboxInv
  BY <1>2, <1>3, <1>6 DEF OutboxInv, InOrder
<1>11. LateInv /\ StoredInv
  BY <1>1, <1>3, <1>6 DEF LateInv, StoredInv
<1>12. SeedInv
  BY <1>1, Assumptions DEF SeedInv, Pages!ReportsAssumption
<1> QED
  BY <1>7, <1>8, <1>9, <1>10, <1>11, <1>12 DEF ReportsInv

LEMMA ReportsStep ==
    ASSUME ReportsInv, Pages!Next
    PROVE  ReportsInv'
<1>1. ASSUME NEW c \in Commands,
             \/ Pages!Doctor(c) \/ Pages!Audit(c) \/ Pages!Snapshot(c)
             \/ Pages!Enqueue(c) \/ Pages!EnqueueFails(c) \/ Pages!Kill(c)
      PROVE  ReportsInv'
  BY <1>1, RunStep, EnqueueStep, LostStep
<1>2. CASE Pages!NewVersion \/ Pages!NewAddress
  BY <1>2, AsideStep DEF Pages!NewVersion, Pages!NewAddress, Pages!serverVars, Pages!history
<1>3. CASE Pages!Round
  <2>1. Pages!WithBeat = pagesOutbox \/ Pages!WithBeat = Append(pagesOutbox, Pages!Beat)
    BY DEF Pages!WithBeat
  <2>2. Pages!BeginSend(Pages!WithBeat)
    BY <1>3 DEF Pages!Round
  <2> QED
    BY <2>1, <2>2, SendStep
<1>4. CASE Pages!SyncOnce
  BY <1>4, SendStep DEF Pages!SyncOnce
<1>5. CASE Pages!GiveUp \/ Pages!NoServer
  BY <1>5, AsideStep DEF Pages!GiveUp, Pages!NoServer, Pages!serverVars, Pages!history
<1>6. CASE Pages!Open \/ Pages!SeedItem \/ Pages!ServerCrash \/ Pages!Register
  BY <1>6, AsideStep DEF Pages!Open, Pages!SeedItem, Pages!ServerCrash, Pages!Register,
                         Pages!deviceVars, Pages!history
<1>7. CASE Pages!Serve
  BY <1>7, AnswerStep DEF Pages!Serve
<1>8. CASE Pages!ServeRejecting
  <2>1. PICK e \in Pages!ToSet(sending.events) \ ({Pages!Beat} \union Pages!Known) :
          Pages!Answer({e}) /\ refused' = refused \union {e.run}
    BY <1>8 DEF Pages!ServeRejecting
  <2> DEFINE rejects == {e}
  <2>2. rejects \subseteq In(sending.events) /\ Pages!Beat \notin rejects
    BY KnownIs
  <2>3. refused' = refused \union {x.run : x \in rejects}
    BY <2>1
  <2> HIDE DEF rejects
  <2> QED
    BY <2>1, <2>2, <2>3, AnswerStep DEF rejects
<1>9. CASE Pages!ServeLate \/ Pages!ServeCut \/ Pages!PostSnapshot
  BY <1>9, LateStep, CutStep, PostStep
<1> QED
  BY <1>1, <1>2, <1>3, <1>4, <1>5, <1>6, <1>7, <1>8, <1>9 DEF Pages!Next

LEMMA SeedStep ==
    ASSUME SeedInv, Pages!Next
    PROVE  SeedInv'
<1>0. Items \in Nat /\ Items # 0
  BY Assumptions DEF Pages!ReportsAssumption
<1>1. ASSUME NEW c \in Commands,
             \/ Pages!Doctor(c) \/ Pages!Audit(c) \/ Pages!Snapshot(c)
             \/ Pages!Enqueue(c) \/ Pages!EnqueueFails(c) \/ Pages!Kill(c)
      PROVE  SeedInv'
  BY <1>1 DEF SeedInv, Pages!Doctor, Pages!Audit, Pages!Snapshot, Pages!Capture, Pages!Enqueue,
              Pages!EnqueueFails, Pages!Kill, Pages!serverVars, Pages!history
<1>2. CASE Pages!NewVersion \/ Pages!NewAddress \/ Pages!GiveUp \/ Pages!NoServer
  BY <1>2 DEF SeedInv, Pages!NewVersion, Pages!NewAddress, Pages!GiveUp, Pages!NoServer,
              Pages!serverVars, Pages!history
<1>3. CASE Pages!Round \/ Pages!SyncOnce
  BY <1>3 DEF SeedInv, Pages!Round, Pages!SyncOnce, Pages!BeginSend, Pages!serverVars, Pages!history
<1>4. CASE Pages!Open
  BY <1>0, <1>4 DEF SeedInv, Pages!Open, Pages!Seeds, Pages!history
<1>5. CASE Pages!SeedItem
  <2>1. /\ server = "seeding" /\ catalog' = catalog + 1
        /\ server' = IF catalog' = Items THEN "up" ELSE "seeding"
        /\ seedCut' = seedCut
    BY <1>5 DEF Pages!SeedItem, Pages!history
  <2>2. catalog \in 0..Items /\ catalog < Items
    BY <2>1 DEF SeedInv
  <2>3. catalog + 1 \in 0..Items /\ (catalog + 1 # Items => catalog + 1 < Items)
    BY <1>0, <2>2
  <2> QED
    BY <2>1, <2>3 DEF SeedInv
<1>6. CASE Pages!ServerCrash
  BY <1>6 DEF SeedInv, Pages!ServerCrash
<1>7. CASE Pages!Serve \/ Pages!ServeRejecting
  BY <1>7 DEF SeedInv, Pages!Serve, Pages!ServeRejecting, Pages!Answer, Pages!Handle
<1>8. CASE Pages!ServeLate
  BY <1>8 DEF SeedInv, Pages!ServeLate, Pages!Handle, Pages!history
<1>9. CASE Pages!ServeCut
  <2>1. server = "up" /\ server' = "down" /\ catalog' = catalog /\ seedCut' = seedCut
    BY <1>9 DEF Pages!ServeCut
  <2> QED
    BY <2>1 DEF SeedInv
<1>10. CASE Pages!Register \/ Pages!PostSnapshot
  BY <1>10 DEF SeedInv, Pages!Register, Pages!PostSnapshot, Pages!history
<1> QED
  BY <1>1, <1>2, <1>3, <1>4, <1>5, <1>6, <1>7, <1>8, <1>9, <1>10 DEF Pages!Next

\* What is shown of a kind is a row of it, and none behind it is.
LEMMA LastRunIs ==
    ASSUME NEW T, NEW q \in Seq(T), NEW places \in SUBSET (DOMAIN q), places # {}
    PROVE  \E i \in places : Pages!LastRun(q, places) = q[i].run /\ \A j \in places : j <= i
<1>1. Len(q) \in Nat /\ places \in SUBSET (0..Len(q))
  OBVIOUS
<1>2. \E i \in places : \A j \in places : j <= i
  BY <1>1, Greatest
<1>3. \A x \in places, y \in places : x <= y /\ y <= x => x = y
  BY <1>1
<1>4. Pages!Max(places) \in places /\ \A j \in places : j <= Pages!Max(places)
  BY <1>2 DEF Pages!Max
<1>5. Pages!LastRun(q, places) = q[Pages!Max(places)].run
  BY DEF Pages!LastRun
<1> QED
  BY <1>4, <1>5

LEMMA NewestEvent ==
    ASSUME ReportsInv, NEW sort \in Reporting, NEW n \in Pages!Stored(sort)
    PROVE  /\ \E e \in In(pagesEvents) : e.kind = sort /\ e.run = Pages!ShownEvent(sort)
           /\ \/ n <= Pages!ShownEvent(sort)
              \/ n \in excused \/ Pages!ShownEvent(sort) \in refused
<1> DEFINE places == {i \in DOMAIN pagesEvents : pagesEvents[i].kind = sort}
<1>0. PageTypes /\ StoredInv
  BY DEF ReportsInv
<1>1. pagesEvents \in Seq(PageEvents) /\ places \in SUBSET (DOMAIN pagesEvents)
  BY <1>0 DEF PageTypes
<1>2. PICK j \in places : pagesEvents[j].run = n
  BY KnownIs DEF Pages!Stored, In
<1>3. Pages!ShownEvent(sort) = Pages!LastRun(pagesEvents, places)
  BY DEF Pages!ShownEvent
<1>4. PICK i \in places : Pages!LastRun(pagesEvents, places) = pagesEvents[i].run /\ \A k \in places : k <= i
  <2> HIDE DEF places
  <2> QED
    BY <1>1, <1>2, LastRunIs
<1> DEFINE y == pagesEvents[j]
           x == pagesEvents[i]
<1>5. /\ x \in PageEvents /\ y \in PageEvents /\ x.kind = sort /\ y.kind = sort
      /\ x.run = Pages!ShownEvent(sort) /\ y.run = n /\ j <= i
      /\ x \in In(pagesEvents)
  BY <1>1, <1>2, <1>3, <1>4 DEF In
<1>6. x.run \in Nat /\ y.run \in Nat
  <2> HIDE DEF x, y
  <2> QED
    BY <1>5, EventIs
<1>7. CASE j = i
  BY <1>5, <1>6, <1>7
<1>8. CASE j # i
  <2>1. Before(pagesEvents, y, x)
    <3>1. i \in DOMAIN pagesEvents /\ j \in DOMAIN pagesEvents /\ j < i
      BY <1>1, <1>4, <1>8
    <3> QED
      BY <3>1 DEF Before
  <2> HIDE DEF x, y
  <2>2. x.run < y.run => Older(x, y)
    BY <1>5 DEF Older
  <2>3. x.run < y.run => y.run \in excused \/ x.run \in refused
    BY <1>0, <2>1, <2>2 DEF StoredInv
  <2> QED
    BY <1>5, <1>6, <2>3
<1> QED
  BY <1>5, <1>7, <1>8

LEMMA NewestSnapshot ==
    ASSUME ReportsInv, NEW n \in Pages!Stored("snapshot")
    PROVE  \/ n <= Pages!ShownSnapshot
           \/ n \in excused \union cut \/ Pages!ShownSnapshot \in refused
<1> DEFINE own(s) == s.device = "this device"
           places == {k \in DOMAIN snapshots : own(snapshots[k])}
<1>0. PageTypes /\ StoredInv
  BY DEF ReportsInv
<1>1. snapshots \in Seq(PageRows) /\ places \in SUBSET (DOMAIN snapshots)
      /\ pagesEvents \in Seq(PageEvents)
  BY <1>0 DEF PageTypes
<1>2. PICK e \in In(pagesEvents) : e.kind = "snapshot" /\ e.run = n
  BY KnownIs DEF Pages!Stored
<1>3. SUFFICES ASSUME n \notin cut
               PROVE  n <= Pages!ShownSnapshot \/ n \in excused \/ Pages!ShownSnapshot \in refused
  OBVIOUS
<1>4. PICK y \in In(snapshots) : own(y) /\ y.run = n
  <2> DEFINE row == [device |-> "this device", run |-> n]
  <2>1. row \in In(snapshots)
    BY <1>0, <1>2, <1>3 DEF StoredInv
  <2>2. own(row) /\ row.run = n
    OBVIOUS
  <2> HIDE DEF row
  <2> QED
    BY <2>1, <2>2
<1>5. Pages!ShownSnapshot = Pages!LastRun(snapshots, places)
  BY DEF Pages!ShownSnapshot, Pages!This
<1>6. \A s, t : Before(snapshots, s, t) /\ own(s) /\ own(t) /\ t.run < s.run
        => s.run \in excused \/ t.run \in refused
  BY <1>0 DEF StoredInv
<1> HIDE DEF own
<1>7. PICK j \in places : snapshots[j] = y
  BY <1>4 DEF In
<1>8. PICK i \in places : Pages!LastRun(snapshots, places) = snapshots[i].run /\ \A k \in places : k <= i
  <2> HIDE DEF places
  <2> QED
    BY <1>1, <1>7, LastRunIs
<1> DEFINE x == snapshots[i]
<1>9. /\ x \in PageRows /\ y \in PageRows /\ own(x) /\ own(y)
      /\ x.run = Pages!ShownSnapshot /\ y.run = n /\ j <= i
  BY <1>1, <1>4, <1>5, <1>7, <1>8
<1>10. x.run \in Nat /\ y.run \in Nat
  <2> HIDE DEF x
  <2> QED
    BY <1>9 DEF PageRows
<1>11. CASE j = i
  BY <1>7, <1>9, <1>10, <1>11
<1>12. CASE j # i
  <2>1. Before(snapshots, y, x)
    <3>1. i \in DOMAIN snapshots /\ j \in DOMAIN snapshots /\ j < i
      BY <1>1, <1>8, <1>12
    <3> QED
      BY <1>7, <3>1 DEF Before
  <2> HIDE DEF x
  <2>2. x.run < y.run => y.run \in excused \/ x.run \in refused
    BY <1>6, <1>9, <2>1
  <2> QED
    BY <1>9, <1>10, <2>2
<1> QED
  BY <1>11, <1>12

LEMMA ReportsAgree ==
    ASSUME ReportsInv, SeedInv
    PROVE  Pages!TypeOK /\ Pages!LatestIsNewest /\ Pages!IssuesWithReport /\ Pages!CatalogIsWhole
<1>0. PageTypes /\ RunTypes /\ FoundInv
  BY DEF ReportsInv
<1>1. Pages!TypeOK
  <2>1. Pages!Kinds = Reporting
    BY DEF Pages!Kinds, Reporting
  <2>2. \A i \in DOMAIN runs : runs[i].kind \in Reporting
    <3> DEFINE T == [kind : Reporting, found : Seq(Severities)]
    <3>1. runs \in Seq(T)
      BY <1>0 DEF PageTypes
    <3>2. \A e \in T : e.kind \in Reporting
      OBVIOUS
    <3> HIDE DEF T
    <3>3. \A i \in DOMAIN runs : runs[i] \in T
      BY <3>1
    <3> QED
      BY <3>2, <3>3
  <2>3. \A i \in DOMAIN pagesEvents : pagesEvents[i].run \in DOMAIN runs
    BY <1>0 DEF RunTypes, OfARun, In
  <2> QED
    BY <1>0, <2>1, <2>2, <2>3 DEF Pages!TypeOK, RunTypes, SeedInv
<1>2. Pages!LatestIsNewest
  <2> SUFFICES ASSUME NEW sort \in Reporting, NEW n \in Pages!Stored(sort)
               PROVE  \/ n <= Pages!Shown(sort)
                      \/ n \in excused \union cut \/ Pages!Shown(sort) \in refused
    BY DEF Pages!LatestIsNewest, Pages!Kinds, Reporting
  <2>1. CASE sort = "snapshot"
    BY <2>1, NewestSnapshot DEF Pages!Shown
  <2>2. CASE sort # "snapshot"
    BY <2>2, NewestEvent DEF Pages!Shown
  <2> QED
    BY <2>1, <2>2
<1>3. Pages!IssuesWithReport
  <2> DEFINE n == Pages!Shown("doctor")
  <2>0. n = Pages!ShownEvent("doctor")
    BY DEF Pages!Shown
  <2> HIDE DEF n
  <2> SUFFICES ASSUME n \notin dropped, n # 0, NEW i \in DOMAIN runs[n].found
               PROVE  Pages!Issue(n, i, runs[n].found[i]) \in Pages!Known \union Pages!ToSet(pagesOutbox)
    BY DEF Pages!IssuesWithReport, n
  <2>1. Pages!Stored("doctor") # {}
    <3> DEFINE places == {k \in DOMAIN pagesEvents : pagesEvents[k].kind = "doctor"}
    <3>1. n = Pages!LastRun(pagesEvents, places)
      BY <2>0 DEF Pages!ShownEvent
    <3>2. places # {}
      <4> HIDE DEF places
      <4> QED
        BY <3>1 DEF Pages!LastRun
    <3> QED
      BY <3>2, KnownIs DEF Pages!Stored, In
  <2>2. PICK e \in In(pagesEvents) : e.kind = "doctor" /\ e.run = n
    BY <2>0, <2>1, NewestEvent DEF Reporting
  <2>3. Issues(runs, n) \subseteq Heard
    BY <1>0, <2>2 DEF FoundInv, Heard
  <2>4. Pages!Issue(n, i, runs[n].found[i]) \in Issues(runs, n)
    BY DEF Issues
  <2> QED
    BY <2>3, <2>4, KnownIs DEF Heard
<1>4. Pages!CatalogIsWhole
  BY DEF Pages!CatalogIsWhole, SeedInv
<1> QED
  BY <1>1, <1>2, <1>3, <1>4

-----------------------------------------------------------------------------
(* What the server knows                                                   *)

KnowsInv ==
    /\ which = "index" => IndexInv
    /\ which = "catalog" => CatalogInv
    /\ which = "reports" => ReportsInv /\ SeedInv

LEMMA KnowsStep ==
    ASSUME KnowsInv, [AllNext]_all
    PROVE  KnowsInv'
<1>1. CASE which = "index"
  <2>1. CASE Index!Next /\ which' = which
    BY <1>1, <2>1, IndexStep DEF KnowsInv
  <2>2. CASE UNCHANGED <<which, IndexVars>>
    <3>1. IndexInv /\ UNCHANGED IndexVars
      BY <1>1, <2>2 DEF KnowsInv
    <3>2. IndexTypes' /\ CoverTypes' /\ IndexBounds'
      BY <3>1 DEF IndexVars, IndexInv, IndexTypes, CoverTypes, IndexBounds
    <3>3. AnnouncedInv' /\ LookedAtInv'
      BY <3>1 DEF IndexVars, IndexInv, AnnouncedInv, LookedAtInv
    <3> QED
      BY <1>1, <2>2, <3>2, <3>3 DEF KnowsInv, IndexInv
  <2> QED
    BY <1>1, <2>1, <2>2 DEF AllNext, OnlyThis, all
<1>2. CASE which = "catalog"
  <2>1. CASE Catalog!Next /\ which' = which
    BY <1>2, <2>1, CatalogStep DEF KnowsInv
  <2>2. CASE UNCHANGED <<which, CatalogVars>>
    BY <1>2, <2>2 DEF KnowsInv, CatalogVars, CatalogInv, CatalogTypes, RowsInv
  <2> QED
    BY <1>2, <2>1, <2>2 DEF AllNext, OnlyThis, all
<1>3. CASE which = "reports"
  <2>1. CASE Pages!Next /\ which' = which
    BY <1>3, <2>1, ReportsStep, SeedStep DEF KnowsInv
  <2>2. CASE UNCHANGED <<which, PagesVars>>
    <3>1. ReportsInv /\ SeedInv
      BY <1>3 DEF KnowsInv
    <3>2. ReportsInv'
      BY <2>2, <3>1, AsideStep DEF PagesVars
    <3>3. SeedInv'
      BY <2>2, <3>1 DEF PagesVars, SeedInv
    <3> QED
      BY <1>3, <2>2, <3>2, <3>3 DEF KnowsInv
  <2> QED
    BY <1>3, <2>1, <2>2 DEF AllNext, OnlyThis, all
<1>4. CASE which \notin {"index", "catalog", "reports"}
  <2>1. which' = which
    BY DEF AllNext, OnlyThis, all
  <2> QED
    BY <1>4, <2>1 DEF KnowsInv
<1> QED
  BY <1>1, <1>2, <1>3, <1>4

LEMMA CoverStep ==
    ASSUME KnowsInv, AllNext, which = "index"
    PROVE  Index!CoverStays
<1>1. IndexInv /\ Index!Next
  BY DEF KnowsInv, AllNext
<1> QED
  BY <1>1, CoversKept

\* The index never runs ahead of what the server is told, and once all is delivered the
\* server knows every ROM as a complete scan has read it, the ones it passed over excepted;
\* a cover it has stays (scanner.rs, metadata.rs, events_batch); what is shown of the cloud
\* is one list, up to the statements the database refused (cloud_catalog_post); the newest
\* report of a device is shown, with its issues stored or waiting (dashboard.rs, doctor.rs),
\* and a server that listens has its whole catalog (db.rs).
THEOREM ServerHolds == AllSpec => ServerKnows
<1>1. AllInit => KnowsInv
  BY IndexStart, CatalogStart, ReportsStart DEF AllInit, KnowsInv
<1>2. KnowsInv /\ [AllNext]_all => KnowsInv'
  BY KnowsStep
<1>3. KnowsInv =>
        /\ which = "index" => Index!TypeOK /\ Index!IndexIsAnnounced /\ Index!CardIsKnown
        /\ which = "catalog" => Catalog!TypeOK /\ Catalog!ShownIsOneList
        /\ which = "reports" =>
             Pages!TypeOK /\ Pages!LatestIsNewest /\ Pages!IssuesWithReport /\ Pages!CatalogIsWhole
  BY IndexAgrees, CatalogAgrees, ReportsAgree DEF KnowsInv
<1>4. KnowsInv /\ [AllNext]_all => [which = "index" => Index!CoverStays]_all
  BY CoverStep
<1> QED
  BY <1>1, <1>2, <1>3, <1>4, PTL DEF AllSpec, ServerKnows
=============================================================================
