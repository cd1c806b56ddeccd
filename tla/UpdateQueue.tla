---------------------------- MODULE UpdateQueue -----------------------------
(***************************************************************************)
(* "Update Agent" of the dashboard (update_requests in                     *)
(* playora-server/src/routes.rs), polled by the run loop                   *)
(* (poll_update_requests in sync.rs) and carried out by selfupdate.rs.     *)
(*                                                                         *)
(* A successful update restarts playora-agent.service: where that is the   *)
(* unit the run loop belongs to, the loop is killed before it answers, and *)
(* the new agent finds the request still pending.                          *)
(***************************************************************************)
EXTENDS Naturals, TLAPS

CONSTANTS
    Managed,        \* the run loop is a process of playora-agent.service
    MaxRequests, MaxVersion, MaxMenuRuns, MaxFaults

ASSUME UpdateAssumption ==
    /\ Managed \in BOOLEAN
    /\ {MaxRequests, MaxVersion, MaxMenuRuns, MaxFaults} \subseteq Nat

Ids      == 1..MaxRequests
Versions == 1..MaxVersion
Outcomes == {"offline", "current", "installed", "fail"}

VARIABLES
    row,            \* rows of update_requests: the answer, "pending" or "none" yet
    late,           \* answers on their way unawaited
    latest,         \* version of the latest release
    installed,      \* version of the binary on disk
    running,        \* version of the run loop
    stage,
    pulled,         \* requests the run loop still has to carry out
    outcome,        \* what selfupdate::run returned
    met,            \* history: requests since which the device was up to date once
    menuRuns, faults

vars == <<row, late, latest, installed, running, stage, pulled, outcome, met,
          menuRuns, faults>>

\* Beta releases are tagged next to the stable ones, so the device may be ahead
\* of the latest stable release.
Init ==
    /\ row = [i \in Ids |-> "none"]
    /\ late = [i \in Ids |-> {}]
    /\ latest \in Versions
    /\ installed \in Versions
    /\ running = installed
    /\ stage = "idle"
    /\ pulled = {}
    /\ outcome = "fail"
    /\ met = {}
    /\ menuRuns = 0
    /\ faults = 0

-----------------------------------------------------------------------------
(* Dashboard, releases, menu *)

\* update_request, update_request_form: ids are given in order.
Request(i) ==
    /\ row[i] = "none"
    /\ \A j \in Ids : j < i => row[j] # "none"
    /\ row' = [row EXCEPT ![i] = "pending"]
    /\ UNCHANGED <<late, latest, installed, running, stage, pulled, outcome,
                   menuRuns, faults>>

Publish ==
    /\ latest < MaxVersion
    /\ latest' = latest + 1
    /\ UNCHANGED <<row, late, installed, running, stage, pulled, outcome,
                   menuRuns, faults>>

\* Mutant: any other release is installed.
AnyOther(v) == latest

\* updater.update() installs what is newer than the version that asks.
Installs(v) == IF latest > v THEN latest ELSE installed

\* Mutant: the new agent goes on with the old one's list.
GoesOn ==
    /\ running' = installed'
    /\ stage' = "idle"
    /\ UNCHANGED pulled

\* The run loop is started again by systemd, with the binary on disk.
Restarted ==
    /\ running' = installed'
    /\ stage' = "idle"
    /\ pulled' = {}

\* Playora Update: selfupdate::run in a process of its own.
MenuUpdate ==
    /\ menuRuns < MaxMenuRuns
    /\ menuRuns' = menuRuns + 1
    /\ installed # latest
    /\ installed' = Installs(installed)
    /\ IF Managed THEN Restarted ELSE UNCHANGED <<running, stage, pulled>>
    /\ UNCHANGED <<row, late, latest, outcome, faults>>

-----------------------------------------------------------------------------
(* Server *)

\* update_ack: whatever the row says
Answered(i, o) == row' = [row EXCEPT ![i] = o]

ServeLate(i) ==
    /\ \E o \in late[i] : Answered(i, o) /\ late' = [late EXCEPT ![i] = @ \ {o}]
    /\ UNCHANGED <<latest, installed, running, stage, pulled, outcome, menuRuns,
                   faults>>

-----------------------------------------------------------------------------
(* Run loop *)

IsFirst(i) == i \in pulled /\ \A j \in pulled : i <= j

\* update_pending
Pending == {i \in Ids : row[i] = "pending"}

\* A poll that fails is a round in which nothing is done.
Poll ==
    /\ stage = "idle"
    /\ pulled' = Pending
    /\ stage' = IF pulled' = {} THEN "idle" ELSE "lookup"
    /\ UNCHANGED <<row, late, latest, installed, running, outcome, menuRuns, faults>>

Returns(o) ==
    /\ outcome' = o
    /\ stage' = "ack"
    /\ UNCHANGED <<row, late, latest, running, pulled, menuRuns>>

\* No network in the pre-flight: Ok("offline")
Offline ==
    /\ stage = "lookup"
    /\ faults < MaxFaults
    /\ faults' = faults + 1
    /\ Returns("offline")
    /\ UNCHANGED installed

\* The lookup, the download or the installation fails.
UpdateFails ==
    /\ stage = "lookup"
    /\ faults < MaxFaults
    /\ faults' = faults + 1
    /\ Returns("fail")
    /\ UNCHANGED installed

\* Mutants: the device counts as up to date when it is not; the "v" of the tag
\* is compared too.
NotLookedUp == TRUE
Untrimmed == FALSE

\* latest.version == CARGO_PKG_VERSION
UpToDate == running = latest

Current ==
    /\ stage = "lookup"
    /\ UpToDate
    /\ Returns("current")
    /\ UNCHANGED <<installed, faults>>

\* updater.update(): the release is put in place, unless it is not newer.
Install ==
    /\ stage = "lookup"
    /\ running # latest
    /\ installed' = Installs(running)
    /\ stage' = "restart"
    /\ UNCHANGED <<row, late, latest, running, pulled, outcome, menuRuns, faults>>

\* systemctl restart playora-agent.service: the end of the run loop where it is
\* that service, and else a call that returns.
Restart ==
    /\ stage = "restart"
    /\ UNCHANGED <<row, late, latest, installed, menuRuns, faults>>
    /\ IF Managed THEN Restarted /\ UNCHANGED outcome
       ELSE outcome' = "installed" /\ stage' = "ack" /\ UNCHANGED <<running, pulled>>

Answering(i) ==
    /\ stage = "ack"
    /\ IsFirst(i)
    /\ pulled' = pulled \ {i}
    /\ stage' = IF pulled' = {} THEN "idle" ELSE "lookup"
    /\ UNCHANGED <<latest, installed, running, outcome, menuRuns>>

Ack(i) ==
    /\ Answering(i)
    /\ Answered(i, outcome)
    /\ UNCHANGED <<late, faults>>

\* The agent stops waiting; the server may serve the answer later, or never.
AckLate(i) ==
    /\ faults < MaxFaults
    /\ faults' = faults + 1
    /\ Answering(i)
    /\ late' = [late EXCEPT ![i] = @ \union {outcome}]
    /\ UNCHANGED row

Crash ==
    /\ faults < MaxFaults
    /\ faults' = faults + 1
    /\ UNCHANGED <<row, late, latest, installed, outcome, menuRuns>>
    /\ Restarted

-----------------------------------------------------------------------------

Step ==
    \/ Poll \/ Current \/ Install \/ Restart
    \/ \E i \in pulled : Ack(i)

\* History: requests since which the binary on disk was once not behind the
\* latest release.
Observe ==
    met' = met \union {i \in Ids : row'[i] # "none" /\ installed' >= latest'}

Next ==
    /\ \/ \E i \in Ids : Request(i) \/ ServeLate(i)
       \/ Publish \/ MenuUpdate
       \/ Step \/ Offline \/ UpdateFails \/ Crash
       \/ \E i \in pulled : AckLate(i)
    /\ Observe

Spec == Init /\ [][Next]_vars

\* cmd_run goes round for ever.
FairSpec == Spec /\ WF_vars(Step /\ Observe)

-----------------------------------------------------------------------------
(* Properties *)

\* Every variable has its type, and the stage says what there is to do.
TypeOK ==
    /\ row \in [Ids -> Outcomes \union {"none", "pending"}]
    /\ late \in [Ids -> SUBSET Outcomes]
    /\ latest \in Versions /\ installed \in Versions /\ running \in Versions
    /\ stage \in {"idle", "lookup", "restart", "ack"}
    /\ pulled \in SUBSET Ids
    /\ outcome \in Outcomes
    /\ met \in SUBSET Ids
    /\ menuRuns \in Nat /\ faults \in Nat
    /\ pulled = {} <=> stage = "idle"
    /\ \A i \in pulled : row[i] # "none"

\* An answer that the agent is up to date, or was updated, is true: since the
\* request was made the binary on disk was not behind the latest release at
\* some time, even if another process put it there or the answer came late.
OkMeansUpToDate ==
    \A i \in Ids : row[i] \in {"current", "installed"} => i \in met

\* No update takes the device back, also not one that was ahead of the releases.
NoDowngrade == [][installed' >= installed]_vars

\* Every request is answered in the end, unless the device is ahead of the
\* latest release: then each attempt restarts the agent before it can answer.
EveryUpdateAnswered ==
    [](running <= latest) =>
        \A i \in Ids : row[i] = "pending" ~> row[i] # "pending"

-----------------------------------------------------------------------------
(* Proofs *)

(***************************************************************************)
(* What the properties rest on.  The binary on disk is never older than    *)
(* the agent that runs, and when the disk is ahead of the releases the     *)
(* agent is that version (VersionInv).  Once the agent has a good answer,  *)
(* or is about to restart, everything it was asked has been met, and so    *)
(* have the good answers on their way (AnswerInv).                         *)
(***************************************************************************)
Good == {"current", "installed"}

VersionInv ==
    /\ running <= installed
    /\ installed > latest => running = installed

AnswerInv ==
    /\ OkMeansUpToDate
    /\ \A i \in Ids : late[i] \intersect Good # {} => i \in met
    /\ stage = "restart" => pulled \subseteq met
    /\ stage = "ack" /\ outcome \in Good => pulled \subseteq met

Inv == TypeOK /\ VersionInv /\ AnswerInv

LEMMA VersionsAreNumbers == Versions \subseteq Nat
  BY UpdateAssumption DEF Versions

\* Every variable keeps its type, versions and answers are consistent.
THEOREM InvHolds == Spec => []Inv
<1>1. Init => Inv
  BY VersionsAreNumbers
  DEF Init, Inv, TypeOK, VersionInv, AnswerInv, OkMeansUpToDate, Outcomes, Good
<1>2. Inv /\ [Next]_vars => Inv'
  <2> SUFFICES ASSUME Inv, [Next]_vars PROVE Inv'
    OBVIOUS
  <2>1. CASE UNCHANGED vars
    BY <2>1 DEF Inv, TypeOK, VersionInv, AnswerInv, OkMeansUpToDate, vars
  <2>2. CASE Next
    <3>0. met' = met \union {i \in Ids : row'[i] # "none" /\ installed' >= latest'}
      BY <2>2 DEF Next, Observe
    <3> USE VersionsAreNumbers, UpdateAssumption
        DEF Inv, TypeOK, VersionInv, AnswerInv, OkMeansUpToDate, Outcomes, Good
    <3>1. ASSUME NEW i \in Ids, Request(i) PROVE Inv'
      BY <3>0, <3>1 DEF Request
    <3>2. ASSUME NEW i \in Ids, ServeLate(i) PROVE Inv'
      BY <3>0, <3>2 DEF ServeLate, Answered
    <3>3. CASE Publish
      BY <3>0, <3>3 DEF Publish, Versions
    <3>4. CASE MenuUpdate
      BY <3>0, <3>4 DEF MenuUpdate, Installs, Restarted
    <3>5. CASE Poll
      BY <3>0, <3>5 DEF Poll, Pending
    <3>6. CASE Current
      BY <3>0, <3>6 DEF Current, Returns, UpToDate
    <3>7. CASE Install
      BY <3>0, <3>7 DEF Install, Installs
    <3>8. CASE Restart
      BY <3>0, <3>8 DEF Restart, Restarted
    <3>9. ASSUME NEW i \in pulled, Ack(i) PROVE Inv'
      BY <3>0, <3>9 DEF Ack, Answering, Answered
    <3>10. CASE Offline
      BY <3>0, <3>10 DEF Offline, Returns
    <3>11. CASE UpdateFails
      BY <3>0, <3>11 DEF UpdateFails, Returns
    <3>12. CASE Crash
      <4>1. UNCHANGED <<row, late, latest, installed, outcome, menuRuns>>
        BY <3>12 DEF Crash
      <4>2. running' = installed /\ stage' = "idle" /\ pulled' = {} /\ faults' \in Nat
        BY <3>12 DEF Crash, Restarted
      <4>3. TypeOK' /\ VersionInv'
        BY <3>0, <4>1, <4>2
      <4>4. AnswerInv'
        BY <3>0, <4>1, <4>2
      <4> QED
        BY <4>3, <4>4
    <3>13. ASSUME NEW i \in pulled, AckLate(i) PROVE Inv'
      BY <3>0, <3>13 DEF AckLate, Answering
    <3> QED
      BY <2>2, <3>1, <3>2, <3>3, <3>4, <3>5, <3>6, <3>7, <3>8, <3>9, <3>10, <3>11,
         <3>12, <3>13 DEF Next, Step
  <2> QED
    BY <2>1, <2>2
<1> QED
  BY <1>1, <1>2, PTL DEF Spec

\* Every variable keeps its type (update_requests and the run loop's state).
THEOREM TypeCorrect == Spec => []TypeOK
  BY InvHolds, PTL DEF Inv

\* "ok" is not answered to a device that stayed behind, but when it is offline.
THEOREM OkIsUpToDate == Spec => []OkMeansUpToDate
<1>1. Inv => OkMeansUpToDate
  BY DEF Inv, AnswerInv
<1> QED
  BY <1>1, InvHolds, PTL

\* No update takes the device back, whichever process carries it out.
THEOREM NeverDowngraded == Spec => NoDowngrade
<1>1. Inv /\ [Next]_vars => [installed' >= installed]_vars
  BY VersionsAreNumbers
  DEF Inv, TypeOK, VersionInv, Next, Step, vars, Request, ServeLate, Publish,
      MenuUpdate, Installs, Poll, Pending, Current, Returns, Install, Restart, Answering,
      Ack, AckLate, Offline, UpdateFails, Crash
<1> QED
  BY <1>1, InvHolds, PTL DEF Spec, NoDowngrade
=============================================================================
