------------------------- MODULE DeviceQueuesProofs -------------------------
(***************************************************************************)
(* Proofs about DeviceQueues, for any ROMs, commands and bounds.           *)
(***************************************************************************)
EXTENDS DeviceQueues, TLAPS

\* Settling keeps the rows, their kinds and paths, and what is settled.
LEMMA SettledFacts ==
    ASSUME requests \in Seq(Requests), NEW a \in Answers
    PROVE  /\ Settled(a) \in Seq(Requests)
           /\ DOMAIN Settled(a) = DOMAIN requests
           /\ \A i \in DOMAIN requests :
                 /\ Settled(a)[i].kind = requests[i].kind
                 /\ Settled(a)[i].path = requests[i].path
                 /\ requests[i].status # "pending" => Settled(a)[i] = requests[i]
                 /\ (Settled(a)[i].status = "ok" /\ requests[i].status # "ok") =>
                       /\ a.ok
                       /\ requests[i].kind = a.kind
                       /\ requests[i].path = a.path
<1>1. DOMAIN Settled(a) = 1..Len(requests) /\ Len(requests) \in Nat
  BY DEF Settled
<1>2. \A i \in DOMAIN requests : Settled(a)[i] \in Requests
  <2> SUFFICES ASSUME NEW i \in DOMAIN requests PROVE Settled(a)[i] \in Requests
    OBVIOUS
  <2>1. requests[i] \in Requests
    OBVIOUS
  <2>2. CASE Settles(requests[i], a)
    <3>1. Settled(a)[i] = [requests[i] EXCEPT !.status = IF a.ok THEN "ok" ELSE "fail"]
      BY <2>2 DEF Settled
    <3> QED
      BY <2>1, <3>1 DEF Requests, Kinds
  <2>3. CASE ~Settles(requests[i], a)
    BY <2>1, <2>3 DEF Settled
  <2> QED
    BY <2>2, <2>3
<1>3. Settled(a) \in Seq(Requests)
  BY <1>1, <1>2 DEF Settled
<1>4. \A i \in DOMAIN requests :
         /\ Settled(a)[i].kind = requests[i].kind
         /\ Settled(a)[i].path = requests[i].path
         /\ requests[i].status # "pending" => Settled(a)[i] = requests[i]
         /\ (Settled(a)[i].status = "ok" /\ requests[i].status # "ok") =>
               /\ a.ok
               /\ requests[i].kind = a.kind
               /\ requests[i].path = a.path
  BY DEF Settled, Settles, Requests, Answers
<1> QED
  BY <1>1, <1>3, <1>4

\* The answer of a command that is answering is an answer.
LEMMA AnswerType ==
    ASSUME TypeOK, NEW self \in Commands, NEW i \in pulled[self]
    PROVE  /\ i \in DOMAIN requests /\ requests[i] \in Requests
           /\ Answer(self, i) \in Answers
<1>1. i \in DOMAIN requests /\ requests[i] \in Requests
  BY DEF TypeOK, RowsTyped, AgentTyped
<1>2. kind[self] \in Kinds /\ result[self] \in BOOLEAN
  BY DEF TypeOK, RowsTyped, AgentTyped
<1> QED
  BY <1>1, <1>2 DEF Answer, Answers, Requests

\* What a request may be after a step
LEMMA RequestTypes ==
    ASSUME TypeOK, NEW k \in Kinds, NEW p \in Paths, Request(k, p)
    PROVE  /\ requests' \in Seq(Requests)
           /\ DOMAIN requests \subseteq DOMAIN requests'
           /\ \A i \in DOMAIN requests : requests'[i] = requests[i]
           /\ \A i \in DOMAIN requests' \ DOMAIN requests :
                 /\ requests'[i] = [kind |-> k, path |-> p, status |-> "pending"]
                 /\ \A j \in DOMAIN requests : j < i
  BY DEF TypeOK, RowsTyped, AgentTyped, Request, Requests

\* A step that leaves the agent alone leaves its variables typed, as long as no
\* request disappears, and consistent, as long as none changes its kind.
LEMMA AgentStays ==
    ASSUME TypeOK, UNCHANGED agent, DOMAIN requests \subseteq DOMAIN requests',
           \A i \in DOMAIN requests : requests'[i].kind = requests[i].kind
    PROVE  AgentTyped' /\ \A c \in Commands : Consistent(c)'
<1>1. AgentTyped'
  BY DEF TypeOK, AgentTyped, agent
<1>2. ASSUME NEW c \in Commands PROVE Consistent(c)'
  <2>1. Consistent(c) /\ pulled[c] \subseteq DOMAIN requests
    BY DEF TypeOK, AgentTyped
  <2> QED
    BY <2>1 DEF Consistent, agent
<1> QED
  BY <1>1, <1>2

\* Every variable keeps its type, an answer is about a pulled request, and the
\* lock is held exactly while a cleanup runs (cmd_cleanup and its _lock).
THEOREM TypeCorrect == Spec => []TypeOK
<1>1. Init => TypeOK
  BY QueueAssumption DEF Init, TypeOK, RowsTyped, AgentTyped, Consistent, Answers, Kinds
<1>2. TypeOK /\ [Next]_vars => TypeOK'
  <2> SUFFICES ASSUME TypeOK, [Next]_vars PROVE TypeOK'
    OBVIOUS
  <2>a. RowsTyped /\ AgentTyped
    BY DEF TypeOK
  <2>b. \A c \in Commands : Consistent(c)
    BY DEF TypeOK
  <2>1. CASE UNCHANGED vars
    <3>1. RowsTyped'
      BY <2>a, <2>1 DEF RowsTyped, vars
    <3>2. UNCHANGED agent /\ UNCHANGED requests
      BY <2>1 DEF vars
    <3>3. AgentTyped' /\ \A c \in Commands : Consistent(c)'
      BY <3>2, AgentStays
    <3> QED
      BY <3>1, <3>3 DEF TypeOK
  <2>2. CASE Next
    <3>0. DOMAIN requests \subseteq DOMAIN requests' => met' \in SUBSET DOMAIN requests'
      BY <2>2, <2>a DEF Next, Observe, RowsTyped
    <3> USE QueueAssumption DEF Goto
    <3>1. ASSUME NEW k \in Kinds, NEW p \in Paths, Request(k, p) PROVE TypeOK'
      <4>1. /\ requests' \in Seq(Requests)
            /\ DOMAIN requests \subseteq DOMAIN requests'
            /\ \A i \in DOMAIN requests : requests'[i] = requests[i]
        BY <3>1, RequestTypes
      <4>2. RowsTyped'
        BY <2>a, <3>0, <3>1, <4>1 DEF RowsTyped, Request
      <4>3. AgentTyped' /\ \A c \in Commands : Consistent(c)'
        BY <3>1, <4>1, AgentStays DEF Request
      <4> QED
        BY <4>2, <4>3 DEF TypeOK
    <3>2. ASSUME NEW p \in Paths, Put(p) \/ WriteLine(p) PROVE TypeOK'
      <4>1. RowsTyped'
        <5>1. CASE Put(p)
          BY <2>a, <3>0, <5>1 DEF RowsTyped, Put
        <5>2. CASE WriteLine(p)
          BY <2>a, <3>0, <5>2 DEF RowsTyped, WriteLine
        <5> QED
          BY <3>2, <5>1, <5>2
      <4>2. UNCHANGED agent /\ UNCHANGED requests
        BY <3>2 DEF Put, WriteLine
      <4>3. AgentTyped' /\ \A c \in Commands : Consistent(c)'
        BY <4>2, AgentStays
      <4> QED
        BY <4>1, <4>3 DEF TypeOK
    <3>3. ASSUME NEW a \in Answers, ServeLate(a) PROVE TypeOK'
      <4>1. /\ requests' \in Seq(Requests)
            /\ DOMAIN requests' = DOMAIN requests
            /\ \A i \in DOMAIN requests : requests'[i].kind = requests[i].kind
        BY <2>a, <3>3, SettledFacts DEF ServeLate, RowsTyped
      <4>2. late' \in [Answers -> Nat]
        BY <2>a, <3>3 DEF ServeLate, RowsTyped
      <4>3. RowsTyped'
        BY <2>a, <3>0, <3>3, <4>1, <4>2 DEF RowsTyped, ServeLate
      <4>4. UNCHANGED agent
        BY <3>3 DEF ServeLate
      <4>5. AgentTyped' /\ \A c \in Commands : Consistent(c)'
        BY <4>1, <4>4, AgentStays
      <4> QED
        BY <4>3, <4>5 DEF TypeOK
    <3>4. CASE Refused
      <4>1. RowsTyped'
        BY <2>a, <3>0, <3>4 DEF RowsTyped, Refused
      <4>2. AgentTyped'
        BY <2>a, <3>4 DEF AgentTyped, Refused, Kinds
      <4>3. ASSUME NEW c \in Commands PROVE Consistent(c)'
        BY <2>a, <2>b, <3>4 DEF AgentTyped, Consistent, Refused
      <4> QED
        BY <4>1, <4>2, <4>3 DEF TypeOK
    <3>5. ASSUME NEW self \in Commands, Begin(self) PROVE TypeOK'
      <4>1. RowsTyped'
        BY <2>a, <3>0, <3>5 DEF RowsTyped, Begin
      <4>2. AgentTyped'
        BY <2>a, <3>5 DEF AgentTyped, RowsTyped, Begin, Kinds
      <4>3. ASSUME NEW c \in Commands PROVE Consistent(c)'
        BY <2>a, <2>b, <3>5 DEF AgentTyped, Consistent, Begin
      <4> QED
        BY <4>1, <4>2, <4>3 DEF TypeOK
    <3>6. ASSUME NEW self \in Commands, NEW ok \in BOOLEAN, DeleteLine(self, ok)
          PROVE  TypeOK'
      <4>1. RowsTyped'
        BY <2>a, <3>0, <3>6 DEF RowsTyped, DeleteLine, Deletion
      <4>2. AgentTyped'
        BY <2>a, <3>6 DEF AgentTyped, DeleteLine
      <4>3. ASSUME NEW c \in Commands PROVE Consistent(c)'
        BY <2>b, <3>6 DEF Consistent, DeleteLine
      <4> QED
        BY <4>1, <4>2, <4>3 DEF TypeOK
    <3>7. ASSUME NEW self \in Commands, NEW ok \in BOOLEAN,
                 NEW i \in pulled[self], Apply(self, i, ok)
          PROVE  TypeOK'
      <4>1. requests[i].path \in Paths
        BY AnswerType DEF Requests
      <4>2. files' \in SUBSET Paths
        BY <2>a, <3>7, <4>1 DEF RowsTyped, Apply, Deletion, Download
      <4>3. RowsTyped'
        BY <2>a, <3>0, <3>7, <4>2 DEF RowsTyped, Apply
      <4>4. /\ UNCHANGED <<requests, pulled, lock, taken, todo, botched>>
            /\ stage' = [stage EXCEPT ![self] = "ack"]
            /\ kind' = [kind EXCEPT ![self] = kind[self]]
            /\ result' = [result EXCEPT ![self] = ok]
        BY <3>7 DEF Apply, Outcome
      <4>5. AgentTyped'
        BY <2>a, <4>4 DEF AgentTyped
      <4>6. pulled[self] # {} /\ stage[self] = "apply"
        BY <3>7 DEF Apply
      <4>7. ASSUME NEW c \in Commands PROVE Consistent(c)'
        BY <2>a, <2>b, <4>4, <4>6 DEF AgentTyped, Consistent
      <4> QED
        BY <4>3, <4>5, <4>7 DEF TypeOK
    <3>8. ASSUME NEW self \in Commands, NEW i \in pulled[self],
                 Ack(self, i) \/ AckLate(self, i)
          PROVE  TypeOK'
      <4>1. Answer(self, i) \in Answers
        BY AnswerType
      <4>2. /\ requests' \in Seq(Requests)
            /\ DOMAIN requests' = DOMAIN requests
            /\ \A j \in DOMAIN requests : requests'[j].kind = requests[j].kind
        BY <2>a, <3>8, <4>1, SettledFacts DEF Ack, AckLate, RowsTyped
      <4>3. late' \in [Answers -> Nat] /\ faults' \in Nat
        <5>1. CASE Ack(self, i)
          BY <2>a, <5>1 DEF Ack, RowsTyped
        <5>2. CASE AckLate(self, i)
          BY <2>a, <4>1, <5>2 DEF AckLate, RowsTyped
        <5> QED
          BY <3>8, <5>1, <5>2
      <4>4. /\ stage[self] = "ack"
            /\ pulled' = [pulled EXCEPT ![self] = @ \ {i}]
            /\ stage' = [stage EXCEPT ![self] = "apply"]
            /\ kind' = [kind EXCEPT ![self] = kind[self]]
            /\ UNCHANGED <<files, lines, taken, todo, result, lock, botched, puts,
                           menuRuns>>
        BY <3>8 DEF Ack, AckLate, Answered
      <4>5. RowsTyped'
        BY <2>a, <3>0, <4>2, <4>3, <4>4 DEF RowsTyped
      <4>6. AgentTyped'
        BY <2>a, <4>2, <4>4 DEF AgentTyped
      <4>7. ASSUME NEW c \in Commands PROVE Consistent(c)'
        BY <2>a, <2>b, <4>2, <4>4 DEF AgentTyped, Consistent
      <4> QED
        BY <4>5, <4>6, <4>7 DEF TypeOK
    <3>10. ASSUME NEW self \in Commands, EmptyQueue(self) PROVE TypeOK'
      <4>1. RowsTyped'
        BY <2>a, <3>0, <3>10 DEF RowsTyped, EmptyQueue
      <4>2. AgentTyped'
        BY <2>a, <3>10 DEF AgentTyped, EmptyQueue, Kinds
      <4>3. lock = self /\ kind[self] = "delete" /\ stage[self] = "lines"
        BY <2>b, <3>10 DEF EmptyQueue, Consistent
      <4>4. ASSUME NEW c \in Commands PROVE Consistent(c)'
        <5>1. Consistent(c)
          BY <2>b
        <5>2. CASE c = self
          BY <2>a, <3>10, <4>3, <5>1, <5>2 DEF AgentTyped, EmptyQueue, Consistent
        <5>3. CASE c # self
          <6>1. lock # c /\ lock' # c
            BY <3>10, <4>3, <5>3 DEF EmptyQueue
          <6>2. /\ stage'[c] = stage[c] /\ kind'[c] = kind[c]
                /\ UNCHANGED <<requests, pulled>>
            BY <2>a, <3>10, <5>3 DEF AgentTyped, EmptyQueue
          <6> QED
            BY <5>1, <6>1, <6>2 DEF Consistent
        <5> QED
          BY <5>2, <5>3
      <4> QED
        BY <4>1, <4>2, <4>4 DEF TypeOK
    <3>11. ASSUME NEW self \in Commands, Pull(self) \/ PullFails(self) PROVE TypeOK'
      <4>1. RowsTyped'
        <5>1. CASE Pull(self)
          BY <2>a, <3>0, <5>1 DEF RowsTyped, Pull
        <5>2. CASE PullFails(self)
          BY <2>a, <3>0, <5>2 DEF RowsTyped, PullFails
        <5> QED
          BY <3>11, <5>1, <5>2
      <4>2. PICK S \in SUBSET DOMAIN requests :
               /\ \A i \in S : requests[i].kind = kind[self]
               /\ pulled' = [pulled EXCEPT ![self] = S]
        <5>1. CASE Pull(self)
          BY <5>1 DEF Pull, Pending
        <5>2. CASE PullFails(self)
          <6>1. pulled[self] = {}
            BY <2>b, <5>2 DEF PullFails, Consistent
          <6>2. pulled' = [pulled EXCEPT ![self] = {}]
            BY <2>a, <5>2, <6>1 DEF PullFails, AgentTyped
          <6> QED
            BY <6>2
        <5> QED
          BY <3>11, <5>1, <5>2
      <4>3. /\ stage[self] = "pull"
            /\ stage' = [stage EXCEPT ![self] = "apply"]
            /\ kind' = [kind EXCEPT ![self] = kind[self]]
            /\ UNCHANGED <<requests, taken, todo, result, lock, botched>>
        BY <3>11 DEF Pull, PullFails
      <4>4. AgentTyped'
        BY <2>a, <4>2, <4>3 DEF AgentTyped
      <4>5. ASSUME NEW c \in Commands PROVE Consistent(c)'
        BY <2>a, <2>b, <4>2, <4>3 DEF AgentTyped, Consistent
      <4> QED
        BY <4>1, <4>4, <4>5 DEF TypeOK
    <3>13. ASSUME NEW self \in Commands, EndQueue(self) PROVE TypeOK'
      <4>1. RowsTyped'
        BY <2>a, <3>0, <3>13 DEF RowsTyped, EndQueue
      <4>2. AgentTyped'
        BY <2>a, <3>13 DEF AgentTyped, EndQueue, Released, Kinds
      <4>3. ASSUME NEW c \in Commands PROVE Consistent(c)'
        <5>1. Consistent(c) /\ Consistent(self)
          BY <2>b
        <5>2. CASE c = self
          BY <2>a, <3>13, <5>1, <5>2 DEF AgentTyped, EndQueue, Released, Consistent
        <5>3. CASE c # self
          <6>1. lock' = c <=> lock = c
            BY <3>13, <5>1, <5>3 DEF EndQueue, Released, Consistent
          <6>2. /\ stage'[c] = stage[c] /\ kind'[c] = kind[c]
                /\ UNCHANGED <<requests, pulled>>
            BY <2>a, <3>13, <5>3 DEF AgentTyped, EndQueue
          <6> QED
            BY <5>1, <6>1, <6>2 DEF Consistent
        <5> QED
          BY <5>2, <5>3
      <4> QED
        BY <4>1, <4>2, <4>3 DEF TypeOK
    <3>14. ASSUME NEW self \in Commands, Crash(self) PROVE TypeOK'
      <4>1. late' \in [Answers -> Nat]
        <5>1. CASE UNCHANGED late
          BY <2>a, <5>1 DEF RowsTyped
        <5>2. ASSUME NEW i \in pulled[self],
                     late' = [late EXCEPT ![Answer(self, i)] = @ + 1]
              PROVE  late' \in [Answers -> Nat]
          <6>1. Answer(self, i) \in Answers
            BY AnswerType
          <6> QED
            BY <2>a, <5>2, <6>1 DEF RowsTyped
        <5> QED
          BY <3>14, <5>1, <5>2 DEF Crash
      <4>2. RowsTyped'
        BY <2>a, <3>0, <3>14, <4>1 DEF RowsTyped, Crash
      <4>3. AgentTyped'
        BY <2>a, <3>14 DEF AgentTyped, Crash, Kinds
      <4>4. ASSUME NEW c \in Commands PROVE Consistent(c)'
        BY <2>a, <2>b, <3>14 DEF AgentTyped, Consistent, Crash
      <4> QED
        BY <4>2, <4>3, <4>4 DEF TypeOK
    <3> QED
      BY <2>2, <3>1, <3>2, <3>3, <3>4, <3>5, <3>6, <3>7, <3>8, <3>10, <3>11, <3>13, <3>14
      DEF Next, Step, RequestDeletion, RequestDownload, Kinds
  <2> QED
    BY <2>1, <2>2
<1> QED
  BY <1>1, <1>2, PTL DEF Spec

-----------------------------------------------------------------------------

\* What was answered stands: both handlers change pending rows only.
THEOREM SettledStaysSettled == Spec => AnswersStand
<1>1. TypeOK /\ [Next]_vars =>
        [\A i \in DOMAIN requests :
            requests[i].status # "pending" => requests'[i] = requests[i]]_vars
  <2> SUFFICES ASSUME TypeOK, [Next]_vars, NEW i \in DOMAIN requests,
                      requests[i].status # "pending"
               PROVE  requests'[i] = requests[i]
    OBVIOUS
  <2>1. CASE UNCHANGED requests
    BY <2>1
  <2>2. ASSUME NEW k \in Kinds, NEW p \in Paths, Request(k, p)
        PROVE  requests'[i] = requests[i]
    BY <2>2, RequestTypes
  <2>3. ASSUME NEW a \in Answers, requests' = Settled(a)
        PROVE  requests'[i] = requests[i]
    BY <2>3, SettledFacts DEF TypeOK, RowsTyped, AgentTyped
  <2>4. ASSUME NEW self \in Commands, NEW j \in pulled[self], Ack(self, j)
        PROVE  requests'[i] = requests[i]
    BY <2>3, <2>4, AnswerType DEF Ack
  <2>5. ASSUME NEW self \in Commands, Step(self)
        PROVE  requests'[i] = requests[i]
    BY <2>1, <2>4, <2>5
    DEF Step, DeleteLine, Apply, EmptyQueue, Pull, EndQueue
  <2> QED
    BY <2>1, <2>2, <2>3, <2>5
    DEF Next, RequestDeletion, RequestDownload, Kinds, vars, Put, WriteLine, ServeLate,
        Refused, Begin, AckLate, Answered, PullFails, Crash
<1> QED
  BY <1>1, TypeCorrect, PTL DEF Spec, AnswersStand

-----------------------------------------------------------------------------

(***************************************************************************)
(* OkWasEarned is not inductive: it does not speak of the answers that are *)
(* still to be served.  Earned says what an "ok" for a path rests on: there *)
(* was a request, and every request, also one that comes after the answer  *)
(* was sent, has a request not later than itself whose wish came true.     *)
(***************************************************************************)
About(i, k, p) == i \in DOMAIN requests /\ requests[i].kind = k /\ requests[i].path = p

Earned(k, p) ==
    /\ \E i \in DOMAIN requests : About(i, k, p)
    /\ \A i \in DOMAIN requests :
          About(i, k, p) => \E j \in met : j <= i /\ About(j, k, p)

OkInv ==
    /\ OkWasEarned
    /\ \A a \in Answers : a.ok /\ late[a] > 0 => Earned(a.kind, a.path)
    /\ \A c \in Commands : \A i \in pulled[c] :
          stage[c] = "ack" /\ IsFirst(c, i) /\ result[c]
              => Earned(requests[i].kind, requests[i].path)

\* A step that leaves the requests alone, or settles some, keeps what is earned.
LEMMA EarnedStays ==
    ASSUME TypeOK, met \subseteq met',
           DOMAIN requests' = DOMAIN requests,
           \A i \in DOMAIN requests : requests'[i].kind = requests[i].kind
                                       /\ requests'[i].path = requests[i].path,
           NEW k, NEW p, Earned(k, p)
    PROVE  Earned(k, p)'
<1>1. \A i \in DOMAIN requests : About(i, k, p)' <=> About(i, k, p)
  BY DEF About
<1>2. \A j \in met : j \in DOMAIN requests
  BY DEF TypeOK, RowsTyped, AgentTyped
<1> QED
  BY <1>1, <1>2 DEF Earned

\* So does a new request: the one that is there already came earlier.
LEMMA EarnedSurvivesRequest ==
    ASSUME TypeOK, met \subseteq met', NEW q \in Kinds, NEW r \in Paths, Request(q, r),
           NEW k, NEW p, Earned(k, p)
    PROVE  Earned(k, p)'
<1>1. /\ DOMAIN requests \subseteq DOMAIN requests'
      /\ \A i \in DOMAIN requests : requests'[i] = requests[i]
      /\ \A i \in DOMAIN requests' \ DOMAIN requests :
            \A j \in DOMAIN requests : j < i
  BY RequestTypes
<1>2. \A i \in DOMAIN requests : About(i, k, p) => About(i, k, p)'
  BY <1>1 DEF About
<1>3. PICK first \in DOMAIN requests : About(first, k, p)
  BY DEF Earned
<1>4. PICK early \in met : early <= first /\ About(early, k, p)
  BY <1>3 DEF Earned
<1>5. ASSUME NEW i \in DOMAIN requests', About(i, k, p)'
      PROVE  \E j \in met' : j <= i /\ About(j, k, p)'
  <2>1. CASE i \in DOMAIN requests
    <3>1. About(i, k, p)
      BY <1>1, <1>5, <2>1 DEF About
    <3>2. PICK j \in met : j <= i /\ About(j, k, p)
      BY <2>1, <3>1 DEF Earned
    <3> QED
      BY <1>2, <3>2 DEF TypeOK, RowsTyped, AgentTyped
  <2>2. CASE i \notin DOMAIN requests
    <3>1. early < i
      BY <1>1, <1>4, <1>5, <2>2 DEF TypeOK, RowsTyped, AgentTyped
    <3>2. DOMAIN requests \subseteq Nat /\ DOMAIN requests' \subseteq Nat
      BY RequestTypes DEF TypeOK, RowsTyped, AgentTyped
    <3> QED
      BY <1>2, <1>4, <1>5, <3>1, <3>2 DEF TypeOK, RowsTyped, AgentTyped
  <2> QED
    BY <2>1, <2>2
<1> QED
  BY <1>1, <1>2, <1>3, <1>5 DEF Earned

\* An "ok" is earned: neither lost, late nor repeated answers, nor others that
\* change the ROMs meanwhile, settle a request nothing was done for.
THEOREM OkIsEarned == Spec => []OkWasEarned
<1>1. Init => OkInv
  BY DEF Init, OkInv, OkWasEarned
<1>2. TypeOK /\ TypeOK' /\ OkInv /\ [Next]_vars => OkInv'
  <2> SUFFICES ASSUME TypeOK, TypeOK', OkInv, [Next]_vars PROVE OkInv'
    OBVIOUS
  <2>0. met \subseteq met' /\ met \subseteq DOMAIN requests
    BY DEF Next, Observe, vars, TypeOK, RowsTyped, AgentTyped
  <2>1. \* the requests and the answers are left alone
        ASSUME UNCHANGED <<requests, late>>,
               \A c \in Commands : stage'[c] = "ack" =>
                   /\ stage[c] = "ack" /\ pulled'[c] = pulled[c] /\ result'[c] = result[c]
        PROVE  OkInv'
    <3>1. \A k, p : Earned(k, p) => Earned(k, p)'
      BY <2>0, <2>1, EarnedStays
    <3>2. OkWasEarned'
      BY <2>0, <2>1 DEF OkInv, OkWasEarned, Same
    <3>3. \A c \in Commands : \A i \in pulled'[c] :
            stage'[c] = "ack" /\ IsFirst(c, i)' /\ result'[c] =>
              i \in pulled[c] /\ stage[c] = "ack" /\ IsFirst(c, i) /\ result[c]
      BY <2>1 DEF IsFirst
    <3> QED
      BY <2>1, <3>1, <3>2, <3>3 DEF OkInv
  <2>2. ASSUME NEW k \in Kinds, NEW p \in Paths, Request(k, p) PROVE OkInv'
    <3>1. \A q, r : Earned(q, r) => Earned(q, r)'
      BY <2>0, <2>2, EarnedSurvivesRequest
    <3>2. /\ \A i \in DOMAIN requests : requests'[i] = requests[i]
          /\ DOMAIN requests \subseteq DOMAIN requests'
          /\ \A i \in DOMAIN requests' \ DOMAIN requests : requests'[i].status = "pending"
      BY <2>2, RequestTypes
    <3>3. OkWasEarned'
      BY <2>0, <3>2 DEF OkInv, OkWasEarned, Same
    <3>4. UNCHANGED <<late, pulled, stage, result>>
      BY <2>2 DEF Request, agent
    <3>5. \A c \in Commands : \A i \in pulled'[c] :
            /\ requests'[i] = requests[i]
            /\ IsFirst(c, i)' <=> IsFirst(c, i)
      BY <3>2, <3>4 DEF IsFirst, TypeOK, RowsTyped, AgentTyped
    <3> QED
      BY <3>1, <3>3, <3>4, <3>5 DEF OkInv
  <2>3. \* an answer is served
        ASSUME NEW a \in Answers, requests' = Settled(a),
               a.ok => Earned(a.kind, a.path),
               \A b \in Answers : late'[b] > 0 => late[b] > 0,
               \A c \in Commands : stage'[c] = "ack" =>
                   /\ stage[c] = "ack" /\ pulled'[c] = pulled[c] /\ result'[c] = result[c]
        PROVE  OkInv'
    <3>1. /\ DOMAIN requests' = DOMAIN requests
          /\ \A i \in DOMAIN requests :
                /\ requests'[i].kind = requests[i].kind
                /\ requests'[i].path = requests[i].path
                /\ (requests'[i].status = "ok" /\ requests[i].status # "ok") =>
                      a.ok /\ About(i, a.kind, a.path)
      BY <2>3, SettledFacts DEF TypeOK, RowsTyped, About
    <3>2. \A k, p : Earned(k, p) => Earned(k, p)'
      BY <2>0, <3>1, EarnedStays
    <3>3. ASSUME NEW i \in DOMAIN requests', requests'[i].status = "ok"
          PROVE  \E j \in met' : j <= i /\ Same(i, j)'
      <4>1. \E j \in met : j <= i /\ Same(i, j)
        <5>1. CASE requests[i].status = "ok"
          BY <3>1, <5>1 DEF OkInv, OkWasEarned
        <5>2. CASE requests[i].status # "ok"
          BY <2>3, <3>1, <3>3, <5>2 DEF Earned, About, Same
        <5> QED
          BY <5>1, <5>2
      <4> QED
        BY <2>0, <3>1, <3>3, <4>1 DEF Same
    <3>4. OkWasEarned'
      BY <3>3 DEF OkWasEarned
    <3>5. \A c \in Commands : \A i \in pulled'[c] :
            stage'[c] = "ack" /\ IsFirst(c, i)' /\ result'[c] =>
              /\ i \in pulled[c] /\ stage[c] = "ack" /\ IsFirst(c, i) /\ result[c]
              /\ i \in DOMAIN requests
      BY <2>3 DEF IsFirst, TypeOK, RowsTyped, AgentTyped
    <3> QED
      BY <2>3, <3>1, <3>2, <3>4, <3>5 DEF OkInv
  <2>4. \* an answer is left on its way
        ASSUME NEW self \in Commands, NEW i \in pulled[self], stage[self] = "ack",
               IsFirst(self, i), late' = [late EXCEPT ![Answer(self, i)] = @ + 1],
               UNCHANGED requests,
               \A c \in Commands : stage'[c] = "ack" =>
                   /\ stage[c] = "ack" /\ pulled'[c] = pulled[c] /\ result'[c] = result[c]
        PROVE  OkInv'
    <3>1. \A k, p : Earned(k, p) => Earned(k, p)'
      BY <2>0, <2>4, EarnedStays
    <3>2. OkWasEarned'
      BY <2>0, <2>4 DEF OkInv, OkWasEarned, Same
    <3>3. \A c \in Commands : \A j \in pulled'[c] :
            stage'[c] = "ack" /\ IsFirst(c, j)' /\ result'[c] =>
              j \in pulled[c] /\ stage[c] = "ack" /\ IsFirst(c, j) /\ result[c]
      BY <2>4 DEF IsFirst
    <3>4. /\ Answer(self, i) \in Answers
          /\ Answer(self, i).ok => Earned(Answer(self, i).kind, Answer(self, i).path)
      <4>1. requests[i].kind = kind[self]
        BY DEF TypeOK, RowsTyped, AgentTyped, Consistent
      <4> QED
        BY <2>4, <4>1, AnswerType DEF OkInv, Answer
    <3>5. \A b \in Answers : b.ok /\ late'[b] > 0 => Earned(b.kind, b.path)
      <4>1. \A b \in Answers : b # Answer(self, i) => late'[b] = late[b]
        BY <2>4 DEF TypeOK, RowsTyped, AgentTyped
      <4> QED
        BY <3>4, <4>1 DEF OkInv
    <3> QED
      BY <2>4, <3>1, <3>2, <3>3, <3>5 DEF OkInv
  <2>5. ASSUME NEW self \in Commands, NEW i \in pulled[self], NEW ok \in BOOLEAN,
               Apply(self, i, ok), Observe
        PROVE  OkInv'
    <3>1. UNCHANGED <<requests, late, pulled>>
      BY <2>5 DEF Apply
    <3>2. \A k, p : Earned(k, p) => Earned(k, p)'
      BY <2>0, <3>1, EarnedStays
    <3>3. OkWasEarned'
      BY <2>0, <3>1 DEF OkInv, OkWasEarned, Same
    <3>4. requests[i].kind = kind[self] /\ i \in DOMAIN requests
      BY DEF TypeOK, RowsTyped, AgentTyped, Consistent
    <3>5. \A k, p : ok /\ About(i, k, p) => Earned(k, p)'
      <4> SUFFICES ASSUME NEW k, NEW p, ok, About(i, k, p) PROVE Earned(k, p)'
        OBVIOUS
      <4>1. k = kind[self] /\ (IF k = "delete" THEN p \notin files' ELSE p \in files')
        BY <2>5, <3>4 DEF Apply, Deletion, Download, About
      <4>2. \A j : About(j, k, p)' <=> About(j, k, p)
        BY <3>1 DEF About
      <4>3. \A j \in DOMAIN requests : About(j, k, p) => j \in met'
        BY <2>5, <3>1, <4>1 DEF Observe, About, Granted
      <4>4. \A j \in DOMAIN requests : j <= j
        BY DEF TypeOK, RowsTyped, AgentTyped
      <4> QED
        BY <3>1, <3>4, <4>2, <4>3, <4>4 DEF Earned
    <3>6. \A c \in Commands : c # self =>
            stage'[c] = stage[c] /\ result'[c] = result[c]
      BY <2>5 DEF Apply, Goto, TypeOK, RowsTyped, AgentTyped
    <3>7. result'[self] = ok /\ IsFirst(self, i)
      BY <2>5 DEF Apply, Outcome, TypeOK, RowsTyped, AgentTyped
    <3>8. \A j \in pulled[self] : IsFirst(self, j) => j = i
      <4>1. pulled[self] \subseteq DOMAIN requests /\ DOMAIN requests \subseteq Nat
        <5>1. DOMAIN requests = 1..Len(requests) /\ Len(requests) \in Nat
          BY DEF TypeOK, RowsTyped, AgentTyped
        <5>2. pulled[self] \subseteq DOMAIN requests
          BY DEF TypeOK, RowsTyped, AgentTyped
        <5> QED
          BY <5>1, <5>2
      <4> QED
        BY <3>7, <4>1 DEF IsFirst
    <3>9. \A c \in Commands : \A j \in pulled'[c] :
            stage'[c] = "ack" /\ IsFirst(c, j)' /\ result'[c] =>
              Earned(requests[j].kind, requests[j].path)'
      <4> SUFFICES ASSUME NEW c \in Commands, NEW j \in pulled'[c],
                          stage'[c] = "ack", IsFirst(c, j)', result'[c]
                   PROVE  Earned(requests[j].kind, requests[j].path)'
        OBVIOUS
      <4>0. j \in pulled[c] /\ IsFirst(c, j)
        BY <3>1 DEF IsFirst
      <4>1. CASE c = self
        <5>1. j = i /\ ok
          BY <3>7, <3>8, <4>0, <4>1
        <5>2. About(i, requests[i].kind, requests[i].path)
          BY <3>4 DEF About
        <5> QED
          BY <3>1, <3>5, <5>1, <5>2
      <4>2. CASE c # self
        <5>1. Earned(requests[j].kind, requests[j].path)
          BY <3>6, <4>0, <4>2 DEF OkInv
        <5> QED
          BY <3>1, <3>2, <5>1
      <4> QED
        BY <4>1, <4>2
    <3>10. \A a \in Answers : a.ok /\ late'[a] > 0 => Earned(a.kind, a.path)'
      BY <3>1, <3>2 DEF OkInv
    <3> QED
      BY <3>3, <3>9, <3>10 DEF OkInv
  <2>6. CASE UNCHANGED vars
    BY <2>1, <2>6 DEF vars, agent
  <2>7. CASE Next
    <3> USE DEF Goto
    <3>1. ASSUME NEW a \in Answers, ServeLate(a) PROVE OkInv'
      <4>1. \A b \in Answers : late'[b] > 0 => late[b] > 0
        BY <3>1 DEF ServeLate, TypeOK, RowsTyped, AgentTyped
      <4> QED
        BY <2>3, <3>1, <4>1 DEF ServeLate, agent, OkInv
    <3>2. ASSUME NEW self \in Commands, NEW i \in pulled[self], Ack(self, i) PROVE OkInv'
      <4>1. requests[i].kind = kind[self]
        BY DEF TypeOK, RowsTyped, AgentTyped, Consistent
      <4>2. /\ Answer(self, i) \in Answers
            /\ Answer(self, i).ok => Earned(Answer(self, i).kind, Answer(self, i).path)
        BY <3>2, <4>1, AnswerType DEF OkInv, Answer, Ack, Answered
      <4>3. \A c \in Commands : stage'[c] = "ack" =>
              stage[c] = "ack" /\ pulled'[c] = pulled[c] /\ result'[c] = result[c]
        BY <3>2 DEF Ack, Answered, TypeOK, RowsTyped, AgentTyped
      <4> QED
        BY <2>3, <3>2, <4>2, <4>3 DEF Ack
    <3>3. ASSUME NEW self \in Commands, NEW i \in pulled[self], AckLate(self, i)
          PROVE  OkInv'
      <4>1. \A c \in Commands : stage'[c] = "ack" =>
              stage[c] = "ack" /\ pulled'[c] = pulled[c] /\ result'[c] = result[c]
        BY <3>3 DEF AckLate, Answered, TypeOK, RowsTyped, AgentTyped
      <4> QED
        BY <2>4, <3>3, <4>1 DEF AckLate, Answered
    <3>4. ASSUME NEW self \in Commands, Crash(self) PROVE OkInv'
      <4>1. \A c \in Commands : stage'[c] = "ack" =>
              stage[c] = "ack" /\ pulled'[c] = pulled[c] /\ result'[c] = result[c]
        BY <3>4 DEF Crash, TypeOK, RowsTyped, AgentTyped
      <4> QED
        BY <2>1, <2>4, <3>4, <4>1 DEF Crash
    <3>5. ASSUME NEW self \in Commands, NEW ok \in BOOLEAN, DeleteLine(self, ok)
          PROVE  OkInv'
      BY <2>1, <3>5 DEF DeleteLine
    <3>6. ASSUME NEW self \in Commands,
                 \/ Begin(self) \/ EmptyQueue(self) \/ Pull(self)
                 \/ PullFails(self) \/ EndQueue(self)
          PROVE  OkInv'
      <4>a. stage \in [Commands -> {"idle", "lines", "pull", "apply", "ack"}]
        BY DEF TypeOK, AgentTyped
      <4>1. UNCHANGED <<requests, late, result>> /\ stage'[self] # "ack"
        BY <3>6, <4>a DEF Begin, EmptyQueue, Pull, PullFails, EndQueue
      <4>2. \A c \in Commands : c # self => stage'[c] = stage[c] /\ pulled'[c] = pulled[c]
        BY <3>6 DEF Begin, EmptyQueue, Pull, PullFails, EndQueue, TypeOK, RowsTyped, AgentTyped
      <4> QED
        BY <2>1, <4>1, <4>2
    <3>7. CASE Refused
      BY <2>1, <3>7, QueueAssumption DEF Refused, TypeOK, RowsTyped, AgentTyped
    <3>8. ASSUME NEW p \in Paths, Put(p) \/ WriteLine(p) PROVE OkInv'
      BY <2>1, <3>8 DEF Put, WriteLine, agent
    <3> QED
      BY <2>2, <2>5, <2>7, <3>1, <3>2, <3>3, <3>4, <3>5, <3>6, <3>7, <3>8
      DEF Next, Step, RequestDeletion, RequestDownload, Kinds
  <2> QED
    BY <2>6, <2>7
<1>3. OkInv => OkWasEarned
  BY DEF OkInv
<1> QED
  BY <1>1, <1>2, <1>3, TypeCorrect, PTL DEF Spec
=============================================================================
