-------------------------- MODULE EventSyncProofs ---------------------------
(***************************************************************************)
(* Theorems about EventSync, for every number of events, processes,        *)
(* requests, sessions and faults.                                          *)
(***************************************************************************)
EXTENDS EventSync, FiniteSetTheorems, NaturalsInduction, TLAPS

-----------------------------------------------------------------------------
(* The operators the model is built from *)

\* A non-empty set of events has a least element, and Least returns it: the
\* loop of events_batch always takes an event of the batch, the oldest.
LEMMA LeastOfEvents ==
    ASSUME NEW S \in SUBSET Event, S # {}
    PROVE  Least(S) \in S /\ \A f \in S : Least(S) <= f
<1>1. \E e \in S : \A f \in S : ~ (<<f, e>> \in OpToRel(<, Nat))
  <2>1. IsWellFoundedOn(OpToRel(<, Nat), Nat)
    BY NatLessThanWellFounded
  <2>2. S \subseteq Nat
    BY SizesAreNatural DEF Event
  <2>. QED BY <2>1, <2>2, WFMin
<1>2. PICK e \in S : \A f \in S : ~ (<<f, e>> \in OpToRel(<, Nat))
  BY <1>1
<1>3. ASSUME NEW f \in S
      PROVE  e <= f
  <2>1. e \in Nat /\ f \in Nat
    BY SizesAreNatural DEF Event
  <2>2. f < e => <<f, e>> \in OpToRel(<, Nat)
    BY <2>1 DEF OpToRel
  <2>3. ~ (f < e)
    BY <1>2, <2>2, Zenon
  <2>. QED BY <2>1, <2>3
<1>. QED BY <1>3 DEF Least

\* The batch pending_events returns has no holes: a pending row older than a
\* row of the batch is in the batch.
LEMMA BatchIsOldestPending ==
    ASSUME box \in [Event -> {"none", "pending", "sent"}]
    PROVE  /\ PendingEvents(BatchSize) \subseteq Pending
           /\ \A e \in PendingEvents(BatchSize) : \A i \in Pending :
                 i < e => i \in PendingEvents(BatchSize)
<1>1. PendingEvents(BatchSize) \subseteq Pending
  BY DEF PendingEvents
<1>2. ASSUME NEW e \in PendingEvents(BatchSize), NEW i \in Pending, i < e
      PROVE  i \in PendingEvents(BatchSize)
  <2>. DEFINE Before(k) == {f \in Pending : f < k}
  <2>1. e \in Pending /\ Cardinality(Before(e)) < BatchSize
    BY DEF PendingEvents
  <2>2. IsFiniteSet(Before(e)) /\ IsFiniteSet(Before(i))
    <3>1. IsFiniteSet(Event)
      BY FS_Interval, SizesAreNatural DEF Event
    <3>2. Before(e) \in SUBSET Event /\ Before(i) \in SUBSET Event
      BY DEF Pending
    <3>. QED BY <3>1, <3>2, FS_Subset
  <2>3. Before(i) \subseteq Before(e)
    BY <1>2, <2>1, SizesAreNatural DEF Pending, Event
  <2>4. Cardinality(Before(i)) <= Cardinality(Before(e))
    BY <2>2, <2>3, FS_Subset
  <2>5. Cardinality(Before(i)) \in Nat /\ Cardinality(Before(e)) \in Nat
    BY <2>2, FS_CardinalityType
  <2>6. Cardinality(Before(i)) < BatchSize
    BY <2>1, <2>4, <2>5, SizesAreNatural
  <2>. QED BY <2>6 DEF PendingEvents
<1>. QED BY <1>1, <1>2

-----------------------------------------------------------------------------
(* Types *)

\* A slot of a request stays well-formed when its client goes away.
LEMMA AbandonedIsConn ==
    ASSUME NEW r \in Conn
    PROVE  Abandoned(r) \in Conn
BY DEF Abandoned, FreeConn, Conn, Answer, NoAnswer

\* The requests stay well-formed.
LEMMA ConnsStep == TypeOK /\ [Next]_vars => ConnsOK'
<1>. SUFFICES ASSUME TypeOK, [Next]_vars
              PROVE  ConnsOK'
  OBVIOUS
<1>. USE SizesAreNatural, ActorsAreDistinct
<1>free. FreeConn \in Conn /\ FreeConn.phase = "free" /\ FreeConn.owner = Nobody
  BY DEF FreeConn, Conn, Answer, NoAnswer
<1>batch. PendingEvents(BatchSize) \subseteq Event
  BY DEF PendingEvents, Pending
<1>same. UNCHANGED <<conn, serving>> => ConnsOK'
  BY DEF TypeOK, ConnsOK, WellFormed
\* A slot given back, by an action that is not the server's.
<1>back. ASSUME NEW c \in Conns, conn[c].phase # "serving",
                conn' = [conn EXCEPT ![c] = FreeConn], serving' = serving
         PROVE  ConnsOK'
  BY <1>back, <1>free DEF TypeOK, ConnsOK, WellFormed
\* Clients that leave.
<1>left. ASSUME NEW D \in SUBSET Conns, serving' = serving,
                conn' = [c \in Conns |->
                           IF c \in D THEN Abandoned(conn[c]) ELSE conn[c]]
         PROVE  ConnsOK'
  <2>1. conn' \in [Conns -> Conn]
    BY <1>left, AbandonedIsConn DEF TypeOK, ConnsOK
  <2>2. ASSUME NEW c \in Conns
        PROVE  WellFormed(c)'
    <3>1. conn[c] \in Conn /\ WellFormed(c)
      BY DEF TypeOK, ConnsOK
    <3>2. CASE c \in D /\ conn[c].phase \in {"sent", "serving"}
      BY <1>left, <3>1, <3>2 DEF Abandoned, WellFormed, Conn
    <3>3. CASE c \in D /\ conn[c].phase \notin {"sent", "serving"}
      BY <1>left, <1>free, <3>1, <3>3 DEF Abandoned, WellFormed
    <3>4. CASE c \notin D
      BY <1>left, <3>1, <3>4 DEF WellFormed
    <3>. QED BY <3>2, <3>3, <3>4
  <2>. QED BY <1>left, <2>1, <2>2 DEF TypeOK, ConnsOK
<1>1. CASE Enqueue \/ Flush
  BY <1>1, <1>same DEF Enqueue, Flush, agent, server
<1>2. ASSUME NEW p \in Syncers, BeginSync(p)
      PROVE  ConnsOK'
  <2>1. PICK c \in Conns :
           /\ conn[c].phase = "free"
           /\ conn' = [conn EXCEPT ![c] = [phase |-> "sent", owner |-> p,
                                          batch |-> PendingEvents(BatchSize),
                                          ack   |-> NoAnswer]]
    BY <1>2 DEF BeginSync
  <2>2. conn' \in [Conns -> Conn]
    BY <2>1, <1>batch DEF TypeOK, ConnsOK, Conn, Answer, NoAnswer
  <2>3. serving' = serving
    BY <1>2 DEF BeginSync, server
  <2>. QED BY <2>1, <2>2, <2>3 DEF TypeOK, ConnsOK, WellFormed
<1>3. ASSUME NEW p \in Syncers, NEW c \in Conns,
             TakeAck(p, c) \/ BadAck(p, c) \/ SyncFailed(p, c) \/ DropLate(c)
      PROVE  ConnsOK'
  BY <1>3, <1>back DEF TakeAck, BadAck, SyncFailed, DropLate, server
<1>4. ASSUME NEW p \in Syncers, RecordSuccess(p)
      PROVE  ConnsOK'
  BY <1>4, <1>same DEF RecordSuccess, server
<1>5. ASSUME NEW p \in Syncers, NEW c \in Conns, Timeout(p, c)
      PROVE  ConnsOK'
  <2>1. conn' = [d \in Conns |->
                   IF d \in {c} THEN Abandoned(conn[d]) ELSE conn[d]]
    BY <1>5 DEF Timeout, TypeOK, ConnsOK
  <2>. QED BY <1>5, <1>left, <2>1 DEF Timeout, server
<1>6. ASSUME NEW p \in Syncers, Kill(p)
      PROVE  ConnsOK'
  <2>. DEFINE D == {c \in Conns : conn[c].owner = p}
  <2>1. conn' = [c \in Conns |->
                   IF c \in D THEN Abandoned(conn[c]) ELSE conn[c]]
    BY <1>6 DEF Kill
  <2>. QED BY <1>6, <1>left, <2>1 DEF Kill, server
<1>7. CASE PowerLoss
  <2>1. conn' = [c \in Conns |->
                   IF c \in Conns THEN Abandoned(conn[c]) ELSE conn[c]]
    BY <1>7 DEF PowerLoss
  <2>. QED BY <1>7, <1>left, <2>1 DEF PowerLoss, server
<1>8. ASSUME NEW c \in Conns, ConnFails(c)
      PROVE  ConnsOK'
  <2>0. [conn[c] EXCEPT !.phase = "failed", !.ack = NoAnswer] \in Conn
    BY DEF TypeOK, ConnsOK, Conn, Answer, NoAnswer
  <2>1. conn' \in [Conns -> Conn]
    BY <1>8, <2>0 DEF ConnFails, TypeOK, ConnsOK
  <2>. QED BY <1>8, <2>1 DEF ConnFails, TypeOK, ConnsOK, WellFormed, Conn, server
<1>9. ASSUME NEW c \in Conns, Accept(c)
      PROVE  ConnsOK'
  <2>1. conn' \in [Conns -> Conn]
    BY <1>9 DEF Accept, TypeOK, ConnsOK, Conn
  <2>. QED BY <1>9, <2>1 DEF Accept, TypeOK, ConnsOK, WellFormed, Conn
<1>10. CASE Insert \/ Reject \/ Project \/ SkipProjection
  BY <1>10, <1>same DEF Insert, Reject, Project, SkipProjection, agent
<1>11. CASE Reply
  <2>0. /\ serving \in Conns
        /\ [conn[serving] EXCEPT !.phase = "answered", !.ack = answer] \in Conn
    BY <1>11 DEF Reply, TypeOK, ConnsOK, ServerOK, Conn
  <2>1. conn' \in [Conns -> Conn]
    BY <1>11, <1>free, <2>0 DEF Reply, TypeOK, ConnsOK
  <2>. QED BY <1>11, <1>free, <2>1
           DEF Reply, TypeOK, ConnsOK, WellFormed, Conn
<1>12. CASE ServerCrash
  <2>1. conn' \in [Conns -> Conn]
    BY <1>12, <1>free DEF ServerCrash, TypeOK, ConnsOK, Conn
  <2>. QED BY <1>12, <1>free, <2>1
           DEF ServerCrash, TypeOK, ConnsOK, WellFormed, Conn
<1>13. CASE UNCHANGED vars
  BY <1>13, <1>same DEF vars, agent, server
<1>. QED
  BY <1>1, <1>2, <1>3, <1>4, <1>5, <1>6, <1>7, <1>8, <1>9, <1>10, <1>11,
     <1>12, <1>13
  DEF Next, SyncStep, NetworkStep, ServerStep

\* The agent's variables keep their types.
LEMMA AgentStep == TypeOK /\ [Next]_vars => AgentOK'
<1>. SUFFICES ASSUME TypeOK, [Next]_vars
              PROVE  AgentOK'
  OBVIOUS
<1>. USE SizesAreNatural DEF TypeOK, AgentOK
<1>1. CASE Enqueue
  BY <1>1 DEF Enqueue, Event, agent
<1>2. ASSUME NEW p \in Syncers, SyncStep(p)
      PROVE  AgentOK'
  <2>1. CASE BeginSync(p) \/ RecordSuccess(p) \/ Kill(p)
    BY <2>1 DEF BeginSync, RecordSuccess, Kill, agentDB
  <2>2. ASSUME NEW c \in Conns, TakeAck(p, c)
        PROVE  AgentOK'
    <3>1. box' \in [Event -> {"none", "pending", "sent"}]
      BY <2>2 DEF TakeAck, MarkSent
    <3>. QED BY <2>2, <3>1 DEF TakeAck
  <2>3. ASSUME NEW c \in Conns,
               BadAck(p, c) \/ SyncFailed(p, c) \/ Timeout(p, c)
        PROVE  AgentOK'
    BY <2>3 DEF BadAck, SyncFailed, Timeout, agentDB
  <2>. QED BY <1>2, <2>1, <2>2, <2>3 DEF SyncStep
<1>3. CASE Flush \/ PowerLoss
  BY <1>3, SMTT(20) DEF Flush, PowerLoss, agent
<1>4. CASE NetworkStep \/ ServerStep
  BY <1>4 DEF NetworkStep, ServerStep, ConnFails, DropLate, Accept, Insert,
              Reject, Project, SkipProjection, Reply, ServerCrash, agentDB, agent
<1>5. CASE UNCHANGED vars
  BY <1>5 DEF vars, agentDB, agent
<1>. QED BY <1>1, <1>2, <1>3, <1>4, <1>5 DEF Next

\* The server's variables keep their types.
LEMMA ServerTypeStep == TypeOK /\ [Next]_vars => ServerOK'
<1>. SUFFICES ASSUME TypeOK, [Next]_vars
              PROVE  ServerOK'
  OBVIOUS
<1>. USE SizesAreNatural DEF TypeOK, ServerOK
<1>next. todo # {} => NextOf(todo) \in todo
  BY LeastOfEvents DEF NextOf
<1>fault. Fault => faults' \in 0 .. MaxFaults
  BY DEF Fault
<1>1. CASE Enqueue \/ Flush \/ PowerLoss \/ NetworkStep
  <2>1. UNCHANGED <<server, tables, history>>
    BY <1>1 DEF Enqueue, Flush, PowerLoss, NetworkStep, ConnFails, DropLate
  <2>2. faults' \in 0 .. MaxFaults
    BY <1>1, <1>fault
    DEF Enqueue, Flush, PowerLoss, NetworkStep, ConnFails, DropLate
  <2>. QED BY <2>1, <2>2 DEF server, tables, history
<1>2. ASSUME NEW p \in Syncers, SyncStep(p)
      PROVE  ServerOK'
  BY <1>2 DEF SyncStep, BeginSync, RecordSuccess, Kill, TakeAck, BadAck,
              SyncFailed, Timeout, Fault, server, tables, history
<1>3. ASSUME NEW c \in Conns, Accept(c)
      PROVE  ServerOK'
  BY <1>3 DEF Accept, ConnsOK, Conn, history
<1>4. CASE Insert
  <2>1. PICK e \in todo : e = NextOf(todo)
    BY <1>4, <1>next DEF Insert
  <2>2. CASE IsDuplicate(e)
    BY <1>4, <2>1, <2>2 DEF Insert, Answer, history
  <2>3. CASE ~IsDuplicate(e)
    BY <1>4, <2>1, <2>3 DEF Insert, Answer, history
  <2>. QED BY <2>2, <2>3
<1>5. CASE Reject
  <2>1. PICK e \in todo : todo' = todo \ {e} /\ rejected' = rejected \union {e}
    BY <1>5, <1>next DEF Reject
  <2>. QED BY <1>5, <1>fault, <2>1 DEF Reject, tables
<1>6. CASE Project
  BY <1>6 DEF Project, ProjectedSessions, Event, history
<1>7. CASE SkipProjection
  BY <1>7 DEF SkipProjection, Fault, tables
<1>8. CASE Reply \/ ServerCrash
  BY <1>8 DEF Reply, ServerCrash, Fault, NoAnswer, Answer, tables, history
<1>9. CASE UNCHANGED vars
  BY <1>9 DEF vars, server, tables, history
<1>. QED BY <1>1, <1>2, <1>3, <1>4, <1>5, <1>6, <1>7, <1>8, <1>9
         DEF Next, ServerStep

\* Type correctness, for every instance.
THEOREM TypeCorrect == Spec => []TypeOK
<1>1. Init => TypeOK
  <2>. SUFFICES ASSUME Init PROVE TypeOK
    OBVIOUS
  <2>1. AgentOK
    BY SizesAreNatural DEF Init, AgentOK, Event
  <2>2. ConnsOK
    BY ActorsAreDistinct
    DEF Init, ConnsOK, WellFormed, FreeConn, Conn, Answer, NoAnswer
  <2>3. ServerOK
    <3>1. answer \in Answer
      BY DEF Init, Answer, NoAnswer
    <3>2. device \in BOOLEAN
      BY DEF Init
    <3>3. rows \in [Event -> Nat] /\ session \in [Sessions -> {"none", "open", "closed"}]
      BY DEF Init
    <3>4. /\ todo = {} /\ events = {} /\ rejected = {} /\ skipped = {}
          /\ fresh = 0 /\ faults = 0
      BY DEF Init
    <3>. QED BY <3>1, <3>2, <3>3, <3>4, SizesAreNatural DEF ServerOK
  <2>. QED BY <2>1, <2>2, <2>3 DEF TypeOK
<1>2. TypeOK /\ [Next]_vars => TypeOK'
  BY AgentStep, ConnsStep, ServerTypeStep DEF TypeOK
<1>. QED BY <1>1, <1>2, PTL DEF Spec

-----------------------------------------------------------------------------
(* What the agent forgets is on the server *)

\* The strengthening of NothingLost: everything that may yet be marked sent,
\* or become marked again by a power cut, is on the server.
AcksAreStored ==
    /\ \A c \in Conns : Acked(c) \subseteq events
    /\ answer.accepted \union answer.duplicates \subseteq events
    /\ \A e \in Event : box[e] = "sent" => e \in events
    /\ \A e \in Event : disk.box[e] = "sent" => e \in events

\* No step takes an event away from the server.
LEMMA EventsGrow ==
    ASSUME [Next]_vars
    PROVE  events \subseteq events'
BY DEF Next, SyncStep, NetworkStep, ServerStep, Enqueue, BeginSync, TakeAck,
       RecordSuccess, BadAck, SyncFailed, Timeout, Kill, Flush, PowerLoss,
       ConnFails, DropLate, Accept, Insert, Reject, Project, SkipProjection,
       Reply, ServerCrash, tables, vars

\* A request whose client leaves acknowledges nothing new.
LEMMA AbandonedAck ==
    ASSUME NEW r \in Conn
    PROVE  /\ Abandoned(r).ack.accepted \subseteq r.ack.accepted
           /\ Abandoned(r).ack.duplicates \subseteq r.ack.duplicates
BY DEF Abandoned, FreeConn, NoAnswer, Conn, Answer

\* AcksAreStored is inductive.
LEMMA AckStep == TypeOK /\ AcksAreStored /\ [Next]_vars => AcksAreStored'
<1>. SUFFICES ASSUME TypeOK, AcksAreStored, [Next]_vars
              PROVE  AcksAreStored'
  OBVIOUS
<1>. USE DEF TypeOK, AgentOK, ConnsOK, ServerOK
<1>grow. events \subseteq events'
  BY EventsGrow
<1>next. todo # {} => NextOf(todo) \in todo
  BY LeastOfEvents DEF NextOf
<1>free. FreeConn.ack.accepted = {} /\ FreeConn.ack.duplicates = {}
  BY DEF FreeConn, NoAnswer
\* The parts of the invariant a step leaves alone.
<1>box. UNCHANGED <<box, disk>> =>
          \A e \in Event : /\ box'[e] = "sent" => e \in events'
                           /\ disk'.box[e] = "sent" => e \in events'
  BY <1>grow DEF AcksAreStored
<1>conn. UNCHANGED conn => \A c \in Conns : Acked(c)' \subseteq events'
  BY <1>grow DEF AcksAreStored, Acked
<1>answer. UNCHANGED answer =>
             answer'.accepted \union answer'.duplicates \subseteq events'
  BY <1>grow DEF AcksAreStored
\* A slot is given back, and clients leave.
<1>back. ASSUME NEW c \in Conns, conn' = [conn EXCEPT ![c] = FreeConn]
         PROVE  \A d \in Conns : Acked(d)' \subseteq events'
  BY <1>back, <1>free, <1>grow DEF AcksAreStored, Acked
<1>left. ASSUME NEW c \in Conns,
                conn'[c] = conn[c] \/ conn'[c] = Abandoned(conn[c])
         PROVE  Acked(c)' \subseteq events'
  <2>1. /\ conn'[c].ack.accepted \subseteq conn[c].ack.accepted
        /\ conn'[c].ack.duplicates \subseteq conn[c].ack.duplicates
    BY <1>left, AbandonedAck
  <2>. QED BY <2>1, <1>grow DEF AcksAreStored, Acked
<1>1. CASE Enqueue
  <2>1. \A e \in Event : box'[e] = "sent" => e \in events'
    BY <1>1, <1>grow DEF Enqueue, AcksAreStored
  <2>. QED BY <1>1, <2>1, <1>conn, <1>answer, <1>box
           DEF Enqueue, AcksAreStored, agent, server, tables
<1>2. ASSUME NEW p \in Syncers, BeginSync(p)
      PROVE  AcksAreStored'
  <2>1. \A c \in Conns : Acked(c)' \subseteq events'
    BY <1>2, <1>grow DEF BeginSync, AcksAreStored, Acked, NoAnswer
  <2>. QED BY <1>2, <2>1, <1>box, <1>answer
           DEF BeginSync, AcksAreStored, agentDB, server
<1>3. ASSUME NEW p \in Syncers, NEW c \in Conns, TakeAck(p, c)
      PROVE  AcksAreStored'
  <2>1. \A e \in Event : box'[e] = "sent" => e \in events'
    BY <1>3, <1>grow DEF TakeAck, MarkSent, AcksAreStored
  <2>. QED BY <1>3, <2>1, <1>back, <1>answer, <1>grow
           DEF TakeAck, AcksAreStored, server
<1>4. ASSUME NEW p \in Syncers, RecordSuccess(p)
      PROVE  AcksAreStored'
  BY <1>4, <1>box, <1>conn, <1>answer DEF RecordSuccess, AcksAreStored, server
<1>5. ASSUME NEW p \in Syncers, NEW c \in Conns,
             BadAck(p, c) \/ SyncFailed(p, c)
      PROVE  AcksAreStored'
  BY <1>5, <1>back, <1>box, <1>answer
  DEF BadAck, SyncFailed, AcksAreStored, agentDB, server
<1>6. ASSUME NEW p \in Syncers, NEW c \in Conns, Timeout(p, c)
      PROVE  AcksAreStored'
  <2>1. \A d \in Conns : conn'[d] = conn[d] \/ conn'[d] = Abandoned(conn[d])
    BY <1>6 DEF Timeout
  <2>. QED BY <1>6, <2>1, <1>left, <1>box, <1>answer
           DEF Timeout, AcksAreStored, server
<1>7. ASSUME NEW p \in Syncers, Kill(p)
      PROVE  AcksAreStored'
  <2>1. \A d \in Conns : conn'[d] = conn[d] \/ conn'[d] = Abandoned(conn[d])
    BY <1>7 DEF Kill
  <2>. QED BY <1>7, <2>1, <1>left, <1>box, <1>answer
           DEF Kill, AcksAreStored, agentDB, server
<1>8. CASE Flush
  <2>1. \A e \in Event : disk'.box[e] = "sent" => e \in events'
    BY <1>8, <1>grow DEF Flush, AcksAreStored
  <2>. QED BY <1>8, <2>1, <1>conn, <1>answer, <1>grow
           DEF Flush, AcksAreStored, agent, server
<1>9. CASE PowerLoss
  <2>1. \A d \in Conns : conn'[d] = Abandoned(conn[d])
    BY <1>9 DEF PowerLoss
  <2>2. \A e \in Event : box'[e] = "sent" => e \in events'
    BY <1>9, <1>grow DEF PowerLoss, AcksAreStored
  <2>. QED BY <1>9, <2>1, <2>2, <1>left, <1>answer, <1>grow
           DEF PowerLoss, AcksAreStored, server
<1>10. ASSUME NEW c \in Conns, ConnFails(c) \/ Accept(c)
       PROVE  AcksAreStored'
  <2>1. ASSUME NEW d \in Conns
        PROVE  Acked(d)' \subseteq events'
    <3>1. conn[d] \in Conn /\ conn[c] \in Conn
      OBVIOUS
    <3>2. CASE ConnFails(c)
      BY <1>grow, <3>1, <3>2 DEF ConnFails, AcksAreStored, Acked, NoAnswer, Conn
    <3>3. CASE Accept(c)
      BY <1>grow, <3>1, <3>3 DEF Accept, AcksAreStored, Acked, Conn
    <3>. QED BY <1>10, <3>2, <3>3
  <2>. QED BY <1>10, <2>1, <1>box, <1>answer
           DEF ConnFails, Accept, AcksAreStored, agentDB, server
<1>11. CASE Insert
  <2>1. answer'.accepted \union answer'.duplicates \subseteq events'
    BY <1>11, <1>next, <1>grow DEF Insert, IsDuplicate, AcksAreStored, Answer
  <2>. QED BY <1>11, <2>1, <1>box, <1>conn
           DEF Insert, AcksAreStored, agentDB, agent
<1>12. CASE Reject \/ Project \/ SkipProjection
  BY <1>12, <1>box, <1>conn, <1>answer
  DEF Reject, Project, SkipProjection, AcksAreStored, agentDB, agent
<1>13. CASE Reply
  <2>1. \A d \in Conns : Acked(d)' \subseteq events'
    BY <1>13, <1>free, <1>grow DEF Reply, AcksAreStored, Acked, Conn
  <2>. QED BY <1>13, <2>1, <1>box, <1>grow
           DEF Reply, AcksAreStored, NoAnswer, agentDB
<1>14. CASE ServerCrash
  <2>1. \A d \in Conns : Acked(d)' \subseteq events'
    BY <1>14, <1>free, <1>grow DEF ServerCrash, AcksAreStored, Acked, Conn
  <2>. QED BY <1>14, <2>1, <1>box, <1>grow
           DEF ServerCrash, AcksAreStored, NoAnswer, agentDB
<1>15. ASSUME NEW c \in Conns, DropLate(c)
       PROVE  AcksAreStored'
  BY <1>15, <1>back, <1>box, <1>answer
  DEF DropLate, AcksAreStored, agentDB, server
<1>16. CASE UNCHANGED vars
  BY <1>16, <1>box, <1>conn, <1>answer
  DEF vars, AcksAreStored, agentDB, agent, server
<1>. QED
  BY <1>1, <1>2, <1>3, <1>4, <1>5, <1>6, <1>7, <1>8, <1>9, <1>10, <1>11,
     <1>12, <1>13, <1>14, <1>15, <1>16
  DEF Next, SyncStep, NetworkStep, ServerStep

\* An event the agent has marked sent is on the server, whatever faults
\* happen and however many processes synchronise.
THEOREM NothingIsLost == Spec => []NothingLost
<1>1. Init => AcksAreStored
  BY DEF Init, AcksAreStored, Acked, FreeConn, NoAnswer
<1>2. AcksAreStored => NothingLost
  BY DEF AcksAreStored, NothingLost
<1>. QED BY <1>1, <1>2, AckStep, TypeCorrect, PTL DEF Spec

-----------------------------------------------------------------------------
(* An event takes effect once *)

\* The strengthening of AppliedOnce: the event whose projection is next was
\* inserted and not skipped, and only inserted events are skipped.
AppliedInv ==
    /\ AppliedOnce
    /\ fresh # 0 => fresh \in events \ skipped
    /\ skipped \subseteq events

\* AppliedInv is inductive.
LEMMA AppliedStep == TypeOK /\ AppliedInv /\ [Next]_vars => AppliedInv'
<1>. SUFFICES ASSUME TypeOK, AppliedInv, [Next]_vars
              PROVE  AppliedInv'
  OBVIOUS
<1>. USE DEF TypeOK, ServerOK, AppliedInv, AppliedOnce
<1>zero. 0 \notin Event
  BY SizesAreNatural DEF Event
<1>same. UNCHANGED <<fresh, events, rows, skipped>> => AppliedInv'
  OBVIOUS
<1>1. CASE Enqueue \/ Flush \/ PowerLoss \/ NetworkStep
  BY <1>1, <1>same DEF Enqueue, Flush, PowerLoss, NetworkStep, ConnFails,
                       DropLate, server, tables, history
<1>2. ASSUME NEW p \in Syncers, SyncStep(p)
      PROVE  AppliedInv'
  BY <1>2, <1>same DEF SyncStep, BeginSync, RecordSuccess, Kill, TakeAck,
                       BadAck, SyncFailed, Timeout, server, tables, history
<1>3. ASSUME NEW c \in Conns, Accept(c)
      PROVE  AppliedInv'
  BY <1>3, <1>same DEF Accept, history
<1>4. CASE Insert
  <2>1. PICK e \in todo : e = NextOf(todo)
    BY <1>4, LeastOfEvents DEF Insert, NextOf
  <2>2. CASE IsDuplicate(e)
    BY <1>4, <1>same, <2>1, <2>2 DEF Insert, history
  <2>3. CASE ~IsDuplicate(e)
    <3>1. /\ fresh = 0 /\ e \notin events
          /\ events' = events \union {e} /\ fresh' = e
          /\ UNCHANGED <<rows, skipped>>
      BY <1>4, <2>1, <2>3 DEF Insert, IsDuplicate, history
    <3>. QED BY <1>zero, <2>1, <3>1
  <2>. QED BY <2>2, <2>3
<1>5. CASE Reject
  BY <1>5, <1>same DEF Reject, tables
<1>6. CASE Project
  <2>1. /\ fresh \in events \ skipped /\ rows[fresh] = 0 /\ fresh' = 0
        /\ rows' = [rows EXCEPT ![fresh] = @ + 1]
        /\ UNCHANGED <<events, skipped>>
    BY <1>6 DEF Project, history
  <2>. QED BY <1>zero, <2>1
<1>7. CASE SkipProjection
  BY <1>7, <1>zero DEF SkipProjection, tables
<1>8. CASE Reply
  BY <1>8, <1>same DEF Reply, tables, history
<1>9. CASE ServerCrash
  BY <1>9, <1>zero DEF ServerCrash, tables
<1>10. CASE UNCHANGED vars
  BY <1>10, <1>same DEF vars, server, tables, history
<1>. QED BY <1>1, <1>2, <1>3, <1>4, <1>5, <1>6, <1>7, <1>8, <1>9, <1>10
         DEF Next, ServerStep

\* However often an event is sent, its projection runs once, or never if the
\* server died or failed right after inserting it.
THEOREM EventsApplyOnce == Spec => []AppliedOnce
<1>1. Init => AppliedInv
  BY SizesAreNatural DEF Init, AppliedInv, AppliedOnce
<1>2. AppliedInv => AppliedOnce
  BY DEF AppliedInv
<1>. QED BY <1>1, <1>2, AppliedStep, TypeCorrect, PTL DEF Spec

-----------------------------------------------------------------------------
(* Events arrive in order *)

Settled == events \union rejected \union Lost

\* Whatever precedes an event of S is in S, or is settled.
NoHoles(S) ==
    \A e \in S : \A i \in Event : i < e => i \in S \union Settled

\* What a power cut would take the outbox back to.
DiskIsEarlier ==
    \A e \in Event :
        \/ disk.box[e] \in {"none", box[e]}
        \/ disk.box[e] = "pending" /\ box[e] = "sent"

\* The strengthening of InOrder: every batch on its way to the server, and
\* what is left of the one being served, has no holes either.
OrderInv ==
    /\ \A e \in Event : box[e] # "none" => e < next
    /\ DiskIsEarlier
    /\ \A c \in Conns : conn[c].phase = "sent" => NoHoles(conn[c].batch)
    /\ NoHoles(todo)
    /\ NoHoles(events)

\* A refused event stays in the history of refused events, a skipped one in
\* that of skipped events, and a lost one is not enqueued again.
LEMMA HistoryGrows ==
    ASSUME TypeOK, OrderInv, [Next]_vars
    PROVE  /\ rejected \subseteq rejected'
           /\ skipped \subseteq skipped'
           /\ Lost \subseteq Lost'
<1>1. rejected \subseteq rejected' /\ skipped \subseteq skipped'
  BY DEF Next, SyncStep, NetworkStep, ServerStep, Enqueue, BeginSync, TakeAck,
         RecordSuccess, BadAck, SyncFailed, Timeout, Kill, Flush, PowerLoss,
         ConnFails, DropLate, Accept, Insert, Reject, Project, SkipProjection,
         Reply, ServerCrash, history, vars
<1>2. next' \in {next, next + 1}
  BY DEF Next, SyncStep, NetworkStep, ServerStep, Enqueue, BeginSync, TakeAck,
         RecordSuccess, BadAck, SyncFailed, Timeout, Kill, Flush, PowerLoss,
         ConnFails, DropLate, Accept, Insert, Reject, Project, SkipProjection,
         Reply, ServerCrash, agentDB, vars
<1>3. ASSUME NEW e \in Event, e < next, box[e] = "none"
      PROVE  box'[e] = "none"
  <2>1. disk.box[e] = "none"
    BY <1>3 DEF OrderInv, DiskIsEarlier
  <2>2. CASE Enqueue
    BY <1>3, <2>2, SizesAreNatural DEF Enqueue, Event, TypeOK, AgentOK
  <2>3. CASE PowerLoss
    BY <2>1, <2>3 DEF PowerLoss
  <2>4. ASSUME NEW p \in Syncers, NEW c \in Conns, TakeAck(p, c)
        PROVE  box'[e] = "none"
    BY <1>3, <2>4 DEF TakeAck, MarkSent
  <2>. QED BY <1>3, <2>2, <2>3, <2>4
           DEF Next, SyncStep, NetworkStep, ServerStep, BeginSync,
               RecordSuccess, BadAck, SyncFailed, Timeout, Kill, Flush,
               ConnFails, DropLate, Accept, Insert, Reject, Project,
               SkipProjection, Reply, ServerCrash, agentDB, vars
<1>4. Lost \subseteq Lost'
  BY <1>2, <1>3, SizesAreNatural DEF Lost, Event, TypeOK, AgentOK
<1>. QED BY <1>1, <1>4, SMTT(20)

\* An event that is settled stays settled.
LEMMA SettledGrows ==
    ASSUME TypeOK, OrderInv, [Next]_vars
    PROVE  Settled \subseteq Settled'
BY EventsGrow, HistoryGrows DEF Settled

\* The batch a synchronisation starts with has no holes: what is older and
\* not pending was sent, and is on the server, or was lost.
LEMMA BatchHasNoHoles ==
    ASSUME TypeOK, AcksAreStored, OrderInv
    PROVE  NoHoles(PendingEvents(BatchSize))
<1>. DEFINE B == PendingEvents(BatchSize)
<1>. SUFFICES ASSUME NEW e \in B, NEW i \in Event, i < e
              PROVE  i \in B \union Settled
  BY DEF NoHoles
<1>1. e \in Pending /\ (i \in Pending => i \in B)
  BY BatchIsOldestPending DEF TypeOK, AgentOK
<1>2. CASE box[i] = "pending"
  BY <1>1, <1>2 DEF Pending
<1>3. CASE box[i] = "sent"
  BY <1>3 DEF AcksAreStored, Settled
<1>4. CASE box[i] = "none"
  <2>1. e \in Event /\ e < next
    BY <1>1 DEF Pending, OrderInv
  <2>2. i < next
    BY <2>1, SizesAreNatural DEF Event, TypeOK, AgentOK
  <2>. QED BY <1>4, <2>2 DEF Lost, Settled
<1>. QED BY <1>2, <1>3, <1>4 DEF TypeOK, AgentOK

\* The outbox stays behind nothing but itself: rows exist below next only,
\* and the flushed part of the database is earlier than the database.
LEMMA BoxStep ==
    ASSUME TypeOK, OrderInv, [Next]_vars
    PROVE  /\ \A e \in Event : box'[e] # "none" => e < next'
           /\ DiskIsEarlier'
<1>. USE DEF TypeOK, AgentOK
<1>same. UNCHANGED <<next, box, disk>> =>
           /\ \A e \in Event : box'[e] # "none" => e < next'
           /\ DiskIsEarlier'
  BY DEF OrderInv, DiskIsEarlier
<1>1. CASE Enqueue
  <2>1. ASSUME NEW e \in Event
        PROVE  box'[e] # "none" => e < next'
    BY <1>1, <2>1, SizesAreNatural DEF Enqueue, OrderInv, Event
  <2>2. disk.box[next] = "none" \/ next \notin Event
    BY SizesAreNatural DEF OrderInv, DiskIsEarlier, Event
  <2>. QED BY <1>1, <2>1, <2>2 DEF Enqueue, OrderInv, DiskIsEarlier
<1>2. ASSUME NEW p \in Syncers, NEW c \in Conns, TakeAck(p, c)
      PROVE  /\ \A e \in Event : box'[e] # "none" => e < next'
             /\ DiskIsEarlier'
  BY <1>2 DEF TakeAck, MarkSent, OrderInv, DiskIsEarlier
<1>3. CASE Flush
  BY <1>3 DEF Flush, OrderInv, DiskIsEarlier
<1>4. CASE PowerLoss
  BY <1>4 DEF PowerLoss, OrderInv, DiskIsEarlier
<1>5. ASSUME NEW p \in Syncers, NEW c \in Conns,
             BadAck(p, c) \/ SyncFailed(p, c) \/ Timeout(p, c)
      PROVE  UNCHANGED <<next, box, disk>>
  BY <1>5, SMTT(20) DEF BadAck, SyncFailed, Timeout, agentDB
<1>6. ASSUME NetworkStep \/ ServerStep \/ UNCHANGED vars
      PROVE  UNCHANGED <<next, box, disk>>
  BY <1>6 DEF NetworkStep, ServerStep, ConnFails, DropLate, Accept, Insert,
              Reject, Project, SkipProjection, Reply, ServerCrash, agentDB,
              agent, vars
<1>7. ASSUME NEW p \in Syncers, BeginSync(p) \/ RecordSuccess(p) \/ Kill(p)
      PROVE  UNCHANGED <<next, box, disk>>
  BY <1>7 DEF BeginSync, RecordSuccess, Kill, agentDB
<1>. QED BY <1>same, <1>1, <1>2, <1>3, <1>4, <1>5, <1>6, <1>7
         DEF Next, SyncStep

\* OrderInv is inductive.
LEMMA OrderStep == TypeOK /\ AcksAreStored /\ OrderInv /\ [Next]_vars => OrderInv'
<1>. SUFFICES ASSUME TypeOK, AcksAreStored, OrderInv, [Next]_vars
              PROVE  OrderInv'
  OBVIOUS
<1>. USE DEF TypeOK, ConnsOK, ServerOK
<1>grow. Settled \subseteq Settled'
  BY SettledGrows
<1>box. /\ \A e \in Event : box'[e] # "none" => e < next'
        /\ DiskIsEarlier'
  BY BoxStep
\* What a step leaves alone keeps having no holes.
<1>stay. ASSUME NEW S, NoHoles(S)
         PROVE  \A e \in S : \A i \in Event : i < e => i \in S \union Settled'
  BY <1>stay, <1>grow DEF NoHoles
<1>conn. ASSUME \A c \in Conns :
                   conn'[c].phase = "sent" =>
                      conn[c].phase = "sent" /\ conn'[c].batch = conn[c].batch
         PROVE  \A c \in Conns :
                   conn'[c].phase = "sent" => NoHoles(conn[c].batch)'
  BY <1>conn, <1>stay DEF OrderInv, NoHoles
<1>todo. UNCHANGED todo => NoHoles(todo)'
  BY <1>stay DEF OrderInv, NoHoles
<1>events. UNCHANGED events => NoHoles(events)'
  BY <1>stay DEF OrderInv, NoHoles
<1>1. CASE Enqueue \/ Flush
  BY <1>1, <1>box, <1>conn, <1>todo, <1>events
  DEF Enqueue, Flush, OrderInv, agent, server, tables
<1>2. ASSUME NEW p \in Syncers, BeginSync(p)
      PROVE  OrderInv'
  <2>1. PICK c \in Conns : conn' = [conn EXCEPT ![c] =
                [phase |-> "sent", owner |-> p,
                 batch |-> PendingEvents(BatchSize), ack |-> NoAnswer]]
    BY <1>2 DEF BeginSync
  <2>2. \A e \in PendingEvents(BatchSize) : \A i \in Event :
           i < e => i \in PendingEvents(BatchSize) \union Settled'
    BY <1>stay, BatchHasNoHoles
  <2>3. ASSUME NEW d \in Conns, conn'[d].phase = "sent"
        PROVE  NoHoles(conn[d].batch)'
    <3>1. CASE d = c
      BY <2>1, <2>2, <3>1 DEF NoHoles
    <3>2. CASE d # c
      BY <1>stay, <2>1, <2>3, <3>2 DEF OrderInv, NoHoles
    <3>. QED BY <3>1, <3>2
  <2>. QED BY <1>2, <2>3, <1>box, <1>todo, <1>events
           DEF BeginSync, OrderInv, server, tables
<1>3. ASSUME NEW p \in Syncers, NEW c \in Conns,
             TakeAck(p, c) \/ BadAck(p, c) \/ SyncFailed(p, c)
      PROVE  OrderInv'
  BY <1>3, <1>box, <1>conn, <1>todo, <1>events
  DEF TakeAck, BadAck, SyncFailed, OrderInv, FreeConn, server, tables
<1>4. ASSUME NEW p \in Syncers, RecordSuccess(p) \/ Kill(p)
      PROVE  OrderInv'
  BY <1>4, <1>box, <1>conn, <1>todo, <1>events
  DEF RecordSuccess, Kill, OrderInv, Abandoned, FreeConn, Conn, server, tables
<1>5. ASSUME NEW p \in Syncers, NEW c \in Conns, Timeout(p, c)
      PROVE  OrderInv'
  BY <1>5, <1>box, <1>conn, <1>todo, <1>events
  DEF Timeout, OrderInv, Abandoned, FreeConn, Conn, server, tables
<1>6. CASE PowerLoss
  BY <1>6, <1>box, <1>conn, <1>todo, <1>events
  DEF PowerLoss, OrderInv, Abandoned, FreeConn, Conn, server, tables
<1>7. ASSUME NEW c \in Conns, ConnFails(c) \/ DropLate(c)
      PROVE  OrderInv'
  <2>1. \A d \in Conns : conn'[d].phase = "sent" =>
           conn[d].phase = "sent" /\ conn'[d].batch = conn[d].batch
    <3>1. CASE ConnFails(c)
      BY <3>1 DEF ConnFails, Conn
    <3>2. CASE DropLate(c)
      BY <3>2 DEF DropLate, FreeConn
    <3>. QED BY <1>7, <3>1, <3>2
  <2>. QED BY <1>7, <2>1, <1>box, <1>conn, <1>todo, <1>events
           DEF ConnFails, DropLate, OrderInv, server, tables
<1>8. ASSUME NEW c \in Conns, Accept(c)
      PROVE  OrderInv'
  <2>1. NoHoles(conn[c].batch) /\ todo' = conn[c].batch
    BY <1>8 DEF Accept, OrderInv
  <2>2. NoHoles(todo)'
    BY <2>1, <1>stay DEF NoHoles
  <2>. QED BY <1>8, <2>2, <1>box, <1>conn, <1>events
           DEF Accept, OrderInv, Conn
<1>9. CASE Insert \/ Reject
  <2>1. PICK e \in todo :
           /\ \A f \in todo : e <= f
           /\ todo' = todo \ {e}
           /\ e \in Settled'
           /\ events' \subseteq events \union {e}
    <3>1. NextOf(todo) \in todo /\ \A f \in todo : NextOf(todo) <= f
      BY <1>9, LeastOfEvents DEF Insert, Reject, NextOf
    <3>2. CASE Insert
      BY <3>1, <3>2 DEF Insert, IsDuplicate, Settled
    <3>3. CASE Reject
      BY <3>1, <3>3 DEF Reject, Settled, tables
    <3>. QED BY <1>9, <3>2, <3>3
  <2>2. \A f \in todo : \A i \in Event : i < f => i \in todo \union Settled'
    BY <1>stay DEF OrderInv
  <2>3. NoHoles(todo)'
    BY <2>1, <2>2 DEF NoHoles
  <2>4. NoHoles(events)'
    <3>. SUFFICES ASSUME NEW f \in events', NEW i \in Event, i < f
                  PROVE  i \in Settled'
      BY DEF NoHoles
    <3>1. CASE f \in events
      BY <1>stay, <1>grow, <3>1 DEF OrderInv, Settled
    <3>2. CASE f = e
      <4>1. ~ (e <= i)
        BY <3>2, SizesAreNatural DEF Event
      <4>. QED BY <2>1, <2>2, <3>2, <4>1
    <3>. QED BY <2>1, <3>1, <3>2
  <2>5. conn' = conn
    BY <1>9 DEF Insert, Reject, agent
  <2>. QED BY <2>3, <2>4, <2>5, <1>box, <1>conn DEF OrderInv
<1>10. CASE Project \/ SkipProjection
  BY <1>10, <1>box, <1>conn, <1>todo, <1>events
  DEF Project, SkipProjection, OrderInv, agent, tables
<1>11. CASE Reply
  <2>1. \A c \in Conns : conn'[c].phase = "sent" =>
           conn[c].phase = "sent" /\ conn'[c].batch = conn[c].batch
    BY <1>11 DEF Reply, FreeConn, Conn
  <2>. QED BY <1>11, <2>1, <1>box, <1>conn, <1>todo, <1>events
           DEF Reply, OrderInv, tables
<1>12. CASE ServerCrash
  <2>1. NoHoles(todo)'
    BY <1>12 DEF ServerCrash, NoHoles
  <2>. QED BY <1>12, <2>1, <1>box, <1>conn, <1>events
           DEF ServerCrash, OrderInv, FreeConn, Conn, tables
<1>13. CASE UNCHANGED vars
  BY <1>13, <1>box, <1>conn, <1>todo, <1>events
  DEF vars, OrderInv, agent, server, tables
<1>. QED
  BY <1>1, <1>2, <1>3, <1>4, <1>5, <1>6, <1>7, <1>8, <1>9, <1>10, <1>11,
     <1>12, <1>13
  DEF Next, SyncStep, NetworkStep, ServerStep

\* An event reaches the server after every earlier one that is not refused
\* or lost, although batches overlap, are repeated and arrive late.
THEOREM EventsArriveInOrder == Spec => []InOrder
<1>1. Init => OrderInv
  BY DEF Init, OrderInv, DiskIsEarlier, NoHoles, FreeConn
<1>2. Init => AcksAreStored
  BY DEF Init, AcksAreStored, Acked, FreeConn, NoAnswer
<1>3. OrderInv => InOrder
  BY SMTT(20) DEF OrderInv, NoHoles, Settled, InOrder
<1>. QED BY <1>1, <1>2, <1>3, AckStep, OrderStep, TypeCorrect, PTL DEF Spec

-----------------------------------------------------------------------------
(* Sessions *)

\* What the session's row knows of its two events.
SessionInv ==
    \A s \in Sessions :
        /\ session[s] # "none" <=> rows[StartOf[s]] > 0
        /\ rows[FinishOf[s]] > 0 =>
              \/ StartOf[s] \in rejected \union Lost \union skipped
              \/ rows[StartOf[s]] > 0
        /\ /\ rows[StartOf[s]] > 0 /\ rows[FinishOf[s]] > 0
           /\ StartOf[s] \notin rejected \union Lost
           => session[s] = "closed"

\* Steps other than a projection leave the tables it writes alone.
LEMMA OnlyProjectApplies ==
    ASSUME [Next]_vars, ~Project
    PROVE  UNCHANGED <<rows, session>>
BY DEF Next, SyncStep, NetworkStep, ServerStep, Enqueue, BeginSync, TakeAck,
       RecordSuccess, BadAck, SyncFailed, Timeout, Kill, Flush, PowerLoss,
       ConnFails, DropLate, Accept, Insert, Reject, SkipProjection, Reply,
       ServerCrash, tables, vars

\* SessionInv is inductive.
LEMMA SessionStep ==
    TypeOK /\ AppliedInv /\ OrderInv /\ SessionInv /\ [Next]_vars => SessionInv'
<1>. SUFFICES ASSUME TypeOK, AppliedInv, OrderInv, SessionInv, [Next]_vars,
                     NEW s \in Sessions
              PROVE  /\ session'[s] # "none" <=> rows'[StartOf[s]] > 0
                     /\ rows'[FinishOf[s]] > 0 =>
                           \/ StartOf[s] \in rejected' \union Lost' \union skipped'
                           \/ rows'[StartOf[s]] > 0
                     /\ /\ rows'[StartOf[s]] > 0 /\ rows'[FinishOf[s]] > 0
                        /\ StartOf[s] \notin rejected' \union Lost'
                        => session'[s] = "closed"
  BY DEF SessionInv
<1>grow. /\ rejected \subseteq rejected' /\ skipped \subseteq skipped'
         /\ Lost \subseteq Lost'
  BY HistoryGrows
<1>ids. /\ StartOf[s] \in Event /\ FinishOf[s] \in Event
        /\ StartOf[s] < FinishOf[s] /\ StartOf[s] # FinishOf[s]
  BY SessionsAreReportedInOrder
<1>inv. /\ session[s] # "none" <=> rows[StartOf[s]] > 0
        /\ rows[FinishOf[s]] > 0 =>
              \/ StartOf[s] \in rejected \union Lost \union skipped
              \/ rows[StartOf[s]] > 0
        /\ /\ rows[StartOf[s]] > 0 /\ rows[FinishOf[s]] > 0
           /\ StartOf[s] \notin rejected \union Lost
           => session[s] = "closed"
  BY DEF SessionInv
<1>1. CASE ~Project
  BY <1>1, <1>grow, <1>inv, OnlyProjectApplies
<1>2. CASE Project
  <2>1. /\ fresh \in events \ skipped /\ rows[fresh] = 0
        /\ rows' = [rows EXCEPT ![fresh] = 1]
        /\ session' = ProjectedSessions(fresh)
    <3>1. fresh \in Event /\ fresh \in events \ skipped
      BY <1>2 DEF Project, AppliedInv, TypeOK, ServerOK
    <3>2. rows[fresh] = 0
      BY <3>1 DEF AppliedInv, AppliedOnce
    <3>. QED BY <1>2, <3>1, <3>2 DEF Project
  <2>2. rows \in [Event -> Nat] /\ fresh \in Event
    BY <2>1 DEF TypeOK, ServerOK
  <2>3. CASE fresh = StartOf[s]
    <3>1. session'[s] = "open" /\ rows'[StartOf[s]] = 1
          /\ rows'[FinishOf[s]] = rows[FinishOf[s]]
      BY <1>ids, <2>1, <2>2, <2>3 DEF ProjectedSessions
    <3>2. rows[FinishOf[s]] > 0 => StartOf[s] \in rejected \union Lost
      BY <1>inv, <2>1, <2>3
    <3>. QED BY <1>grow, <3>1, <3>2
  <2>4. CASE fresh = FinishOf[s]
    <3>1. /\ rows'[StartOf[s]] = rows[StartOf[s]]
          /\ session'[s] = IF session[s] # "none" THEN "closed" ELSE session[s]
      BY <1>ids, <2>1, <2>2, <2>4 DEF ProjectedSessions
    <3>2. StartOf[s] \in events \union rejected \union Lost
      BY <1>ids, <2>1, <2>4 DEF OrderInv, NoHoles, Settled
    <3>3. StartOf[s] \in events \ skipped => rows[StartOf[s]] = 1
      BY <1>ids, <2>4 DEF AppliedInv, AppliedOnce
    <3>. QED BY <1>grow, <1>inv, <3>1, <3>2, <3>3
  <2>5. CASE fresh \notin {StartOf[s], FinishOf[s]}
    <3>1. /\ rows'[StartOf[s]] = rows[StartOf[s]]
          /\ rows'[FinishOf[s]] = rows[FinishOf[s]]
          /\ session'[s] = session[s]
      BY <1>ids, <2>1, <2>2, <2>5 DEF ProjectedSessions
    <3>. QED BY <1>grow, <1>inv, <3>1
  <2>. QED BY <2>3, <2>4, <2>5
<1>. QED BY <1>1, <1>2

\* The invariants of all parts hold together.
LEMMA AllInvariants ==
    Spec => [](TypeOK /\ AcksAreStored /\ AppliedInv /\ OrderInv /\ SessionInv)
<1>1. Init => AcksAreStored /\ OrderInv
  BY DEF Init, AcksAreStored, Acked, OrderInv, DiskIsEarlier, NoHoles, FreeConn,
         NoAnswer
<1>2. Init => AppliedInv
  BY SizesAreNatural DEF Init, AppliedInv, AppliedOnce
<1>3. Init => SessionInv
  BY SessionsAreReportedInOrder DEF Init, SessionInv
<1>. QED BY <1>1, <1>2, <1>3, AckStep, AppliedStep, OrderStep, SessionStep,
            TypeCorrect, PTL DEF Spec

\* A session whose two events were worked off is closed, unless its Started
\* event was refused or lost.
THEOREM FinishedSessionsAreClosed == Spec => []FinishedIsClosed
<1>1. SessionInv => FinishedIsClosed
  BY DEF SessionInv, FinishedIsClosed
<1>. QED BY <1>1, AllInvariants, PTL

\* No step opens a closed session again.
THEOREM SessionsStayClosed == Spec => NeverReopened
<1>. DEFINE Stays == \A s \in Sessions : session[s] = "closed" => session'[s] = "closed"
<1>1. TypeOK /\ AppliedInv /\ SessionInv /\ [Next]_vars => [Stays]_vars
  <2>. SUFFICES ASSUME TypeOK, AppliedInv, SessionInv, [Next]_vars,
                       NEW s \in Sessions, session[s] = "closed"
                PROVE  session'[s] = "closed"
    OBVIOUS
  <2>1. CASE ~Project
    BY <2>1, OnlyProjectApplies
  <2>2. CASE Project
    <3>1. rows[StartOf[s]] > 0
      BY DEF SessionInv
    <3>2. rows[fresh] = 0 /\ session' = ProjectedSessions(fresh)
      BY <2>2 DEF Project, AppliedInv, AppliedOnce, TypeOK, ServerOK
    <3>3. fresh # StartOf[s]
      BY <3>1, <3>2
    <3>. QED BY <3>2, <3>3 DEF ProjectedSessions
  <2>. QED BY <2>1, <2>2
<1>. QED BY <1>1, AllInvariants, PTL DEF Spec, NeverReopened

-----------------------------------------------------------------------------
(* The outbox as promised *)

\* The events on their way to the server exist.
CarriesCreated ==
    /\ \A e \in todo : e < next
    /\ \A c \in Conns : \A e \in conn[c].batch : e < next

\* CarriesCreated is inductive.
LEMMA CarriesStep ==
    TypeOK /\ OrderInv /\ CarriesCreated /\ [Next]_vars => CarriesCreated'
<1>. SUFFICES ASSUME TypeOK, OrderInv, CarriesCreated, [Next]_vars
              PROVE  CarriesCreated'
  OBVIOUS
<1>. USE DEF TypeOK, ConnsOK, ServerOK
<1>next. \A e \in Event : e < next => e < next'
  <2>1. next' \in {next, next + 1}
    BY DEF Next, SyncStep, NetworkStep, ServerStep, Enqueue, BeginSync, TakeAck,
           RecordSuccess, BadAck, SyncFailed, Timeout, Kill, Flush, PowerLoss,
           ConnFails, DropLate, Accept, Insert, Reject, Project, SkipProjection,
           Reply, ServerCrash, agentDB, vars
  <2>. QED BY <2>1, SizesAreNatural, SMTT(20) DEF AgentOK, Event
<1>batch. \A c \in Conns : conn[c].batch \subseteq Event
  BY DEF Conn
<1>conn. ASSUME \A c \in Conns : conn'[c].batch \subseteq conn[c].batch
         PROVE  \A c \in Conns : \A e \in conn'[c].batch : e < next'
  BY <1>conn, <1>next, <1>batch DEF CarriesCreated
<1>todo. todo' \subseteq todo => \A e \in todo' : e < next'
  BY <1>next DEF CarriesCreated
<1>1. CASE Enqueue \/ Flush
  BY <1>1, <1>conn, <1>todo DEF Enqueue, Flush, CarriesCreated, agent, server
<1>2. ASSUME NEW p \in Syncers, BeginSync(p)
      PROVE  CarriesCreated'
  <2>1. \A e \in PendingEvents(BatchSize) : e < next'
    BY <1>next DEF PendingEvents, Pending, OrderInv
  <2>2. PICK c \in Conns : conn' = [conn EXCEPT ![c] =
                [phase |-> "sent", owner |-> p,
                 batch |-> PendingEvents(BatchSize), ack |-> NoAnswer]]
    BY <1>2 DEF BeginSync
  <2>3. ASSUME NEW d \in Conns, NEW e \in conn'[d].batch
        PROVE  e < next'
    BY <2>1, <2>2, <1>next, <1>batch DEF CarriesCreated
  <2>. QED BY <1>2, <2>3, <1>todo DEF BeginSync, CarriesCreated, server
<1>3. ASSUME NEW p \in Syncers, SyncStep(p), ~BeginSync(p)
      PROVE  CarriesCreated'
  <2>1. todo' = todo
    BY <1>3 DEF SyncStep, RecordSuccess, Kill, TakeAck, BadAck, SyncFailed,
                Timeout, server
  <2>2. \A c \in Conns : conn'[c].batch \subseteq conn[c].batch
    BY <1>3 DEF SyncStep, RecordSuccess, Kill, TakeAck, BadAck, SyncFailed,
                Timeout, Abandoned, FreeConn, Conn
  <2>. QED BY <2>1, <2>2, <1>conn, <1>todo DEF CarriesCreated
<1>4. CASE PowerLoss \/ NetworkStep
  <2>1. todo' = todo
    BY <1>4 DEF PowerLoss, NetworkStep, ConnFails, DropLate, server
  <2>2. CASE PowerLoss
    BY <2>1, <2>2, <1>conn, <1>todo
    DEF PowerLoss, Abandoned, FreeConn, Conn, CarriesCreated
  <2>3. ASSUME NEW c \in Conns, ConnFails(c)
        PROVE  \A d \in Conns : conn'[d].batch \subseteq conn[d].batch
    BY <2>3 DEF ConnFails, Conn
  <2>4. ASSUME NEW c \in Conns, DropLate(c)
        PROVE  \A d \in Conns : conn'[d].batch \subseteq conn[d].batch
    BY <2>4 DEF DropLate, FreeConn
  <2>. QED BY <1>4, <2>1, <2>2, <2>3, <2>4, <1>conn, <1>todo
           DEF NetworkStep, CarriesCreated
<1>5. ASSUME NEW c \in Conns, Accept(c)
      PROVE  CarriesCreated'
  BY <1>5, <1>next, <1>batch DEF Accept, CarriesCreated, Conn
<1>6. CASE Insert \/ Reject \/ Project \/ SkipProjection
  BY <1>6, <1>conn, <1>todo
  DEF Insert, Reject, Project, SkipProjection, CarriesCreated, agent
<1>7. CASE Reply \/ ServerCrash
  <2>1. \A c \in Conns : conn'[c].batch \subseteq conn[c].batch
    <3>1. CASE Reply
      BY <3>1 DEF Reply, FreeConn, Conn
    <3>2. CASE ServerCrash
      BY <3>2 DEF ServerCrash, FreeConn, Conn
    <3>. QED BY <1>7, <3>1, <3>2
  <2>. QED BY <1>7, <2>1, <1>conn, <1>todo DEF Reply, ServerCrash, CarriesCreated
<1>8. CASE UNCHANGED vars
  BY <1>8, <1>conn, <1>todo, SMTT(20) DEF vars, CarriesCreated, agent, server
<1>. QED BY <1>1, <1>2, <1>3, <1>4, <1>5, <1>6, <1>7, <1>8
         DEF Next, ServerStep

\* The steps that are invisible to the abstract outbox.
LEMMA Stutters ==
    ASSUME [Next]_vars, ~Enqueue, ~PowerLoss, ~Insert, ~Project,
           \A p \in Syncers, c \in Conns : ~TakeAck(p, c)
    PROVE  UNCHANGED <<next, box, events, rows>>
BY DEF Next, SyncStep, NetworkStep, ServerStep, BeginSync, RecordSuccess,
       BadAck, SyncFailed, Timeout, Kill, Flush, ConnFails, DropLate, Accept,
       Reject, SkipProjection, Reply, ServerCrash, agentDB, tables, vars

\* Every step is a step of the abstract outbox or leaves it unchanged.
LEMMA StepDelivers ==
    TypeOK /\ AcksAreStored /\ AppliedInv /\ OrderInv /\ CarriesCreated /\ [Next]_vars
      => [Abstract!Next]_(Abstract!vars)
<1>. SUFFICES ASSUME TypeOK, AcksAreStored, AppliedInv, OrderInv, CarriesCreated,
                     [Next]_vars
              PROVE  Abstract!Next \/ UNCHANGED Abstract!vars
  OBVIOUS
<1>. USE DEF TypeOK, AgentOK, ServerOK
<1>event. Abstract!Event = Event
  BY DEF Abstract!Event, Event
<1>1. CASE Enqueue
  <2>1. Abstract!Create
    BY <1>1, <1>event DEF Enqueue, Abstract!Create, tables
  <2>. QED BY <2>1 DEF Abstract!Next
<1>2. ASSUME NEW p \in Syncers, NEW c \in Conns, TakeAck(p, c)
      PROVE  Abstract!Next
  <2>1. Acked(c) \in SUBSET events
    BY DEF AcksAreStored
  <2>2. Abstract!Confirm(Acked(c))
    BY <1>2, <1>event DEF TakeAck, MarkSent, Abstract!Confirm, tables
  <2>. QED BY <2>1, <2>2 DEF Abstract!Next
<1>3. CASE PowerLoss
  <2>1. Abstract!PowerCut
    BY <1>3, <1>event
    DEF PowerLoss, OrderInv, DiskIsEarlier, Abstract!PowerCut,
        Abstract!EarlierView, tables
  <2>. QED BY <2>1 DEF Abstract!Next
<1>4. CASE Insert
  <2>1. PICK e \in todo : e = NextOf(todo)
    BY <1>4, LeastOfEvents DEF Insert, NextOf
  <2>2. CASE IsDuplicate(e)
    BY <1>4, <2>1, <2>2 DEF Insert, Abstract!vars, agentDB
  <2>3. CASE ~IsDuplicate(e)
    <3>1. Abstract!Store(e)
      BY <1>4, <2>1, <2>3
      DEF Insert, IsDuplicate, CarriesCreated, Abstract!Store, agentDB
    <3>. QED BY <1>event, <2>1, <3>1 DEF Abstract!Next
  <2>. QED BY <2>2, <2>3
<1>5. CASE Project
  <2>1. fresh \in Event /\ fresh \in events
    BY <1>5 DEF Project, AppliedInv
  <2>2. PICK e \in Event : e = fresh
    BY <2>1
  <2>3. /\ e \in events /\ rows[e] = 0
        /\ rows' = [rows EXCEPT ![e] = 1]
        /\ UNCHANGED <<next, box, events>>
    <3>1. rows[e] = 0
      BY <2>1, <2>2 DEF AppliedInv, AppliedOnce
    <3>. QED BY <1>5, <2>1, <2>2, <3>1 DEF Project, agentDB
  <2>4. {d \in Event : rows'[d] > 0} = {d \in Event : rows[d] > 0} \union {e}
    BY <2>3
  <2>5. Abstract!Apply(e)
    BY <2>3, <2>4 DEF Abstract!Apply
  <2>. QED BY <1>event, <2>5 DEF Abstract!Next
<1>. QED BY <1>1, <1>2, <1>3, <1>4, <1>5, Stutters DEF Abstract!vars

\* The system implements the abstract outbox: nothing is stored or applied
\* twice, and nothing is confirmed before it is stored.
THEOREM SyncDelivers == Spec => Delivers
<1>1. Init => Abstract!Init
  BY DEF Init, Abstract!Init, Abstract!Event, Event
<1>2. Init => CarriesCreated
  BY DEF Init, CarriesCreated, FreeConn
<1>. QED BY <1>1, <1>2, AllInvariants, CarriesStep, StepDelivers, PTL
         DEF Spec, Delivers, Abstract!Spec

=============================================================================
