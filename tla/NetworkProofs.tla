---------------------------- MODULE NetworkProofs ----------------------------
(***************************************************************************)
(* Proofs about the components of MCNetwork, for any devices, clients, runs *)
(* and files and any bounds: each has an inductive invariant, and they      *)
(* share no variable.                                                      *)
(***************************************************************************)
EXTENDS MCNetwork, FiniteSetTheorems, SequenceTheorems, WellFoundedInduction, TLAPS

\* Every bound is a number.
LEMMA Bounds ==
    /\ Window \in Nat /\ MaxTime \in Nat /\ MaxProgress \in Nat /\ MaxUploads \in Nat
    /\ MaxSize \in Nat /\ MaxBreaks \in Nat /\ MaxTokens \in Nat /\ MaxSetups \in Nat
    /\ MaxLosses \in Nat /\ MaxRounds \in Nat /\ MaxScans \in Nat /\ Word \in Nat
    /\ MaxSize < Word
BY NetworkAssumption

-----------------------------------------------------------------------------
(* Live event stream (routes.rs)                                           *)

StreamInv == Stream!TypeOK /\ Stream!NoGaps

\* A poll looks at ids of the table only.
LEMMA NewRowsAre ==
    ASSUME NEW t \in Nat, NEW from \in 0..t, top = t
    PROVE  /\ Stream!NewRows(from) \subseteq 1..t
           /\ \A row \in Stream!NewRows(from) : from + 1..row \subseteq Stream!NewRows(from)
<1>1. Limit \in Nat
  BY Assumptions DEF Stream!StreamAssumption
<1> QED
  BY <1>1 DEF Stream!NewRows

LEMMA StreamStep ==
    ASSUME StreamInv, Stream!Next
    PROVE  StreamInv'
<1>1. MaxRows \in Nat /\ Limit \in Nat
  BY Assumptions DEF Stream!StreamAssumption
<1>2. top \in 0..MaxRows /\ top \in Nat
  BY <1>1 DEF StreamInv, Stream!TypeOK
<1>3. CASE Stream!InsertRow
  <2>1. top' = top + 1 /\ top' \in 0..MaxRows /\ 0..top \subseteq 0..top' /\ 1..top \subseteq 1..top'
    BY <1>1, <1>2, <1>3 DEF Stream!InsertRow
  <2>2. Stream!TypeOK'
    BY <1>3, <2>1 DEF StreamInv, Stream!TypeOK, Stream!InsertRow
  <2> QED
    BY <1>3, <2>2 DEF StreamInv, Stream!NoGaps, Stream!InsertRow
<1>4. ASSUME NEW c \in Clients, Stream!Connect(c)
      PROVE  StreamInv'
  <2>1. top \in 0..top /\ {} \in SUBSET (1..top)
    BY <1>2
  <2>2. Stream!TypeOK'
    BY <1>4, <2>1 DEF StreamInv, Stream!TypeOK, Stream!Connect, Stream!MaxId
  <2>3. \A d \in Clients : \/ d # c /\ lastId'[d] = lastId[d] /\ pushed'[d] = pushed[d]
                           \/ pushed'[d] = {}
    BY <1>4 DEF StreamInv, Stream!TypeOK, Stream!Connect
  <2> QED
    BY <2>2, <2>3 DEF StreamInv, Stream!NoGaps
<1>5. ASSUME NEW c \in Clients, Stream!Poll(c)
      PROVE  StreamInv'
  <2> DEFINE new == Stream!NewRows(lastId[c])
  <2>1. lastId[c] \in 0..top /\ pushed[c] \subseteq 1..top /\ twice[c] \subseteq 1..top
    BY DEF StreamInv, Stream!TypeOK
  <2>2. new \subseteq 1..top /\ \A row \in new : lastId[c] + 1..row \subseteq new
    BY <1>2, <2>1, NewRowsAre
  <2>3. /\ pushed' = [pushed EXCEPT ![c] = pushed[c] \union new]
        /\ twice' = [twice EXCEPT ![c] = twice[c] \union (pushed[c] \intersect new)]
        /\ UNCHANGED <<top, online, lastId>>
    BY <1>5 DEF Stream!Poll
  <2> HIDE DEF new
  <2>4. Stream!TypeOK'
    BY <2>1, <2>2, <2>3 DEF StreamInv, Stream!TypeOK
  <2>5. \A row \in pushed[c] \union new : lastId[c] + 1..row \subseteq pushed[c] \union new
    BY <2>2 DEF StreamInv, Stream!NoGaps
  <2>6. \A d \in Clients : \A row \in pushed'[d] : lastId[d] + 1..row \subseteq pushed'[d]
    BY <2>3, <2>5 DEF StreamInv, Stream!TypeOK, Stream!NoGaps
  <2> QED
    BY <2>3, <2>4, <2>6 DEF StreamInv, Stream!NoGaps
<1>6. ASSUME NEW c \in Clients, Stream!Disconnect(c)
      PROVE  StreamInv'
  BY <1>6 DEF StreamInv, Stream!TypeOK, Stream!NoGaps, Stream!Disconnect
<1> QED
  BY <1>3, <1>4, <1>5, <1>6 DEF Stream!Next

LEMMA StreamStart == Stream!Init => StreamInv
<1>1. MaxRows \in Nat /\ 0 \in 0..MaxRows /\ 0 \in 0..0
  BY Assumptions DEF Stream!StreamAssumption
<1> QED
  BY <1>1 DEF StreamInv, Stream!Init, Stream!TypeOK, Stream!NoGaps

-----------------------------------------------------------------------------
(* Cloud pairing (cloud.rs, routes.rs)                                     *)

PairTypes ==
    /\ pairingRow \in [token : 0..MaxTokens, consumed : BOOLEAN]
    /\ submitted \in 0..MaxTokens /\ good \subseteq 1..submitted
    /\ setup \in {"none", "polling", "asking", "answered", "waiting"}
    /\ rounds \in 0..MaxRounds /\ (setup \in {"asking", "answered"} => rounds < MaxRounds)
    /\ pairingAnswer \in 0..MaxTokens /\ pairingLate \in BOOLEAN
    /\ fed \subseteq 1..MaxTokens /\ conf \in good \union {0}
    /\ setups \in 0..MaxSetups /\ pairingFaults \in 0..MaxLosses
    /\ given \in [1..MaxTokens -> 0..1]

\* The row has the newest token, and says whether it was given away.
GivenInv ==
    /\ pairingRow.token = submitted
    /\ \A t \in 1..MaxTokens : t > submitted => given[t] = 0
    /\ submitted > 0 => (given[submitted] = 1 <=> pairingRow.consumed)

\* As long as nothing fails a token is in one place at a time.
PathInv ==
    pairingFaults = 0 =>
        /\ ~pairingLate
        /\ pairingAnswer # 0 => setup = "answered"
        /\ fed # {} => setup = "waiting"
        /\ \A t \in fed : fed = {t}
        /\ pairingRow.consumed /\ pairingRow.token \in good =>
              \/ pairingAnswer = pairingRow.token
              \/ fed = {pairingRow.token}
              \/ conf = pairingRow.token /\ fed = {} /\ pairingAnswer = 0

PairInv == PairTypes /\ GivenInv /\ PathInv

LEMMA PairStart == Pairing!Init => PairInv
<1> SUFFICES ASSUME Pairing!Init PROVE PairInv
  OBVIOUS
<1> USE Bounds DEF Pairing!Init, Pairing!Tokens, Pairing!NoToken
<1>1. pairingRow \in [token : 0..MaxTokens, consumed : BOOLEAN] /\ pairingLate \in BOOLEAN
  <2>1. pairingRow = [token |-> 0, consumed |-> FALSE] /\ pairingLate = FALSE /\ 0 \in 0..MaxTokens
    OBVIOUS
  <2>2. pairingLate \in BOOLEAN
    BY <2>1
  <2>3. pairingRow \in [token : 0..MaxTokens, consumed : BOOLEAN]
    BY <2>1
  <2> QED
    BY <2>2, <2>3
<1>2. given \in [1..MaxTokens -> 0..1] /\ \A t \in 1..MaxTokens : given[t] = 0
  OBVIOUS
<1>3. PairTypes
  BY <1>1, <1>2 DEF PairTypes
<1>4. GivenInv
  BY <1>2 DEF GivenInv
<1>5. PathInv
  BY DEF PathInv
<1> QED
  BY <1>3, <1>4, <1>5 DEF PairInv

LEMMA PairAgrees ==
    PairInv => Pairing!TypeOK /\ Pairing!TokenGivenOnce /\ Pairing!TokenNotWasted
<1> SUFFICES ASSUME PairInv PROVE Pairing!TypeOK /\ Pairing!TokenGivenOnce /\ Pairing!TokenNotWasted
  OBVIOUS
<1>1. \A n \in Nat : 0..n = 1..n \union {0}
  OBVIOUS
<1>2. 0..MaxTokens = 1..MaxTokens \union {0} /\ 0..1 \subseteq Nat
  BY <1>1, Bounds
<1>3. Pairing!TypeOK
  BY <1>2 DEF PairInv, PairTypes, Pairing!TypeOK, Pairing!Tokens, Pairing!NoToken
<1>4. Pairing!TokenGivenOnce
  BY DEF PairInv, PairTypes, Pairing!TokenGivenOnce, Pairing!Tokens
<1>5. Pairing!TokenNotWasted
  BY DEF PairInv, PathInv, Pairing!TokenNotWasted
<1> QED
  BY <1>3, <1>4, <1>5

\* The server answers, in time or late.
LEMMA Consumed ==
    ASSUME PairTypes, GivenInv, Pairing!Consume, UNCHANGED submitted
    PROVE  /\ pairingRow' \in [token : 0..MaxTokens, consumed : BOOLEAN]
           /\ given' \in [1..MaxTokens -> 0..1] /\ GivenInv'
           /\ Pairing!Unread => pairingRow'.token = pairingRow.token /\ pairingRow'.consumed
           /\ ~Pairing!Unread => pairingRow' = pairingRow
<1>1. CASE Pairing!Unread
  <2>1. submitted \in 1..MaxTokens /\ given[submitted] = 0 /\ ~pairingRow.consumed
    BY <1>1, Bounds DEF PairTypes, GivenInv, Pairing!Unread, Pairing!NoToken
  <2>2. /\ pairingRow' = [pairingRow EXCEPT !.consumed = TRUE]
        /\ given' = [given EXCEPT ![submitted] = 1]
    BY <1>1, <2>1 DEF Pairing!Consume, GivenInv
  <2>3. /\ pairingRow' \in [token : 0..MaxTokens, consumed : BOOLEAN]
        /\ pairingRow'.token = pairingRow.token /\ pairingRow'.consumed
    BY <2>2 DEF PairTypes
  <2>4. /\ given' \in [1..MaxTokens -> 0..1] /\ given'[submitted] = 1
        /\ \A t \in 1..MaxTokens : t # submitted => given'[t] = given[t]
    BY <2>1, <2>2 DEF PairTypes
  <2>5. \A t \in 1..MaxTokens : t > submitted => t # submitted
    BY <2>1, Bounds
  <2>6. GivenInv'
    BY <2>1, <2>3, <2>4, <2>5 DEF GivenInv
  <2> QED
    BY <1>1, <2>3, <2>4, <2>6
<1>2. CASE ~Pairing!Unread
  BY <1>2 DEF PairTypes, GivenInv, Pairing!Consume
<1> QED
  BY <1>1, <1>2

LEMMA PairStep ==
    ASSUME PairInv, Pairing!Next
    PROVE  PairInv'
<1> USE Bounds DEF Pairing!NoToken, Pairing!Tokens
<1>1. CASE Pairing!Submit
  <2>1. /\ submitted < MaxTokens /\ submitted' = submitted + 1
        /\ submitted' \in 1..MaxTokens /\ submitted' > submitted
        /\ 1..submitted \subseteq 1..submitted' /\ submitted' \in 1..submitted'
    BY <1>1 DEF Pairing!Submit, PairInv, PairTypes
  <2>2. pairingRow' = [token |-> submitted', consumed |-> FALSE]
    BY <1>1 DEF Pairing!Submit, Pairing!Replaced
  <2>3. good' \in {good, good \union {submitted'}}
    BY <1>1 DEF Pairing!Submit
  <2>4. PairTypes'
    <3>1. pairingRow' \in [token : 0..MaxTokens, consumed : BOOLEAN]
      BY <2>1, <2>2
    <3>2. submitted' \in 0..MaxTokens /\ good' \subseteq 1..submitted' /\ conf \in good' \union {0}
      BY <2>1, <2>3 DEF PairInv, PairTypes
    <3>3. UNCHANGED <<setup, rounds, pairingAnswer, pairingLate, fed, conf, setups,
                      pairingFaults, given>>
      BY <1>1 DEF Pairing!Submit
    <3> QED
      BY <3>1, <3>2, <3>3 DEF PairInv, PairTypes
  <2>5. GivenInv'
    BY <1>1, <2>1, <2>2 DEF Pairing!Submit, PairInv, PairTypes, GivenInv
  <2>6. PathInv'
    BY <1>1, <2>2 DEF Pairing!Submit, PairInv, PathInv
  <2> QED
    BY <2>4, <2>5, <2>6 DEF PairInv
<1>2. CASE Pairing!BeginSetup
  BY <1>2 DEF Pairing!BeginSetup, PairInv, PairTypes, GivenInv, PathInv
<1>3. CASE Pairing!TimedOut
  BY <1>3 DEF Pairing!TimedOut, PairInv, PairTypes, GivenInv, PathInv
<1>4. CASE Pairing!Ask
  BY <1>4 DEF Pairing!Ask, PairInv, PairTypes, GivenInv, PathInv
<1>5. CASE Pairing!Serve
  <2>1. /\ pairingRow' \in [token : 0..MaxTokens, consumed : BOOLEAN]
        /\ given' \in [1..MaxTokens -> 0..1] /\ GivenInv'
        /\ Pairing!Unread => pairingRow'.token = pairingRow.token /\ pairingRow'.consumed
        /\ ~Pairing!Unread => pairingRow' = pairingRow
    BY <1>5, Consumed DEF Pairing!Serve, PairInv
  <2>2. PairTypes'
    BY <1>5, <2>1 DEF Pairing!Serve, PairInv, PairTypes
  <2>3. PathInv'
    BY <1>5, <2>1 DEF Pairing!Serve, PairInv, PairTypes, PathInv, Pairing!Unread
  <2> QED
    BY <2>1, <2>2, <2>3 DEF PairInv
<1>6. CASE Pairing!AskFails
  <2>1. pairingFaults' # 0
    BY <1>6 DEF Pairing!AskFails, PairInv, PairTypes
  <2>2. pairingLate' = pairingLate \/ pairingLate' = TRUE
    BY <1>6 DEF Pairing!AskFails
  <2>3. pairingLate' \in BOOLEAN
    BY <2>2 DEF PairInv, PairTypes
  <2>4. PairTypes'
    BY <1>6, <2>3 DEF Pairing!AskFails, PairInv, PairTypes
  <2> QED
    BY <1>6, <2>1, <2>4 DEF Pairing!AskFails, PairInv, GivenInv, PathInv
<1>7. CASE Pairing!ServeLate
  <2>1. /\ pairingRow' \in [token : 0..MaxTokens, consumed : BOOLEAN]
        /\ given' \in [1..MaxTokens -> 0..1] /\ GivenInv'
    BY <1>7, Consumed DEF Pairing!ServeLate, PairInv
  <2> QED
    BY <1>7, <2>1 DEF Pairing!ServeLate, PairInv, PairTypes, PathInv
<1>8. CASE Pairing!AnswerLost
  BY <1>8 DEF Pairing!AnswerLost, PairInv, PairTypes, GivenInv, PathInv
<1>9. CASE Pairing!NothingYet
  BY <1>9 DEF Pairing!NothingYet, PairInv, PairTypes, GivenInv, PathInv
<1>10. CASE Pairing!Feed
  BY <1>10 DEF Pairing!Feed, Pairing!Fed, PairInv, PairTypes, GivenInv, PathInv
<1>11. ASSUME NEW t \in 1..MaxTokens, Pairing!RcloneEnds(t)
       PROVE  PairInv'
  BY <1>11 DEF Pairing!RcloneEnds, PairInv, PairTypes, GivenInv, PathInv
<1>12. CASE Pairing!Kill
  BY <1>12 DEF Pairing!Kill, PairInv, PairTypes, GivenInv, PathInv
<1> QED
  BY <1>1, <1>2, <1>3, <1>4, <1>5, <1>6, <1>7, <1>8, <1>9, <1>10, <1>11, <1>12
     DEF Pairing!Next, Pairing!AgentStep

-----------------------------------------------------------------------------
(* ROM list of the dashboard (dashboard.rs, scanner.rs, routes.rs)         *)

ListTypes ==
    /\ card \in [Devices -> [Paths -> Sizes \union {0}]]
    /\ games \in [Devices -> [Paths -> Sizes \union {0}]]
    /\ listingOutbox \in [Devices -> Seq(Listing!Events)]
    /\ batch \in [Devices -> Nat] /\ \A d \in Devices : batch[d] <= Len(listingOutbox[d])
    /\ listingRows \subseteq Listing!Events
    /\ wanted \union swept \union unmet \union sweeping \subseteq Devices \X Paths
    /\ listingAnswer \in [Devices -> [path : Paths \union {"none"}, ok : BOOLEAN]]
    /\ \A d \in Devices : listingAnswer[d] = Listing!NoAnswer \/ listingAnswer[d].path \in Paths
    /\ scans \in Nat

\* A device reports its own ROMs.
OwnInv == \A d \in Devices : \A k \in 1..Len(listingOutbox[d]) : listingOutbox[d][k].device = d

Told(d, p) == <<d, p>> \in swept \/ Listing!Listed(d, p)

\* What a request carries the server has stored, though a deletion may have taken it since.
SentInv == \A d \in Devices : \A k \in 1..batch[d] : Told(d, listingOutbox[d][k].path)

ListInv == ListTypes /\ OwnInv /\ SentInv /\ Listing!ScannedIsListed

LEMMA ListConstants ==
    /\ Matching \in [Paths -> SUBSET Paths]
    /\ \A p \in Paths : p \in Matching[p]
    /\ "none" \notin Paths
BY Assumptions DEF Listing!ListAssumption

\* A set as a sequence has its elements, and no others.
LEMMA SequenceOf ==
    ASSUME NEW S, IsFiniteSet(S)
    PROVE  /\ Listing!SetToSeq(S) \in Seq(S)
           /\ \A x \in S : \E k \in 1..Len(Listing!SetToSeq(S)) : Listing!SetToSeq(S)[k] = x
<1> DEFINE n == Cardinality(S)
<1>1. n \in Nat /\ ExistsBijection(1..n, S)
  BY FS_CardinalityType
<1>2. PICK g \in Bijection(1..n, S) : TRUE
  BY <1>1 DEF ExistsBijection
<1>3. g \in [1..n -> S] /\ \A a, b \in 1..n : g[a] = g[b] => a = b
  BY <1>2 DEF Bijection, Injection, IsInjective
<1>4. Listing!Cardinality(S) = n
  BY DEF Cardinality, Listing!Cardinality
<1> HIDE DEF n
<1>5. Listing!IsInjective(g)
  BY <1>3 DEF Listing!IsInjective
<1> DEFINE f == Listing!SetToSeq(S)
<1>6. f = CHOOSE h \in [1..n -> S] : Listing!IsInjective(h)
  BY <1>4 DEF Listing!SetToSeq
<1> HIDE DEF f
<1>7. f \in [1..n -> S] /\ Listing!IsInjective(f)
  BY <1>3, <1>5, <1>6
<1>8. f \in Injection(1..n, S)
  BY <1>7 DEF Injection, IsInjective, Listing!IsInjective
<1>9. IsFiniteSet(1..n) /\ Cardinality(1..n) = n
  BY <1>1, FS_Interval
<1>10. f \in Surjection(1..n, S)
  BY <1>8, <1>9, FS_Injection DEF n
<1>11. \A x \in S : \E k \in 1..n : f[k] = x
  BY <1>10 DEF Surjection
<1>12. f \in Seq(S) /\ Len(f) = n
  BY <1>1, <1>7
<1> QED
  BY <1>11, <1>12 DEF f

\* A scan reports every ROM it has news of.
LEMMA FoundIs ==
    ASSUME ListTypes, NEW d \in Devices
    PROVE  /\ Listing!Found(d) \in Seq(Listing!Events)
           /\ \A k \in 1..Len(Listing!Found(d)) : Listing!Found(d)[k].device = d
           /\ \A p \in Listing!News(d) :
                 \E k \in 1..Len(Listing!Found(d)) : Listing!Found(d)[k].path = p
<1> DEFINE found == Listing!SetToSeq(Listing!News(d))
           first == scans * Listing!Cardinality(Paths)
           box == [i \in DOMAIN found |-> [id |-> first + i, device |-> d, path |-> found[i]]]
<1>1. Listing!Found(d) = box
  BY DEF Listing!Found
<1>2. Listing!News(d) \subseteq Paths
  BY DEF Listing!News
<1>3. IsFiniteSet(Listing!News(d)) /\ Cardinality(Paths) \in Nat
  BY <1>2, NetworkAssumption, FS_Subset, FS_CardinalityType
<1>4. /\ found \in Seq(Listing!News(d))
      /\ \A p \in Listing!News(d) : \E k \in 1..Len(found) : found[k] = p
  BY <1>3, SequenceOf
<1>5. first \in Nat
  <2>1. Listing!Cardinality(Paths) = Cardinality(Paths)
    BY DEF Cardinality, Listing!Cardinality
  <2> QED
    BY <1>3, <2>1 DEF ListTypes
<1> HIDE DEF found, first
<1>6. Len(found) \in Nat /\ DOMAIN found = 1..Len(found)
  BY <1>4
<1>7. \A i \in 1..Len(found) : found[i] \in Paths
  BY <1>2, <1>4
<1>8. box = [i \in 1..Len(found) |-> [id |-> first + i, device |-> d, path |-> found[i]]]
  BY <1>6
<1>9. \A i \in 1..Len(found) : box[i] = [id |-> first + i, device |-> d, path |-> found[i]]
  BY <1>8
<1>10. \A i \in 1..Len(found) : box[i] \in Listing!Events
  BY <1>5, <1>7, <1>9 DEF Listing!Events
<1>11. box \in [1..Len(found) -> Listing!Events]
  BY <1>8, <1>10
<1> HIDE DEF box
<1>12. box \in Seq(Listing!Events) /\ Len(box) = Len(found)
  BY <1>6, <1>11
<1>13. ASSUME NEW k \in 1..Len(found)
       PROVE  box[k].device = d /\ box[k].path = found[k]
  <2>1. box[k] = [id |-> first + k, device |-> d, path |-> found[k]]
    BY <1>9
  <2> DEFINE r == [id |-> first + k, device |-> d, path |-> found[k]]
  <2>2. r.device = d /\ r.path = found[k]
    OBVIOUS
  <2> QED
    BY <2>1, <2>2
<1>14. \A p \in Listing!News(d) : \E k \in 1..Len(found) : box[k].path = p
  BY <1>4, <1>13
<1> QED
  BY <1>1, <1>12, <1>13, <1>14

\* What is neither stored nor under way is not lost: such a step keeps the list right.
LEMMA ListKeeps ==
    ASSUME ListInv, UNCHANGED <<games, listingOutbox, batch, listingRows, swept>>
    PROVE  OwnInv' /\ SentInv' /\ Listing!ScannedIsListed'
  BY DEF ListInv, OwnInv, SentInv, Told, Listing!ScannedIsListed, Listing!Listed,
         Listing!Underway

LEMMA ListScan ==
    ASSUME ListInv, NEW d \in Devices, Listing!Scan(d)
    PROVE  ListInv'
<1> DEFINE box == listingOutbox[d]
           more == Listing!Found(d)
<1>1. ListTypes
  BY DEF ListInv
<1>2. /\ more \in Seq(Listing!Events)
      /\ \A k \in 1..Len(more) : more[k].device = d
      /\ \A p \in Listing!News(d) : \E k \in 1..Len(more) : more[k].path = p
  BY <1>1, FoundIs
<1>3. box \in Seq(Listing!Events) /\ Len(box) \in Nat
  BY <1>1 DEF ListTypes
<1>4. /\ listingOutbox' = [listingOutbox EXCEPT ![d] = box \o more]
      /\ games' = [games EXCEPT ![d] =
                     [p \in Paths |-> IF p \in Listing!News(d) THEN card[d][p] ELSE games[d][p]]]
      /\ scans' = scans + 1
      /\ UNCHANGED <<card, batch, listingRows, wanted, swept, unmet, sweeping, listingAnswer>>
  BY DEF Listing!Scan
<1> HIDE DEF more
<1> DEFINE new == box \o more
<1>5. /\ new \in Seq(Listing!Events) /\ Len(new) = Len(box) + Len(more)
      /\ Len(more) \in Nat
      /\ \A k \in 1..Len(box) : new[k] = box[k]
      /\ \A k \in 1..Len(more) : new[Len(box) + k] = more[k]
  BY <1>2, <1>3
<1> HIDE DEF new
<1>6. \A e \in Devices : listingOutbox'[e] = IF e = d THEN new ELSE listingOutbox[e]
  BY <1>1, <1>4 DEF ListTypes, new
<1>7. ListTypes'
  <2>1. [p \in Paths |-> IF p \in Listing!News(d) THEN card[d][p] ELSE games[d][p]]
          \in [Paths -> Sizes \union {0}]
    BY <1>1 DEF ListTypes
  <2>2. games' \in [Devices -> [Paths -> Sizes \union {0}]]
    BY <1>1, <1>4, <2>1 DEF ListTypes
  <2>3. listingOutbox' \in [Devices -> Seq(Listing!Events)]
    BY <1>1, <1>4, <1>5 DEF ListTypes, new
  <2>4. \A e \in Devices : batch[e] <= Len(listingOutbox'[e])
    <3>1. \A e \in Devices : batch[e] \in Nat /\ batch[e] <= Len(listingOutbox[e])
      BY <1>1 DEF ListTypes
    <3>2. batch[d] <= Len(new)
      BY <1>3, <1>5, <3>1
    <3> QED
      BY <1>6, <3>1, <3>2
  <2>5. scans' \in Nat
    BY <1>1, <1>4 DEF ListTypes
  <2> QED
    BY <1>1, <1>4, <2>2, <2>3, <2>4, <2>5 DEF ListTypes
<1>8. OwnInv'
  <2>1. \A k \in 1..Len(new) : k \in 1..Len(box) \/ (k - Len(box) \in 1..Len(more)
                                                     /\ k = Len(box) + (k - Len(box)))
    BY <1>3, <1>5
  <2>2. \A k \in 1..Len(box) : box[k].device = d
    BY DEF ListInv, OwnInv
  <2>3. ASSUME NEW k \in 1..Len(new) PROVE new[k].device = d
    <3>1. CASE k \in 1..Len(box)
      BY <1>5, <2>2, <3>1
    <3>2. ASSUME NEW j \in 1..Len(more), k = Len(box) + j PROVE new[k].device = d
      BY <1>2, <1>5, <3>2
    <3> QED
      BY <2>1, <3>1, <3>2
  <2> QED
    BY <1>6, <2>3 DEF ListInv, OwnInv
<1>9. SentInv'
  <2>1. \A k \in 1..batch[d] : k \in 1..Len(box)
    BY <1>1, <1>3 DEF ListTypes
  <2>2. ASSUME NEW e \in Devices, NEW k \in 1..batch[e]
        PROVE  listingOutbox'[e][k] = listingOutbox[e][k]
    BY <1>5, <1>6, <2>1, <2>2
  <2>3. \A e \in Devices, p \in Paths : Told(e, p) => Told(e, p)'
    BY <1>4 DEF Told, Listing!Listed
  <2>4. ASSUME NEW e \in Devices, NEW k \in 1..batch[e]
        PROVE  Told(e, listingOutbox[e][k].path)'
    <3>1. k \in 1..Len(listingOutbox[e]) /\ listingOutbox[e] \in Seq(Listing!Events)
      BY <1>1 DEF ListTypes
    <3>2. listingOutbox[e][k] \in Listing!Events
      BY <3>1, ElementOfSeq
    <3>3. listingOutbox[e][k].path \in Paths
      BY <3>2 DEF Listing!Events
    <3>4. Told(e, listingOutbox[e][k].path)
      BY DEF ListInv, SentInv
    <3> QED
      BY <2>2, <2>3, <3>3, <3>4
  <2> QED
    BY <1>4, <2>4 DEF SentInv
<1>10. Listing!ScannedIsListed'
  <2>1. ASSUME NEW e \in Devices, NEW p \in Paths, Listing!Underway(e, p)
        PROVE  Listing!Underway(e, p)'
    <3>1. listingOutbox[e] \in Seq(Listing!Events)
      BY <1>1 DEF ListTypes
    <3>2. PICK k \in 1..Len(listingOutbox[e]) : listingOutbox[e][k].path = p
      BY <2>1, <3>1 DEF Listing!Underway, Listing!Range
    <3>3. k \in 1..Len(listingOutbox'[e]) /\ listingOutbox'[e][k].path = p
      <4>1. e = d => k \in 1..Len(box) /\ k \in 1..Len(new) /\ new[k] = box[k]
        BY <1>3, <1>5, <3>2
      <4> QED
        BY <1>6, <3>2, <4>1
    <3>4. listingOutbox'[e] \in Seq(Listing!Events)
      BY <1>5, <1>6, <3>1
    <3> QED
      BY <3>3, <3>4 DEF Listing!Underway, Listing!Range
  <2>2. ASSUME NEW p \in Listing!News(d)
        PROVE  Listing!Underway(d, p)'
    <3>1. PICK k \in 1..Len(more) : more[k].path = p
      BY <1>2, <2>2
    <3>2. Len(box) + k \in 1..Len(new) /\ new[Len(box) + k].path = p
      BY <1>3, <1>5, <3>1
    <3>3. DOMAIN new = 1..Len(new)
      BY <1>5
    <3> QED
      BY <1>6, <3>2, <3>3 DEF Listing!Underway, Listing!Range
  <2>3. ASSUME NEW e \in Devices, NEW p \in Paths, e # d \/ p \notin Listing!News(d)
        PROVE  games'[e][p] = games[e][p]
    BY <1>1, <1>4, <2>3 DEF ListTypes
  <2>4. \A e \in Devices, p \in Paths : Listing!Listed(e, p)' = Listing!Listed(e, p)
    BY <1>4 DEF Listing!Listed
  <2>5. ASSUME NEW e \in Devices, NEW p \in Paths, games'[e][p] # 0, <<e, p>> \notin swept'
        PROVE  (Listing!Listed(e, p) \/ Listing!Underway(e, p))'
    <3>1. CASE e = d /\ p \in Listing!News(d)
      BY <2>2, <3>1
    <3>2. CASE e # d \/ p \notin Listing!News(d)
      <4>1. Listing!Listed(e, p) \/ Listing!Underway(e, p)
        BY <1>4, <2>3, <2>5, <3>2 DEF ListInv, Listing!ScannedIsListed, Listing!Absent
      <4> QED
        BY <2>1, <2>4, <4>1
    <3> QED
      BY <3>1, <3>2
  <2> QED
    BY <2>5 DEF Listing!ScannedIsListed, Listing!Absent
<1> QED
  BY <1>7, <1>8, <1>9, <1>10 DEF ListInv

LEMMA ListStore ==
    ASSUME ListInv, NEW d \in Devices, Listing!Store(d)
    PROVE  ListInv'
<1> DEFINE box == listingOutbox[d]
           new == {event \in Listing!Range(box) : Listing!Fresh(event)}
<1>1. ListTypes
  BY DEF ListInv
<1>2. /\ batch[d] = 0
      /\ batch' = [batch EXCEPT ![d] = Len(box)]
      /\ listingRows' = listingRows \union new
      /\ swept' = swept \ {<<d, event.path>> : event \in new}
      /\ UNCHANGED <<card, games, listingOutbox, wanted, unmet, sweeping, listingAnswer, scans>>
  BY DEF Listing!Store
<1>3. box \in Seq(Listing!Events) /\ Len(box) \in Nat /\ Listing!Range(box) \subseteq Listing!Events
  BY <1>1 DEF ListTypes, Listing!Range
<1>4. new \subseteq Listing!Range(box)
  OBVIOUS
<1>5. \A event \in Listing!Range(box) :
         event \in listingRows' /\ event.device = d
  <2>1. \A event \in Listing!Range(box) : event \in listingRows \/ event \in new
    BY DEF Listing!Fresh
  <2>2. \A k \in 1..Len(box) : box[k].device = d
    BY DEF ListInv, OwnInv
  <2> QED
    BY <1>2, <1>3, <2>1, <2>2 DEF Listing!Range
<1> HIDE DEF new
<1>6. ListTypes'
  <2>1. swept' \subseteq Devices \X Paths /\ listingRows' \subseteq Listing!Events
    BY <1>1, <1>2, <1>3, <1>4 DEF ListTypes
  <2>2. batch' \in [Devices -> Nat] /\ \A e \in Devices : batch'[e] <= Len(listingOutbox[e])
    BY <1>1, <1>2, <1>3 DEF ListTypes
  <2> QED
    BY <1>1, <1>2, <2>1, <2>2 DEF ListTypes
<1>7. OwnInv'
  BY <1>2 DEF ListInv, OwnInv
<1>8. \A k \in 1..Len(box) : Listing!Listed(d, box[k].path)'
  <2>1. \A k \in 1..Len(box) : box[k] \in Listing!Range(box)
    BY <1>3 DEF Listing!Range
  <2> QED
    BY <1>2, <1>5, <2>1 DEF Listing!Listed
<1>9. \A e \in Devices, p \in Paths : Listing!Listed(e, p) => Listing!Listed(e, p)'
  BY <1>2 DEF Listing!Listed
<1>10. \A event \in new : Listing!Listed(d, event.path)'
  BY <1>4, <1>5 DEF Listing!Listed
<1>11. \A e \in Devices, p \in Paths : Told(e, p) => Told(e, p)'
  <2>1. ASSUME NEW e \in Devices, NEW p \in Paths, <<e, p>> \in swept, <<e, p>> \notin swept'
        PROVE  Listing!Listed(e, p)'
    <3>1. PICK event \in new : <<e, p>> = <<d, event.path>>
      BY <1>2, <2>1
    <3> QED
      BY <1>10, <3>1
  <2> QED
    BY <1>9, <2>1 DEF Told
<1>12. SentInv'
  <2>1. ASSUME NEW e \in Devices, e # d, NEW k \in 1..batch[e]
        PROVE  Told(e, listingOutbox[e][k].path)'
    <3>1. k \in 1..Len(listingOutbox[e]) /\ listingOutbox[e] \in Seq(Listing!Events)
      BY <1>1 DEF ListTypes
    <3>2. listingOutbox[e][k] \in Listing!Events
      BY <3>1, ElementOfSeq
    <3>3. listingOutbox[e][k].path \in Paths
      BY <3>2 DEF Listing!Events
    <3>4. Told(e, listingOutbox[e][k].path)
      BY DEF ListInv, SentInv
    <3> QED
      BY <1>2, <1>11, <3>3, <3>4
  <2>2. \A e \in Devices : batch'[e] = IF e = d THEN Len(box) ELSE batch[e]
    BY <1>1, <1>2 DEF ListTypes
  <2>3. \A k \in 1..Len(box) : Told(d, listingOutbox[d][k].path)'
    BY <1>8 DEF Told
  <2>4. \A e \in Devices : \A k \in 1..batch'[e] : Told(e, listingOutbox[e][k].path)'
    BY <2>1, <2>2, <2>3
  <2> QED
    BY <1>2, <2>4 DEF SentInv
<1>13. Listing!ScannedIsListed'
  <2>1. \A e \in Devices, p \in Paths : Listing!Underway(e, p)' = Listing!Underway(e, p)
    BY <1>2 DEF Listing!Underway
  <2>2. ASSUME NEW e \in Devices, NEW p \in Paths, games'[e][p] # 0, <<e, p>> \notin swept'
        PROVE  (Listing!Listed(e, p) \/ Listing!Underway(e, p))'
    <3>1. games[e][p] # 0
      BY <1>2, <2>2
    <3>2. CASE <<e, p>> \in swept
      BY <1>11, <2>2, <3>2 DEF Told
    <3>3. CASE <<e, p>> \notin swept
      BY <1>9, <2>1, <3>1, <3>3 DEF ListInv, Listing!ScannedIsListed, Listing!Absent
    <3> QED
      BY <3>2, <3>3
  <2> QED
    BY <2>2 DEF Listing!ScannedIsListed, Listing!Absent
<1> QED
  BY <1>6, <1>7, <1>12, <1>13 DEF ListInv

LEMMA RestOf ==
    ASSUME NEW S, NEW s \in Seq(S), NEW n \in Nat, n <= Len(s)
    PROVE  /\ SubSeq(s, n + 1, Len(s)) \in Seq(S)
           /\ Len(SubSeq(s, n + 1, Len(s))) = Len(s) - n
           /\ \A i \in 1..Len(s) - n : SubSeq(s, n + 1, Len(s))[i] = s[n + i]
<1> DEFINE r == SubSeq(s, n + 1, Len(s))
<1>1. Len(s) \in Nat /\ n + 1 \in Int
  OBVIOUS
<1>2. \A i \in n + 1..Len(s) : s[i] \in S
  OBVIOUS
<1>3. /\ r \in Seq(S)
      /\ Len(r) = IF n + 1 <= Len(s) THEN Len(s) - (n + 1) + 1 ELSE 0
      /\ \A i \in 1..Len(s) - (n + 1) + 1 : r[i] = s[n + 1 + i - 1]
  BY <1>1, <1>2, SubSeqProperties
<1> HIDE DEF r
<1>4. Len(r) = Len(s) - n
  BY <1>1, <1>3
<1>5. ASSUME NEW i \in 1..Len(s) - n PROVE r[i] = s[n + i]
  <2>1. i \in 1..Len(s) - (n + 1) + 1 /\ n + 1 + i - 1 = n + i
    BY <1>1
  <2> QED
    BY <1>3, <2>1
<1> QED
  BY <1>3, <1>4, <1>5 DEF r

LEMMA ListConfirm ==
    ASSUME ListInv, NEW d \in Devices, Listing!Confirm(d)
    PROVE  ListInv'
<1> DEFINE box == listingOutbox[d]
           n == batch[d]
           rest == SubSeq(box, n + 1, Len(box))
<1>1. ListTypes
  BY DEF ListInv
<1>2. /\ listingOutbox' = [listingOutbox EXCEPT ![d] = rest]
      /\ batch' = [batch EXCEPT ![d] = 0]
      /\ UNCHANGED <<card, games, listingRows, swept, wanted, unmet, sweeping, listingAnswer, scans>>
  BY DEF Listing!Confirm, Listing!Marked
<1>3. box \in Seq(Listing!Events) /\ Len(box) \in Nat /\ n \in Nat /\ n <= Len(box)
  BY <1>1 DEF ListTypes
<1>4. /\ rest \in Seq(Listing!Events) /\ Len(rest) = Len(box) - n
      /\ \A i \in 1..Len(box) - n : rest[i] = box[n + i]
  BY <1>3, RestOf
<1> HIDE DEF rest
<1>5. \A e \in Devices : /\ listingOutbox'[e] = IF e = d THEN rest ELSE listingOutbox[e]
                         /\ batch'[e] = IF e = d THEN 0 ELSE batch[e]
  BY <1>1, <1>2 DEF ListTypes
<1>6. ListTypes'
  <2>1. listingOutbox' \in [Devices -> Seq(Listing!Events)] /\ batch' \in [Devices -> Nat]
    BY <1>1, <1>2, <1>4 DEF ListTypes
  <2>2. ASSUME NEW e \in Devices PROVE batch'[e] <= Len(listingOutbox'[e])
    <3>1. batch[e] <= Len(listingOutbox[e]) /\ 0 <= Len(rest)
      BY <1>1, <1>3, <1>4 DEF ListTypes
    <3> QED
      BY <1>5, <3>1
  <2> QED
    BY <1>1, <1>2, <2>1, <2>2 DEF ListTypes
<1>7. OwnInv'
  <2>1. ASSUME NEW k \in 1..Len(rest) PROVE rest[k].device = d
    <3>1. n + k \in 1..Len(box) /\ rest[k] = box[n + k]
      BY <1>3, <1>4
    <3> QED
      BY <3>1 DEF ListInv, OwnInv
  <2> QED
    BY <1>5, <2>1 DEF ListInv, OwnInv
<1>8. \A e \in Devices, p \in Paths : Told(e, p)' = Told(e, p)
  BY <1>2 DEF Told, Listing!Listed
<1>9. SentInv'
  <2>1. ASSUME NEW e \in Devices, e # d, NEW k \in 1..batch[e]
        PROVE  Told(e, listingOutbox[e][k].path)
    BY DEF ListInv, SentInv
  <2>2. ASSUME NEW e \in Devices, NEW k \in 1..batch'[e]
        PROVE  <<e, listingOutbox'[e][k].path>> \in swept
                 \/ Listing!Listed(e, listingOutbox'[e][k].path)
    BY <1>5, <2>1, <2>2 DEF Told
  <2> QED
    BY <1>2, <2>2 DEF SentInv, Told, Listing!Listed
<1>10. Listing!ScannedIsListed'
  <2>1. ASSUME NEW p \in Paths, Listing!Underway(d, p), ~Told(d, p)
        PROVE  Listing!Underway(d, p)'
    <3>1. PICK k \in 1..Len(box) : box[k].path = p
      BY <1>3, <2>1 DEF Listing!Underway, Listing!Range
    <3>2. k \notin 1..n
      BY <2>1, <3>1 DEF ListInv, SentInv
    <3>3. k - n \in 1..Len(rest) /\ rest[k - n] = box[k]
      <4>1. k - n \in 1..Len(box) - n /\ n + (k - n) = k
        BY <1>3, <3>2
      <4> QED
        BY <1>4, <4>1
    <3>4. DOMAIN rest = 1..Len(rest)
      BY <1>4
    <3>5. rest[k - n] \in Listing!Range(rest) /\ rest[k - n].path = p
      BY <3>1, <3>3, <3>4 DEF Listing!Range
    <3> QED
      BY <1>5, <3>5 DEF Listing!Underway
  <2>2. \A e \in Devices, p \in Paths : e # d => Listing!Underway(e, p)' = Listing!Underway(e, p)
    BY <1>5 DEF Listing!Underway
  <2>3. ASSUME NEW e \in Devices, NEW p \in Paths, games'[e][p] # 0, <<e, p>> \notin swept'
        PROVE  (Listing!Listed(e, p) \/ Listing!Underway(e, p))'
    <3>1. <<e, p>> \notin swept /\ (Listing!Listed(e, p) \/ Listing!Underway(e, p))
      BY <1>2, <2>3 DEF ListInv, Listing!ScannedIsListed, Listing!Absent
    <3>2. CASE Listing!Listed(e, p)
      BY <1>2, <3>2 DEF Listing!Listed
    <3>3. CASE ~Listing!Listed(e, p)
      BY <2>1, <2>2, <3>1, <3>3 DEF Told
    <3> QED
      BY <3>2, <3>3
  <2> QED
    BY <2>3 DEF Listing!ScannedIsListed, Listing!Absent
<1> QED
  BY <1>6, <1>7, <1>9, <1>10 DEF ListInv

LEMMA ListSweep ==
    ASSUME ListInv, Listing!Sweep
    PROVE  ListInv'
<1>1. ListTypes
  BY DEF ListInv
<1>2. PICK rom \in sweeping :
         /\ listingRows' = {event \in listingRows : event.path \notin Matching[rom[2]]}
         /\ swept' = swept \union (Devices \X Matching[rom[2]])
  BY DEF Listing!Sweep, Listing!Matched
<1>3. /\ unmet' = {gone \in unmet : Listing!Listed(gone[1], gone[2])'} /\ sweeping' = {}
      /\ UNCHANGED <<card, games, listingOutbox, batch, wanted, listingAnswer, scans>>
  BY DEF Listing!Sweep
<1>4. rom[2] \in Paths /\ Matching[rom[2]] \subseteq Paths
  BY <1>1, ListConstants DEF ListTypes
<1>5. ListTypes'
  <2>1. swept' \subseteq Devices \X Paths /\ unmet' \subseteq unmet
    BY <1>1, <1>2, <1>3, <1>4 DEF ListTypes
  <2> QED
    BY <1>1, <1>2, <1>3, <2>1 DEF ListTypes
<1>6. OwnInv'
  BY <1>3 DEF ListInv, OwnInv
<1>7. \A e \in Devices, p \in Paths :
         Listing!Listed(e, p) => <<e, p>> \in swept' \/ Listing!Listed(e, p)'
  BY <1>2 DEF Listing!Listed
<1>8. \A e \in Devices, p \in Paths : Told(e, p) => Told(e, p)'
  BY <1>2, <1>7 DEF Told
<1>9. SentInv'
  <2>1. ASSUME NEW e \in Devices, NEW k \in 1..batch[e]
        PROVE  Told(e, listingOutbox[e][k].path)'
    <3>1. k \in 1..Len(listingOutbox[e]) /\ listingOutbox[e] \in Seq(Listing!Events)
      BY <1>1 DEF ListTypes
    <3>2. listingOutbox[e][k] \in Listing!Events
      BY <3>1, ElementOfSeq
    <3>3. listingOutbox[e][k].path \in Paths
      BY <3>2 DEF Listing!Events
    <3>4. Told(e, listingOutbox[e][k].path)
      BY DEF ListInv, SentInv
    <3> QED
      BY <1>3, <1>8, <3>3, <3>4
  <2> QED
    BY <1>3, <2>1 DEF SentInv
<1>10. Listing!ScannedIsListed'
  <2>1. ASSUME NEW e \in Devices, NEW p \in Paths, games'[e][p] # 0, <<e, p>> \notin swept'
        PROVE  (Listing!Listed(e, p) \/ Listing!Underway(e, p))'
    <3>1. Listing!Listed(e, p) \/ Listing!Underway(e, p)
      BY <1>2, <1>3, <2>1 DEF ListInv, Listing!ScannedIsListed, Listing!Absent
    <3>2. Listing!Underway(e, p) => Listing!Underway(e, p)'
      BY <1>3 DEF Listing!Underway
    <3> QED
      BY <1>7, <2>1, <3>1, <3>2
  <2> QED
    BY <2>1 DEF Listing!ScannedIsListed, Listing!Absent
<1> QED
  BY <1>5, <1>6, <1>9, <1>10 DEF ListInv

LEMMA ListStep ==
    ASSUME ListInv, Listing!Next
    PROVE  ListInv'
<1>1. ListTypes
  BY DEF ListInv
<1>2. ASSUME NEW d \in Devices, Listing!Unconfirmed(d)
      PROVE  ListInv'
  <2>1. /\ batch' = [batch EXCEPT ![d] = 0]
        /\ UNCHANGED <<card, games, listingOutbox, listingRows, swept, wanted, unmet, sweeping,
                       listingAnswer, scans>>
    BY <1>2 DEF Listing!Unconfirmed
  <2>2. ListTypes'
    BY <1>1, <2>1 DEF ListTypes
  <2>3. SentInv'
    BY <1>1, <2>1 DEF ListInv, ListTypes, SentInv, Told, Listing!Listed
  <2>4. OwnInv' /\ Listing!ScannedIsListed'
    BY <2>1 DEF ListInv, OwnInv, Listing!ScannedIsListed, Listing!Listed, Listing!Underway
  <2> QED
    BY <2>2, <2>3, <2>4 DEF ListInv
<1>3. ASSUME UNCHANGED <<games, listingOutbox, batch, listingRows, swept>>, ListTypes'
      PROVE  ListInv'
  BY <1>3, ListKeeps DEF ListInv
<1>4. Listing!NoAnswer \in [path : Paths \union {"none"}, ok : BOOLEAN]
  BY DEF Listing!NoAnswer
<1>5. ASSUME NEW d \in Devices, NEW p \in Paths, Listing!Change(d, p)
      PROVE  ListInv'
  <2>1. PICK s \in Sizes \union {0} : card' = [card EXCEPT ![d][p] = s]
    BY <1>5 DEF Listing!Change, Listing!Absent
  <2>2. card' \in [Devices -> [Paths -> Sizes \union {0}]]
    BY <1>1, <2>1 DEF ListTypes
  <2>3. ListTypes'
    BY <1>1, <1>5, <2>2 DEF ListTypes, Listing!Change
  <2> QED
    BY <1>3, <1>5, <2>3 DEF Listing!Change
<1>6. ASSUME NEW d \in Devices, NEW p \in Paths, Listing!Request(d, p)
      PROVE  ListInv'
  <2>1. ListTypes'
    BY <1>1, <1>6 DEF ListTypes, Listing!Request
  <2> QED
    BY <1>3, <1>6, <2>1 DEF Listing!Request
<1>7. ASSUME NEW d \in Devices, NEW p \in Paths, Listing!DeleteOne(d, p)
      PROVE  ListInv'
  <2>1. card' \in [Devices -> [Paths -> Sizes \union {0}]]
    BY <1>1, <1>7 DEF ListTypes, Listing!DeleteOne, Listing!Absent
  <2>2. [path |-> p, ok |-> TRUE] \in [path : Paths \union {"none"}, ok : BOOLEAN]
    OBVIOUS
  <2>3. ListTypes'
    BY <1>1, <1>7, <2>1, <2>2 DEF ListTypes, Listing!DeleteOne
  <2> QED
    BY <1>3, <1>7, <2>3 DEF Listing!DeleteOne
<1>8. ASSUME NEW d \in Devices, NEW p \in Paths, Listing!DeleteFails(d, p)
      PROVE  ListInv'
  <2>1. [path |-> p, ok |-> FALSE] \in [path : Paths \union {"none"}, ok : BOOLEAN]
    OBVIOUS
  <2>2. ListTypes'
    BY <1>1, <1>8, <2>1 DEF ListTypes, Listing!DeleteFails
  <2> QED
    BY <1>3, <1>8, <2>2 DEF Listing!DeleteFails
<1>9. ASSUME NEW d \in Devices, Listing!Ack(d)
      PROVE  ListInv'
  <2>1. listingAnswer[d].path \in Paths
    BY <1>1, <1>9 DEF ListTypes, Listing!Ack
  <2>2. ListTypes'
    BY <1>1, <1>4, <1>9, <2>1 DEF ListTypes, Listing!Ack
  <2> QED
    BY <1>3, <1>9, <2>2 DEF Listing!Ack
<1>10. ASSUME NEW d \in Devices, Listing!AckLost(d)
       PROVE  ListInv'
  <2>1. ListTypes'
    BY <1>1, <1>4, <1>10 DEF ListTypes, Listing!AckLost
  <2> QED
    BY <1>3, <1>10, <2>1 DEF Listing!AckLost
<1>11. CASE Listing!SweepFails
  <2>1. ListTypes'
    BY <1>1, <1>11 DEF ListTypes, Listing!SweepFails
  <2> QED
    BY <1>3, <1>11, <2>1 DEF Listing!SweepFails
<1> QED
  BY <1>2, <1>5, <1>6, <1>7, <1>8, <1>9, <1>10, <1>11, ListScan, ListStore, ListConfirm, ListSweep
     DEF Listing!Next, Listing!Synchronise, Listing!Cleanup

LEMMA ListStart == Listing!Init => ListInv
<1> SUFFICES ASSUME Listing!Init PROVE ListInv
  OBVIOUS
<1> USE DEF Listing!Init, Listing!Absent
<1>1. ListTypes
  <2>1. <<>> \in Seq(Listing!Events) /\ Len(<<>>) = 0
    OBVIOUS
  <2>2. Listing!NoAnswer \in [path : Paths \union {"none"}, ok : BOOLEAN]
    BY DEF Listing!NoAnswer
  <2> QED
    BY <2>1, <2>2 DEF ListTypes
<1>2. OwnInv /\ SentInv
  BY DEF OwnInv, SentInv
<1>3. Listing!ScannedIsListed
  BY DEF Listing!ScannedIsListed
<1> QED
  BY <1>1, <1>2, <1>3 DEF ListInv

LEMMA ListAgrees == ListInv => Listing!TypeOK /\ Listing!ScannedIsListed
<1> SUFFICES ASSUME ListInv PROVE Listing!TypeOK
  BY DEF ListInv
<1>1. \A d \in Devices : /\ listingOutbox[d] \in Seq(Listing!Events)
                         /\ batch[d] \in 0..Len(listingOutbox[d])
  BY DEF ListInv, ListTypes
<1>2. \A d \in Devices : listingAnswer[d].path \in Paths \union {"none"}
  BY DEF ListInv, ListTypes
<1> QED
  BY <1>1, <1>2 DEF ListInv, ListTypes, Listing!TypeOK, Listing!Absent, Listing!Roms

-----------------------------------------------------------------------------
(* Activity feed (activity.rs, events_batch in routes.rs)                  *)

Reports == [run : Runs, script : Scripts, kind : {"begin", "progress", "end"}, at : Nat]
Activities == [script : Scripts, at : Nat, running : BOOLEAN, end : Runs \union {"no run"}]

FeedTypes ==
    /\ clock \in 0..MaxTime /\ sent \in 0..MaxProgress
    /\ script \in [Runs -> Scripts \union {"none"}]
    /\ status \in [Runs -> {"new", "running", "over", "killed"}]
    /\ told \subseteq Runs /\ missed \subseteq Runs /\ skipped \subseteq Runs
    /\ feedOutbox \in Seq(Reports) /\ feedRows \in Seq(Activities)
    /\ \A i \in 1..Len(feedRows) : feedRows[i].running <=> feedRows[i].end = "no run"

IsUnderway(r, kind) ==
    \E k \in 1..Len(feedOutbox) : feedOutbox[k].run = r /\ feedOutbox[k].kind = kind

\* A run reports its begin first and its end last, and the end only once.
ReportInv ==
    /\ \A k \in 1..Len(feedOutbox) :
          /\ feedOutbox[k].script = script[feedOutbox[k].run]
          /\ feedOutbox[k].run \notin told
    /\ \A k \in 1..Len(feedOutbox) : \A j \in 1..k - 1 :
          feedOutbox[j].run = feedOutbox[k].run =>
              feedOutbox[j].kind # "end" /\ feedOutbox[k].kind # "begin"
    /\ \A r \in Runs :
          /\ script[r] = "none" <=> status[r] = "new"
          /\ (r \in told \/ IsUnderway(r, "end")) <=> status[r] = "over"

\* The end of a run is in one row, from when the server was told, or was skipped.
OutcomeInv ==
    /\ \A i \in 1..Len(feedRows) : feedRows[i].end # "no run" => feedRows[i].end \in told
    /\ \A r \in told \ skipped : \E i \in 1..Len(feedRows) :
          Feed!EndsOf(r) = {i} /\ feedRows[i].script = script[r]

\* Runs the server knows to have begun and not to have ended.
Active(name) == {r \in Runs : script[r] = name /\ r \notin told /\ ~IsUnderway(r, "begin")}
Open(name) == {i \in 1..Len(feedRows) : feedRows[i].script = name /\ feedRows[i].running}

\* A script has no more running rows than runs, unless a report of one of them missed its
\* row or its end was skipped.
CountInv ==
    \A name \in Scripts :
        /\ IsFiniteSet(Active(name))
        /\ (\E r \in missed \union skipped : script[r] = name)
             \/ Cardinality(Open(name)) <= Cardinality(Active(name))

FeedInv == FeedTypes /\ ReportInv /\ OutcomeInv /\ CountInv

\* What a report is in the sequence of reports, and a row in the table.
LEMMA FeedElements ==
    ASSUME FeedTypes
    PROVE  /\ Len(feedOutbox) \in Nat /\ Len(feedRows) \in Nat
           /\ \A k \in 1..Len(feedOutbox) : feedOutbox[k] \in Reports
           /\ \A i \in 1..Len(feedRows) : feedRows[i] \in Activities
<1>1. feedOutbox \in Seq(Reports) /\ feedRows \in Seq(Activities)
  BY DEF FeedTypes
<1>2. Len(feedOutbox) \in Nat /\ Len(feedRows) \in Nat
  BY <1>1
<1>3. \A k \in 1..Len(feedOutbox) : feedOutbox[k] \in Reports
  BY <1>1, ElementOfSeq
<1>4. \A i \in 1..Len(feedRows) : feedRows[i] \in Activities
  BY <1>1, ElementOfSeq
<1> QED
  BY <1>2, <1>3, <1>4

\* A report joins the end of the outbox, and the run has its script.
LEMMA FeedReport ==
    ASSUME FeedInv, NEW r \in Runs, NEW name \in Scripts, NEW kind \in {"begin", "progress", "end"},
           status[r] \in {"new", "running"}, kind = "begin" <=> status[r] = "new",
           status[r] # "new" => script[r] = name,
           feedOutbox' = Append(feedOutbox, Feed!Report(r, name, kind)),
           script' = [script EXCEPT ![r] = name],
           status' = [status EXCEPT ![r] = IF kind = "end" THEN "over" ELSE "running"],
           sent' \in 0..MaxProgress,
           UNCHANGED <<clock, feedRows, told, missed, skipped>>
    PROVE  FeedInv'
<1> DEFINE new == Feed!Report(r, name, kind)
           n == Len(feedOutbox)
<1>1. FeedTypes /\ ReportInv /\ OutcomeInv /\ CountInv
  BY DEF FeedInv
<1>2. /\ n \in Nat
      /\ \A k \in 1..n : feedOutbox[k] \in Reports
  BY <1>1, FeedElements
<1>3. new \in Reports /\ new.run = r /\ new.script = name /\ new.kind = kind
  <2>1. clock \in Nat
    <3>1. clock \in 0..MaxTime
      BY <1>1 DEF FeedTypes
    <3>2. MaxTime \in Nat
      BY Bounds
    <3> QED
      BY <3>1, <3>2
  <2>2. new = [run |-> r, script |-> name, kind |-> kind, at |-> clock]
    BY DEF Feed!Report
  <2> HIDE DEF new
  <2> QED
    BY <2>1, <2>2 DEF Reports
<1> HIDE DEF new
<1>4. /\ feedOutbox' \in Seq(Reports) /\ Len(feedOutbox') = n + 1
      /\ \A k \in 1..n : feedOutbox'[k] = feedOutbox[k]
      /\ feedOutbox'[n + 1] = new
  <2>1. feedOutbox \in Seq(Reports) /\ feedOutbox' = Append(feedOutbox, new)
    BY <1>1 DEF FeedTypes, new
  <2> QED
    BY <1>3, <2>1
<1> HIDE DEF n
<1>5. \A k \in 1..n + 1 : k \in 1..n \/ k = n + 1
  BY <1>2
<1>6. FeedTypes'
  <2>1. script' \in [Runs -> Scripts \union {"none"}]
    BY <1>1 DEF FeedTypes
  <2>2. status' \in [Runs -> {"new", "running", "over", "killed"}]
    BY <1>1 DEF FeedTypes
  <2> QED
    BY <1>1, <1>4, <2>1, <2>2 DEF FeedTypes
<1>7. \A q \in Runs : /\ script'[q] = IF q = r THEN name ELSE script[q]
                      /\ q # r => status'[q] = status[q]
                      /\ q = r => status'[q] = IF kind = "end" THEN "over" ELSE "running"
  BY <1>1 DEF FeedTypes
<1>8. \A k \in 1..n : feedOutbox[k].run = r => status[r] = "running"
  <2> SUFFICES ASSUME NEW k \in 1..n, feedOutbox[k].run = r PROVE status[r] # "new"
    OBVIOUS
  <2>1. feedOutbox[k].script \in Scripts
    BY <1>2 DEF Reports
  <2>2. script[r] \in Scripts
    BY <1>1, <2>1 DEF ReportInv, n
  <2> QED
    BY <1>1, <2>2, NetworkAssumption DEF ReportInv
<1>9. ASSUME NEW q \in Runs, NEW what \in {"begin", "end"}
      PROVE  IsUnderway(q, what)' <=> IsUnderway(q, what) \/ (q = r /\ what = kind)
  <2>1. IsUnderway(q, what)' <=> \E k \in 1..n + 1 : feedOutbox'[k].run = q /\ feedOutbox'[k].kind = what
    BY <1>4 DEF IsUnderway
  <2>2. IsUnderway(q, what) <=> \E k \in 1..n : feedOutbox[k].run = q /\ feedOutbox[k].kind = what
    BY DEF IsUnderway, n
  <2>3. n + 1 \in 1..n + 1 /\ \A k \in 1..n : k \in 1..n + 1
    BY <1>2
  <2> QED
    BY <1>3, <1>4, <1>5, <2>1, <2>2, <2>3
<1>10. r \notin told /\ ~IsUnderway(r, "end")
  BY <1>1 DEF ReportInv
<1>11. ReportInv'
  <2>1. ASSUME NEW k \in 1..n + 1
        PROVE  /\ feedOutbox'[k].script = script'[feedOutbox'[k].run]
               /\ feedOutbox'[k].run \notin told
    <3>1. CASE k \in 1..n
      <4>1. /\ feedOutbox[k].script = script[feedOutbox[k].run]
            /\ feedOutbox[k].run \notin told
        BY <1>1, <3>1 DEF ReportInv, n
      <4>2. feedOutbox[k].run \in Runs
        BY <1>2, <3>1 DEF Reports
      <4> QED
        BY <1>4, <1>7, <1>8, <3>1, <4>1, <4>2
    <3>2. CASE k = n + 1
      BY <1>3, <1>4, <1>7, <1>10, <3>2
    <3> QED
      BY <1>5, <3>1, <3>2
  <2>2. ASSUME NEW k \in 1..n + 1, NEW j \in 1..k - 1, feedOutbox'[j].run = feedOutbox'[k].run
        PROVE  feedOutbox'[j].kind # "end" /\ feedOutbox'[k].kind # "begin"
    <3>1. j \in 1..n
      BY <1>2
    <3>2. CASE k \in 1..n
      BY <1>1, <1>4, <2>2, <3>1, <3>2 DEF ReportInv, n
    <3>3. CASE k = n + 1
      <4>1. feedOutbox[j].run = r
        BY <1>3, <1>4, <2>2, <3>1, <3>3
      <4>2. feedOutbox[j].kind # "end"
        BY <1>10, <3>1, <4>1 DEF IsUnderway, n
      <4>3. kind # "begin"
        BY <1>8, <3>1, <4>1
      <4> QED
        BY <1>3, <1>4, <3>1, <3>3, <4>2, <4>3
    <3> QED
      BY <1>5, <3>2, <3>3
  <2>3. ASSUME NEW q \in Runs
        PROVE  /\ script'[q] = "none" <=> status'[q] = "new"
               /\ (q \in told \/ IsUnderway(q, "end")') <=> status'[q] = "over"
    <3>1. /\ script[q] = "none" <=> status[q] = "new"
          /\ (q \in told \/ IsUnderway(q, "end")) <=> status[q] = "over"
      BY <1>1 DEF ReportInv
    <3>2. IsUnderway(q, "end")' <=> IsUnderway(q, "end") \/ (q = r /\ kind = "end")
      BY <1>9
    <3>3. CASE q = r
      <4>1. script'[q] # "none" /\ status'[q] # "new"
        <5>1. name # "none"
          BY NetworkAssumption
        <5> QED
          BY <1>7, <3>3, <5>1
      <4>2. status'[q] = "over" <=> kind = "end"
        BY <1>7, <3>3
      <4>3. (q \in told \/ IsUnderway(q, "end"))' <=> kind = "end"
        BY <1>10, <3>2, <3>3
      <4> QED
        BY <4>1, <4>2, <4>3
    <3>4. CASE q # r
      BY <1>7, <3>1, <3>2, <3>4
    <3> QED
      BY <3>3, <3>4
  <2> QED
    BY <1>4, <2>1, <2>2, <2>3 DEF ReportInv
<1>12. \A q \in Runs : script[q] # "none" => script'[q] = script[q]
  BY <1>1, <1>7 DEF ReportInv
<1>13. OutcomeInv'
  <2>1. \A q \in told : script'[q] = script[q]
    BY <1>1, <1>7, <1>10 DEF FeedTypes
  <2>2. \A q \in told : Feed!EndsOf(q)' = Feed!EndsOf(q)
    BY DEF Feed!EndsOf
  <2> QED
    BY <1>1, <2>1, <2>2 DEF OutcomeInv
<1>14. ASSUME NEW other \in Scripts
       PROVE  Active(other)' = Active(other) /\ Open(other)' = Open(other)
  <2>1. Open(other)' = Open(other)
    BY DEF Open
  <2>2. ASSUME NEW q \in Runs, q # r
        PROVE  (script'[q] = other /\ ~IsUnderway(q, "begin")')
                 <=> (script[q] = other /\ ~IsUnderway(q, "begin"))
    BY <1>7, <1>9, <2>2
  <2>3. (script'[r] = other /\ ~IsUnderway(r, "begin")')
                 <=> (script[r] = other /\ ~IsUnderway(r, "begin"))
    <3>1. IsUnderway(r, "begin")' <=> IsUnderway(r, "begin") \/ kind = "begin"
      BY <1>9
    <3>2. kind = "begin" => script[r] # other
      BY <1>1, NetworkAssumption DEF ReportInv
    <3> QED
      BY <1>7, <3>1, <3>2
  <2>4. Active(other)' = {q \in Runs : script'[q] = other /\ q \notin told /\ ~IsUnderway(q, "begin")'}
    BY DEF Active
  <2> QED
    BY <2>1, <2>2, <2>3, <2>4 DEF Active
<1>15. CountInv'
  <2>1. ASSUME NEW other \in Scripts, \E q \in missed \union skipped : script[q] = other
        PROVE  \E q \in missed' \union skipped' : script'[q] = other
    BY <1>1, <1>12, <2>1, NetworkAssumption DEF FeedTypes
  <2> QED
    BY <1>1, <1>14, <2>1 DEF CountInv
<1> QED
  BY <1>6, <1>11, <1>13, <1>15 DEF FeedInv

\* ORDER BY id DESC LIMIT 1 finds a row where there is one.
LEMMA NewestIsOne ==
    ASSUME NEW n \in Nat, NEW ids, ids \subseteq 1..n, ids # {}
    PROVE  Feed!Newest(ids) \in ids
<1> DEFINE S == {n - i : i \in ids}
<1>0. \A i \in ids : i \in Nat /\ n - i \in Nat
  OBVIOUS
<1>1. S \subseteq Nat /\ S # {}
  <2>1. \A j \in S : j \in Nat
    BY <1>0
  <2>2. PICK i \in ids : TRUE
    OBVIOUS
  <2>3. n - i \in S
    OBVIOUS
  <2> HIDE DEF S
  <2> QED
    BY <2>1, <2>3
<1>2. PICK k \in S : \A j \in S : ~ (<<j, k>> \in OpToRel(<, Nat))
  BY <1>1, NatLessThanWellFounded, WFMin
<1>3. ASSUME NEW j \in S PROVE k <= j
  <2>1. j < k => <<j, k>> \in OpToRel(<, Nat)
    BY <1>1 DEF OpToRel
  <2>2. ~ (j < k)
    BY <1>2, <2>1, Zenon
  <2>3. j \in Nat /\ k \in Nat
    BY <1>1
  <2> HIDE DEF S
  <2> QED
    BY <2>2, <2>3
<1>4. PICK i \in ids : k = n - i
  OBVIOUS
<1>5. \A j \in ids : j <= i
  <2> SUFFICES ASSUME NEW j \in ids PROVE j <= i
    OBVIOUS
  <2>1. n - j \in S
    OBVIOUS
  <2>2. n - i <= n - j
    BY <1>3, <1>4, <2>1
  <2> HIDE DEF S
  <2> QED
    BY <1>0, <2>2
<1> QED
  BY <1>5 DEF Feed!Newest

\* The oldest report leaves the outbox.
LEMMA FeedTail ==
    ASSUME FeedInv, Feed!Deliver
    PROVE  LET message == feedOutbox[1] IN
           /\ message \in Reports /\ Feed!Message = message
           /\ message.script = script[message.run] /\ message.run \notin told
           /\ message.kind # "begin" => ~IsUnderway(message.run, "begin")
           /\ feedOutbox' \in Seq(Reports)
           /\ \A q \in Runs, what \in {"begin", "end"} :
                 IsUnderway(q, what)' <=> IsUnderway(q, what) /\ ~(q = message.run /\ what = message.kind)
           /\ ReportInv'
<1> DEFINE n == Len(feedOutbox)
           message == feedOutbox[1]
<1>1. FeedTypes /\ ReportInv
  BY DEF FeedInv
<1>2. /\ feedOutbox # <<>> /\ feedOutbox' = Tail(feedOutbox)
      /\ Feed!Message = Head(feedOutbox)
      /\ UNCHANGED <<script, status>>
      /\ told' = IF Head(feedOutbox).kind = "end" THEN told \union {Head(feedOutbox).run} ELSE told
  BY DEF Feed!Deliver, Feed!Message
<1>3. feedOutbox \in Seq(Reports)
  BY <1>1 DEF FeedTypes
<1>4. n \in Nat \ {0} /\ Head(feedOutbox) = message
  BY <1>2, <1>3
<1>5. /\ feedOutbox' \in Seq(Reports) /\ Len(feedOutbox') = n - 1
      /\ \A k \in 1..n - 1 : feedOutbox'[k] = feedOutbox[k + 1]
  BY <1>2, <1>3
<1>6. \A k \in 1..n : feedOutbox[k] \in Reports
  BY <1>1, FeedElements
<1>7. 1 \in 1..n /\ (\A k \in 1..n - 1 : k + 1 \in 1..n /\ 1 \in 1..(k + 1) - 1)
      /\ (\A k \in 2..n : k - 1 \in 1..n - 1 /\ k = (k - 1) + 1 /\ 1 \in 1..k - 1 /\ k \in 1..n)
      /\ (\A k \in 1..n : k = 1 \/ k \in 2..n)
  BY <1>4
<1>8. message \in Reports
  BY <1>6, <1>7
<1>9. message.script = script[message.run] /\ message.run \notin told
  BY <1>1, <1>7 DEF ReportInv
<1>10. \A k \in 2..n : feedOutbox[k].run = message.run => message.kind # "end" /\ feedOutbox[k].kind # "begin"
  BY <1>1, <1>7 DEF ReportInv
<1> HIDE DEF n, message
<1>11. ASSUME NEW q \in Runs, NEW what \in {"begin", "end"}
       PROVE  IsUnderway(q, what)' <=> IsUnderway(q, what) /\ ~(q = message.run /\ what = message.kind)
  <2>1. IsUnderway(q, what) <=> \E k \in 1..n : feedOutbox[k].run = q /\ feedOutbox[k].kind = what
    BY DEF IsUnderway, n
  <2>2. IsUnderway(q, what)' <=> \E k \in 1..n - 1 : feedOutbox'[k].run = q /\ feedOutbox'[k].kind = what
    BY <1>5 DEF IsUnderway
  <2>3. IsUnderway(q, what)' <=> \E k \in 1..n - 1 : feedOutbox[k + 1].run = q /\ feedOutbox[k + 1].kind = what
    BY <1>5, <2>2
  <2>4. IsUnderway(q, what)' <=> \E k \in 2..n : feedOutbox[k].run = q /\ feedOutbox[k].kind = what
    <3>1. ASSUME NEW k \in 1..n - 1 PROVE k + 1 \in 2..n
      BY <1>4
    <3> QED
      BY <1>7, <2>3, <3>1
  <2>5. IsUnderway(q, what) <=> (message.run = q /\ message.kind = what) \/ IsUnderway(q, what)'
    BY <1>7, <2>1, <2>4 DEF message
  <2>6. q = message.run /\ what = message.kind => ~IsUnderway(q, what)'
    BY <1>10, <2>4
  <2> QED
    BY <2>5, <2>6
<1>12. message.kind # "begin" => ~IsUnderway(message.run, "begin")
  BY <1>7, <1>10 DEF IsUnderway, n, message
<1>13. ReportInv'
  <2>1. ASSUME NEW k \in 1..n - 1
        PROVE  /\ feedOutbox'[k].script = script[feedOutbox'[k].run]
               /\ feedOutbox'[k].run \notin told'
    <3>1. k + 1 \in 2..n
      BY <1>4
    <3>2. /\ feedOutbox[k + 1].script = script[feedOutbox[k + 1].run]
          /\ feedOutbox[k + 1].run \notin told
      BY <1>1, <1>7 DEF ReportInv, n
    <3>3. message.kind = "end" => feedOutbox[k + 1].run # message.run
      BY <1>10, <3>1
    <3> QED
      BY <1>2, <1>4, <1>5, <3>2, <3>3
  <2>2. ASSUME NEW k \in 1..n - 1, NEW j \in 1..k - 1, feedOutbox'[j].run = feedOutbox'[k].run
        PROVE  feedOutbox'[j].kind # "end" /\ feedOutbox'[k].kind # "begin"
    <3>1. j \in 1..n - 1 /\ j + 1 \in 1..(k + 1) - 1 /\ k + 1 \in 1..n
      BY <1>4
    <3> QED
      BY <1>1, <1>5, <2>2, <3>1 DEF ReportInv, n
  <2>3. ASSUME NEW q \in Runs
        PROVE  (q \in told' \/ IsUnderway(q, "end")') <=> status[q] = "over"
    <3>1. (q \in told \/ IsUnderway(q, "end")) <=> status[q] = "over"
      BY <1>1 DEF ReportInv
    <3>2. IsUnderway(q, "end")' <=> IsUnderway(q, "end") /\ ~(q = message.run /\ message.kind = "end")
      BY <1>11
    <3>3. q = message.run /\ message.kind = "end" => IsUnderway(q, "end")
      BY <1>7 DEF IsUnderway, n, message
    <3> QED
      BY <1>2, <1>4, <3>1, <3>2, <3>3
  <2>4. \A q \in Runs : script[q] = "none" <=> status[q] = "new"
    BY <1>1 DEF ReportInv
  <2> QED
    BY <1>2, <1>5, <2>1, <2>2, <2>3, <2>4 DEF ReportInv
<1> QED
  BY <1>2, <1>4, <1>5, <1>8, <1>9, <1>11, <1>12, <1>13 DEF message

\* Row w is new or was running, and belongs to the script of the report.
RowChanged(w, report) ==
    /\ feedRows' \in Seq(Activities)
    /\ w \in Open(report.script) \/ w = Len(feedRows) + 1
    /\ 1..Len(feedRows') = 1..Len(feedRows) \union {w}
    /\ \A i \in 1..Len(feedRows) : i # w => feedRows'[i] = feedRows[i]
    /\ feedRows'[w].script = report.script
    /\ IF report.kind = "end"
       THEN /\ ~feedRows'[w].running /\ feedRows'[w].end = report.run
            /\ \/ Open(report.script) = {} \/ w \in Open(report.script)
               \/ report.run \in missed'
       ELSE /\ feedRows'[w].running /\ feedRows'[w].end = "no run"
            /\ w = Len(feedRows) + 1
            /\ \/ Open(report.script) = {} \/ report.kind = "begin"
               \/ report.run \in missed'

\* A report changes one row of its script, or none: an end changes none if it is skipped.
LEMMA FeedRows ==
    ASSUME FeedInv, Feed!Deliver
    PROVE  \/ feedRows' = feedRows /\ (feedOutbox[1].kind # "end" \/ feedOutbox[1].run \in skipped')
           \/ /\ \E w \in Nat : RowChanged(w, feedOutbox[1])
              /\ UNCHANGED skipped
<1> DEFINE message == feedOutbox[1]
           n == Len(feedRows)
           ending == message.kind = "end"
           found == Feed!Found
           row == [script |-> message.script, at |-> message.at, running |-> ~ending,
                   end |-> IF ~ending THEN "no run" ELSE message.run]
<1>1. FeedTypes
  BY DEF FeedInv
<1>2. message \in Reports /\ Feed!Message = message
  BY FeedTail
<1>3. /\ message.script \in Scripts /\ message.at \in Nat /\ message.run \in Runs
      /\ message.kind \in {"begin", "progress", "end"}
  BY <1>2 DEF Reports
<1>4. feedRows \in Seq(Activities) /\ n \in Nat /\ DOMAIN feedRows = 1..n
      /\ \A i \in 1..n : feedRows[i] \in Activities
  <2>1. feedRows \in Seq(Activities)
    BY <1>1 DEF FeedTypes
  <2>2. \A i \in 1..n : feedRows[i] \in Activities
    BY <2>1, ElementOfSeq
  <2> QED
    BY <2>1, <2>2
<1>5. /\ Feed!Projected =>
           /\ feedRows' = IF found = {} THEN Append(feedRows, Feed!Row(~ending))
                          ELSE IF ending THEN [feedRows EXCEPT ![Feed!Newest(found)].running = FALSE,
                                                               ![Feed!Newest(found)].end = message.run]
                          ELSE feedRows
           /\ missed' = IF message.kind = "progress" /\ \E i \in DOMAIN feedRows :
                             /\ feedRows[i].running /\ feedRows[i].script = message.script
                             /\ feedRows[i].at + Window < clock
                        THEN missed \union {message.run} ELSE missed
           /\ UNCHANGED skipped
      /\ Feed!LookUpFails =>
           /\ feedRows' = Append(feedRows, Feed!Row(~ending))
           /\ message.kind = "begin" \/ message.run \in missed'
           /\ UNCHANGED skipped
      /\ Feed!NotProjected =>
           /\ feedRows' = feedRows
           /\ message.kind = "end" => message.run \in skipped'
      /\ Feed!Projected \/ Feed!LookUpFails \/ Feed!NotProjected
  <2> HIDE DEF message
  <2>1. Feed!Deliver => Feed!Projected \/ Feed!LookUpFails \/ Feed!NotProjected
    BY DEF Feed!Deliver
  <2>2. Feed!NotProjected => feedRows' = feedRows /\ (message.kind = "end" => message.run \in skipped')
    BY <1>2 DEF Feed!NotProjected
  <2>3. Feed!LookUpFails => /\ feedRows' = Append(feedRows, Feed!Row(~ending))
                            /\ message.kind = "begin" \/ message.run \in missed'
                            /\ UNCHANGED skipped
    BY <1>2 DEF Feed!LookUpFails, Feed!Project
  <2> QED
    BY <1>2, <2>1, <2>2, <2>3 DEF Feed!Projected, Feed!Project, Feed!Late, Feed!Running
<1>6. Feed!Row(~ending) = row
  <2> HIDE DEF message
  <2> QED
    BY <1>2 DEF Feed!Row, Feed!NoRun
<1>7. /\ ending => found = Open(message.script)
      /\ ~ending => found = {i \in Open(message.script) : feedRows[i].at + Window >= clock}
  <2> HIDE DEF message
  <2> QED
    BY <1>2, <1>4 DEF Feed!Found, Feed!RowsToClose, Feed!RowsToUpdate, Feed!Running, Open
<1>8. Open(message.script) \subseteq 1..n
  BY DEF Open
<1>9. row \in Activities /\ row.script = message.script
      /\ (ending => ~row.running /\ row.end = message.run)
      /\ (~ending => row.running /\ row.end = "no run")
  <2> HIDE DEF message
  <2>1. CASE ending
    <3>1. row = [script |-> message.script, at |-> message.at, running |-> FALSE, end |-> message.run]
      BY <2>1
    <3> HIDE DEF row
    <3> QED
      BY <1>3, <2>1, <3>1 DEF Activities
  <2>2. CASE ~ending
    <3>1. row = [script |-> message.script, at |-> message.at, running |-> TRUE, end |-> "no run"]
      BY <2>2
    <3> HIDE DEF row
    <3> QED
      BY <1>3, <2>2, <3>1 DEF Activities
  <2> QED
    BY <2>1, <2>2
<1> HIDE DEF row, n
<1>10. CASE (Feed!Projected /\ found = {}) \/ Feed!LookUpFails
  <2>1. feedRows' = Append(feedRows, row) /\ UNCHANGED skipped
    BY <1>5, <1>6, <1>10
  <2>2. /\ feedRows' \in Seq(Activities) /\ Len(feedRows') = n + 1
        /\ feedRows'[n + 1] = row
        /\ \A i \in 1..n : feedRows'[i] = feedRows[i]
    <3>1. feedRows \in Seq(Activities) /\ row \in Activities
      BY <1>4, <1>9
    <3> QED
      BY <2>1, <3>1 DEF n
  <2>3. 1..n + 1 = 1..n \union {n + 1} /\ n + 1 \in Nat
    BY <1>4
  <2>4. ending => Open(message.script) = {} \/ message.run \in missed'
    BY <1>5, <1>7, <1>10
  <2>5. ASSUME ~ending, Open(message.script) # {}, message.kind # "begin"
        PROVE  message.run \in missed'
    <3>0. SUFFICES ASSUME Feed!Projected, found = {} PROVE message.run \in missed'
      BY <1>5, <1>10, <2>5
    <3>1. PICK i \in Open(message.script) : TRUE
      BY <2>5
    <3>2. ~ (feedRows[i].at + Window >= clock)
      BY <1>7, <2>5, <3>0, <3>1
    <3>3. i \in 1..n /\ feedRows[i].script = message.script /\ feedRows[i].running
      BY <3>1 DEF Open, n
    <3>4. feedRows[i].at \in Nat
      BY <1>4, <3>3 DEF Activities, n
    <3>5. clock \in Nat
      <4>1. clock \in 0..MaxTime
        BY <1>1 DEF FeedTypes
      <4>2. MaxTime \in Nat
        BY Bounds
      <4> QED
        BY <4>1, <4>2
    <3>6. Window \in Nat
      BY Bounds
    <3>7. feedRows[i].at + Window < clock
      BY <3>2, <3>4, <3>5, <3>6
    <3>8. message.kind = "progress"
      BY <1>3, <2>5
    <3> QED
      BY <1>4, <1>5, <3>0, <3>3, <3>7, <3>8 DEF n
  <2>6. RowChanged(n + 1, message)
    <3> HIDE DEF message
    <3> QED
      BY <1>9, <2>2, <2>3, <2>4, <2>5 DEF RowChanged, n
  <2> QED
    BY <2>1, <2>3, <2>6
<1>11. CASE Feed!Projected /\ found # {} /\ ending
  <2> DEFINE w == Feed!Newest(found)
  <2>1. found = Open(message.script)
    BY <1>7, <1>11
  <2>2. w \in Open(message.script) /\ w \in 1..n /\ w \in Nat
    <3> HIDE DEF found
    <3>1. w \in found
      BY <1>4, <1>8, <1>11, <2>1, NewestIsOne DEF n
    <3> QED
      BY <1>4, <1>8, <2>1, <3>1
  <2> HIDE DEF w
  <2> DEFINE closed == [[feedRows[w] EXCEPT !.running = FALSE] EXCEPT !.end = message.run]
  <2>3. feedRows' = [feedRows EXCEPT ![w] = closed]
    <3>1. feedRows' = [feedRows EXCEPT ![w].running = FALSE, ![w].end = message.run]
      BY <1>5, <1>11 DEF w
    <3>2. [feedRows EXCEPT ![w].running = FALSE, ![w].end = message.run]
             = [feedRows EXCEPT ![w] = closed]
      BY <1>4, <2>2 DEF n
    <3> QED
      BY <3>1, <3>2
  <2>4. feedRows[w] \in Activities /\ feedRows[w].script = message.script
    BY <1>4, <2>2 DEF Open, n
  <2>5. closed \in Activities /\ closed.script = message.script
        /\ ~closed.running /\ closed.end = message.run
    <3> HIDE DEF message
    <3> QED
      BY <1>3, <2>4 DEF Activities
  <2> HIDE DEF closed
  <2>6. /\ feedRows' \in Seq(Activities) /\ Len(feedRows') = n
        /\ feedRows'[w] = closed
        /\ \A i \in 1..n : i # w => feedRows'[i] = feedRows[i]
    BY <1>4, <2>2, <2>3, <2>5 DEF n
  <2>7. 1..n = 1..n \union {w}
    BY <2>2
  <2>8. RowChanged(w, message)
    <3> HIDE DEF message
    <3> QED
      BY <1>11, <2>2, <2>5, <2>6, <2>7 DEF RowChanged, n
  <2> QED
    BY <1>5, <1>11, <2>2, <2>8
<1>12. CASE Feed!Projected /\ found # {} /\ ~ending
  BY <1>5, <1>12
<1>13. CASE Feed!NotProjected
  BY <1>5, <1>13
<1> QED
  BY <1>5, <1>10, <1>11, <1>12, <1>13

\* How a run ended is shown in one row, and stays there.
LEMMA FeedOutcome ==
    ASSUME FeedInv, Feed!Deliver
    PROVE  FeedTypes' /\ OutcomeInv'
<1> DEFINE message == feedOutbox[1]
           n == Len(feedRows)
<1>1. FeedTypes /\ OutcomeInv
  BY DEF FeedInv
<1>0. message \in Reports /\ message.script = script[message.run] /\ message.run \notin told
      /\ feedOutbox' \in Seq(Reports) /\ Feed!Message = message
  BY FeedTail
<1>2. PICK r \in Runs : r = message.run
  BY <1>0 DEF Reports
<1>3. message \in Reports /\ message.script = script[r] /\ r \notin told
      /\ feedOutbox' \in Seq(Reports) /\ Feed!Message = message
  BY <1>0, <1>2
<1>4. /\ told' = IF message.kind = "end" THEN told \union {r} ELSE told
      /\ missed \subseteq missed' /\ missed' \subseteq missed \union {r}
      /\ skipped \subseteq skipped' /\ skipped' \subseteq skipped \union {r}
      /\ UNCHANGED <<clock, sent, script, status>>
  <2> HIDE DEF message
  <2> QED
    BY <1>2, <1>3 DEF Feed!Deliver, Feed!Projected, Feed!LookUpFails, Feed!NotProjected
<1>5. n \in Nat /\ DOMAIN feedRows = 1..n
  <2>1. feedRows \in Seq(Activities)
    BY <1>1 DEF FeedTypes
  <2> QED
    BY <2>1
<1>6. "no run" \notin Runs
  BY NetworkAssumption
<1>7. \A i \in 1..n : feedRows[i].running <=> feedRows[i].end = "no run"
  BY <1>1 DEF FeedTypes
<1>8. \A i \in 1..n : feedRows[i].end # "no run" => feedRows[i].end \in told
  BY <1>1 DEF OutcomeInv
<1>9. \A q \in told \ skipped :
        \E i \in 1..n : Feed!EndsOf(q) = {i} /\ feedRows[i].script = script[q]
  BY <1>1 DEF OutcomeInv
<1>10. told \subseteq Runs /\ missed \subseteq Runs
  BY <1>1 DEF FeedTypes
<1>11. \A q : Feed!EndsOf(q) = {i \in 1..n : feedRows[i].end = q}
  BY <1>5 DEF Feed!EndsOf
<1>12. clock' \in 0..MaxTime /\ sent' \in 0..MaxProgress
       /\ script' \in [Runs -> Scripts \union {"none"}]
       /\ status' \in [Runs -> {"new", "running", "over", "killed"}]
       /\ told' \subseteq Runs /\ missed' \subseteq Runs /\ skipped' \subseteq Runs
  BY <1>1, <1>2, <1>4 DEF FeedTypes
<1> HIDE DEF message, n
<1>13. CASE feedRows' = feedRows /\ (message.kind # "end" \/ message.run \in skipped')
  <2>1. told \subseteq told' /\ told' \ skipped' \subseteq told \ skipped
    BY <1>2, <1>4, <1>13
  <2>2. FeedTypes'
    BY <1>1, <1>3, <1>12, <1>13 DEF FeedTypes
  <2>3. \A q : Feed!EndsOf(q)' = Feed!EndsOf(q)
    BY <1>13 DEF Feed!EndsOf
  <2>4. OutcomeInv'
    BY <1>1, <1>4, <1>13, <2>1, <2>3 DEF OutcomeInv
  <2> QED
    BY <2>2, <2>4
<1>14. ASSUME NEW w \in Nat, RowChanged(w, message), UNCHANGED skipped
       PROVE  FeedTypes' /\ OutcomeInv'
  <2>1. /\ feedRows' \in Seq(Activities)
        /\ 1..Len(feedRows') = 1..n \union {w}
        /\ \A i \in 1..n : i # w => feedRows'[i] = feedRows[i]
        /\ feedRows'[w].script = script[r]
    BY <1>3, <1>14 DEF RowChanged, n
  <2>2. DOMAIN feedRows' = 1..n \union {w}
    <3>1. DOMAIN feedRows' = 1..Len(feedRows')
      BY <2>1
    <3> QED
      BY <2>1, <3>1
  <2>3. \A i \in 1..n \union {w} : i # w => i \in 1..n
    OBVIOUS
  <2>4. w \in 1..n => feedRows[w].end = "no run"
    <3>1. w \in Open(message.script) \/ w = n + 1
      BY <1>14 DEF RowChanged, n
    <3>2. n + 1 \notin 1..n
      BY <1>5
    <3> QED
      BY <1>7, <3>1, <3>2 DEF Open
  <2>5. \A q \in told : Feed!EndsOf(q) \subseteq 1..n \ {w}
    BY <1>6, <1>10, <1>11, <2>4
  <2>6. \A q : Feed!EndsOf(q)' = {i \in 1..n \union {w} : feedRows'[i].end = q}
    BY <2>2 DEF Feed!EndsOf
  <2>7. CASE message.kind = "end"
    <3>1. ~feedRows'[w].running /\ feedRows'[w].end = r
      BY <1>2, <1>14, <2>7 DEF RowChanged
    <3>2. FeedTypes'
      <4>1. \A i \in 1..n \union {w} : feedRows'[i].running <=> feedRows'[i].end = "no run"
        BY <1>2, <1>6, <1>7, <2>1, <2>3, <3>1
      <4> QED
        BY <1>3, <1>12, <2>1, <4>1 DEF FeedTypes
    <3>3. told' = told \union {r}
      BY <1>4, <2>7
    <3>4. ASSUME NEW i \in 1..n \union {w}, feedRows'[i].end # "no run"
          PROVE  feedRows'[i].end \in told'
      <4>1. CASE i = w
        BY <3>1, <3>3, <3>4, <4>1
      <4>2. CASE i # w
        BY <1>8, <2>1, <2>3, <3>3, <3>4, <4>2
      <4> QED
        BY <4>1, <4>2
    <3>5. ASSUME NEW q \in told \ skipped
          PROVE  \E i \in 1..n \union {w} : Feed!EndsOf(q)' = {i} /\ feedRows'[i].script = script[q]
      <4>1. PICK i \in 1..n : Feed!EndsOf(q) = {i} /\ feedRows[i].script = script[q]
        BY <1>9
      <4>2. Feed!EndsOf(q)' = Feed!EndsOf(q)
        <5>1. q # r
          BY <1>3
        <5>2. \A j \in 1..n \union {w} : feedRows'[j].end = q <=> j # w /\ feedRows[j].end = q
          BY <2>1, <2>3, <3>1, <5>1
        <5>3. Feed!EndsOf(q)' = {j \in 1..n \union {w} : j # w /\ feedRows[j].end = q}
          BY <2>6, <5>2
        <5>4. Feed!EndsOf(q) = {j \in 1..n : feedRows[j].end = q}
          BY <1>11
        <5>5. Feed!EndsOf(q) \subseteq 1..n \ {w}
          BY <2>5
        <5> QED
          BY <5>3, <5>4, <5>5
      <4>3. i # w
        BY <2>5, <4>1
      <4> QED
        BY <2>1, <4>1, <4>2, <4>3
    <3>6. Feed!EndsOf(r)' = {w}
      <4>1. \A i \in 1..n : feedRows[i].end # r
        BY <1>3, <1>2, <1>6, <1>8
      <4>2. \A j \in 1..n \union {w} : feedRows'[j].end = r <=> j = w
        BY <2>1, <2>3, <3>1, <4>1
      <4>3. Feed!EndsOf(r)' = {j \in 1..n \union {w} : feedRows'[j].end = r}
        BY <2>6
      <4>4. {j \in 1..n \union {w} : feedRows'[j].end = r} = {w}
        BY <4>2
      <4> QED
        BY <4>3, <4>4
    <3>7. ASSUME NEW q \in told' \ skipped'
          PROVE  \E i \in 1..n \union {w} : Feed!EndsOf(q)' = {i} /\ feedRows'[i].script = script'[q]
      <4>1. CASE q \in told \ skipped
        BY <1>4, <3>5, <4>1
      <4>2. CASE q = r
        <5>1. w \in 1..n \union {w} /\ Feed!EndsOf(q)' = {w}
          BY <3>6, <4>2
        <5>2. feedRows'[w].script = script'[q]
          BY <1>4, <2>1, <4>2
        <5> QED
          BY <5>1, <5>2
      <4> QED
        BY <1>14, <3>3, <4>1, <4>2
    <3>8. OutcomeInv'
      BY <2>1, <3>4, <3>7 DEF OutcomeInv
    <3> QED
      BY <3>2, <3>8
  <2>8. CASE message.kind # "end"
    <3>1. feedRows'[w].running /\ feedRows'[w].end = "no run"
      BY <1>14, <2>8 DEF RowChanged
    <3>2. FeedTypes'
      <4>1. \A i \in 1..n \union {w} : feedRows'[i].running <=> feedRows'[i].end = "no run"
        BY <1>7, <2>1, <2>3, <3>1
      <4> QED
        BY <1>3, <1>12, <2>1, <4>1 DEF FeedTypes
    <3>3. told' = told
      BY <1>4, <2>8
    <3>4. ASSUME NEW i \in 1..n \union {w}, feedRows'[i].end # "no run"
          PROVE  feedRows'[i].end \in told'
      <4>1. CASE i = w
        BY <3>1, <3>3, <3>4, <4>1
      <4>2. CASE i # w
        BY <1>8, <2>1, <2>3, <3>3, <3>4, <4>2
      <4> QED
        BY <4>1, <4>2
    <3>5. ASSUME NEW q \in told \ skipped
          PROVE  \E i \in 1..n \union {w} : Feed!EndsOf(q)' = {i} /\ feedRows'[i].script = script[q]
      <4>1. PICK i \in 1..n : Feed!EndsOf(q) = {i} /\ feedRows[i].script = script[q]
        BY <1>9
      <4>2. q # "no run"
        BY <1>6, <1>10
      <4>3. Feed!EndsOf(q)' = Feed!EndsOf(q)
        <5>1. \A j \in 1..n \union {w} : feedRows'[j].end = q <=> j # w /\ feedRows[j].end = q
          BY <2>1, <2>3, <3>1, <4>2
        <5>2. Feed!EndsOf(q)' = {j \in 1..n \union {w} : j # w /\ feedRows[j].end = q}
          BY <2>6, <5>1
        <5>3. Feed!EndsOf(q) = {j \in 1..n : feedRows[j].end = q}
          BY <1>11
        <5>4. Feed!EndsOf(q) \subseteq 1..n \ {w}
          BY <2>5
        <5> QED
          BY <5>2, <5>3, <5>4
      <4>4. i # w
        BY <2>5, <4>1
      <4> QED
        BY <2>1, <4>1, <4>3, <4>4
    <3>6. OutcomeInv'
      BY <1>4, <1>14, <2>1, <3>3, <3>4, <3>5 DEF OutcomeInv
    <3> QED
      BY <3>2, <3>6
  <2> QED
    BY <2>7, <2>8
<1> QED
  BY <1>13, <1>14, FeedRows DEF message

\* A script has no more rows that run than the server knows runs of.
LEMMA FeedCount ==
    ASSUME FeedInv, Feed!Deliver
    PROVE  CountInv'
<1> DEFINE message == feedOutbox[1]
           n == Len(feedRows)
<1>1. FeedTypes /\ CountInv
  BY DEF FeedInv
<1>2. PICK r \in Runs, name \in Scripts, kind \in {"begin", "progress", "end"} :
         r = message.run /\ name = message.script /\ kind = message.kind
  <2>1. message \in Reports
    BY FeedTail
  <2> QED
    BY <2>1 DEF Reports
<1>3. name = script[r] /\ r \notin told
      /\ (kind # "begin" => ~IsUnderway(r, "begin"))
      /\ Feed!Message = message
  BY <1>2, FeedTail
<1>4. \A q \in Runs : IsUnderway(q, "begin")' <=> IsUnderway(q, "begin") /\ ~(q = r /\ kind = "begin")
  BY <1>2, FeedTail
<1>5. kind = "begin" => IsUnderway(r, "begin")
  <2>1. feedOutbox \in Seq(Reports) /\ feedOutbox # <<>>
    BY <1>1 DEF FeedTypes, Feed!Deliver
  <2>2. 1 \in 1..Len(feedOutbox)
    BY <2>1
  <2> QED
    BY <1>2, <2>2 DEF IsUnderway
<1>6. n \in Nat
  BY <1>1, FeedElements
<1>7. /\ script' = script
      /\ told' = IF kind = "end" THEN told \union {r} ELSE told
      /\ missed \subseteq missed' /\ skipped \subseteq skipped'
  <2> HIDE DEF message
  <2> QED
    BY <1>2, <1>3 DEF Feed!Deliver, Feed!Projected, Feed!LookUpFails, Feed!NotProjected
<1>8. \/ feedRows' = feedRows /\ (kind # "end" \/ r \in skipped')
      \/ \E w \in Nat : RowChanged(w, message)
  BY <1>2, FeedRows
<1>9. \A other : Active(other)' = {q \in Runs : script[q] = other /\ q \notin told'
                                                 /\ ~IsUnderway(q, "begin")'}
  BY <1>7 DEF Active
<1>10. \A other : Open(other) \subseteq 1..n /\ IsFiniteSet(Open(other))
  <2> SUFFICES ASSUME NEW other PROVE Open(other) \subseteq 1..n /\ IsFiniteSet(Open(other))
    OBVIOUS
  <2>1. Open(other) \subseteq 1..n
    BY DEF Open
  <2>2. IsFiniteSet(1..n)
    BY <1>6, FS_Interval
  <2> QED
    BY <2>1, <2>2, FS_Subset
<1> HIDE DEF message, n
\* the other scripts
<1>11. ASSUME NEW other \in Scripts, other # name
       PROVE  Active(other)' = Active(other) /\ Open(other)' = Open(other)
  <2>1. Active(other)' = Active(other)
    BY <1>3, <1>4, <1>7, <1>9, <1>11 DEF Active
  <2>2. CASE feedRows' = feedRows
    BY <2>1, <2>2 DEF Open
  <2>3. ASSUME NEW w \in Nat, RowChanged(w, message)
        PROVE  Open(other)' = Open(other)
    <3>1. /\ 1..Len(feedRows') = 1..n \union {w}
          /\ \A i \in 1..n : i # w => feedRows'[i] = feedRows[i]
          /\ feedRows'[w].script = name
          /\ w \in Open(name) \/ w = n + 1
      BY <1>2, <2>3 DEF RowChanged, n
    <3>2. Open(other)' = {i \in 1..n \union {w} : feedRows'[i].script = other /\ feedRows'[i].running}
      BY <3>1 DEF Open
    <3>3. w \notin 1..n \/ feedRows[w].script = name
      <4>1. n + 1 \notin 1..n
        BY <1>6
      <4> QED
        BY <3>1, <4>1 DEF Open
    <3>4. ASSUME NEW i
          PROVE  i \in Open(other)' <=> i \in Open(other)
      <4>1. CASE i = w
        BY <1>11, <3>1, <3>2, <3>3, <4>1 DEF Open, n
      <4>2. CASE i # w
        BY <3>1, <3>2, <4>2 DEF Open, n
      <4> QED
        BY <4>1, <4>2
    <3> QED
      BY <3>4
  <2> QED
    BY <1>8, <2>1, <2>2, <2>3
\* the script of the report
<1> DEFINE active == Active(name)
           open == Open(name)
<1>12. /\ IsFiniteSet(active) /\ IsFiniteSet(open) /\ open \subseteq 1..n
       /\ Cardinality(active) \in Nat /\ Cardinality(open) \in Nat
       /\ \/ \E q \in missed \union skipped : script[q] = name
          \/ Cardinality(open) <= Cardinality(active)
  <2>1. IsFiniteSet(active) /\ IsFiniteSet(open)
    BY <1>1, <1>10 DEF CountInv
  <2> QED
    BY <1>1, <1>10, <2>1, FS_CardinalityType DEF CountInv
<1>13. kind = "begin" => Active(name)' = active \union {r} /\ r \notin active
  BY <1>3, <1>4, <1>5, <1>7, <1>9 DEF Active
<1>14. kind = "progress" => Active(name)' = active /\ r \in active
  BY <1>3, <1>4, <1>7, <1>9 DEF Active
<1>15. kind = "end" => Active(name)' = active \ {r} /\ r \in active
  BY <1>3, <1>4, <1>7, <1>9 DEF Active
<1>16. feedRows' = feedRows => Open(name)' = open
  BY DEF Open
<1>17. ASSUME NEW w \in Nat, RowChanged(w, message)
       PROVE  IF kind = "end"
              THEN \/ open = {} /\ Open(name)' = {}
                   \/ w \in open /\ Open(name)' = open \ {w}
                   \/ r \in missed'
              ELSE /\ w \notin open /\ Open(name)' = open \union {w}
                   /\ open = {} \/ kind = "begin" \/ r \in missed'
  <2>1. /\ 1..Len(feedRows') = 1..n \union {w}
        /\ \A i \in 1..n : i # w => feedRows'[i] = feedRows[i]
        /\ feedRows'[w].script = name
        /\ feedRows'[w].running <=> kind # "end"
        /\ kind = "end" => open = {} \/ w \in open \/ r \in missed'
        /\ kind # "end" => w = n + 1 /\ (open = {} \/ kind = "begin" \/ r \in missed')
    BY <1>2, <1>17 DEF RowChanged, n
  <2>2. Open(name)' = {i \in 1..n \union {w} : feedRows'[i].script = name /\ feedRows'[i].running}
    BY <2>1 DEF Open
  <2>3. \A i : i # w => (i \in Open(name)' <=> i \in open)
    BY <2>1, <2>2 DEF Open, n
  <2>4. w \in Open(name)' <=> kind # "end"
    BY <2>1, <2>2
  <2>5. n + 1 \notin 1..n
    BY <1>6
  <2> HIDE DEF open
  <2>6. CASE kind = "end"
    BY <2>1, <2>3, <2>4, <2>6
  <2>7. CASE kind # "end"
    BY <1>12, <2>1, <2>3, <2>4, <2>5, <2>7
  <2> QED
    BY <2>6, <2>7
<1> HIDE DEF active, open
<1>18. IsFiniteSet(Active(name)')
  <2>1. IsFiniteSet(active \union {r}) /\ IsFiniteSet(active \ {r})
    BY <1>12, FS_AddElement, FS_RemoveElement
  <2> QED
    BY <1>12, <1>13, <1>14, <1>15, <2>1
<1>19. (\E q \in missed' \union skipped' : script[q] = name)
         \/ Cardinality(Open(name)') <= Cardinality(Active(name)')
  <2> SUFFICES ASSUME ~ \E q \in missed' \union skipped' : script[q] = name
               PROVE  Cardinality(Open(name)') <= Cardinality(Active(name)')
    OBVIOUS
  <2>1. Cardinality(open) <= Cardinality(active) /\ r \notin missed' /\ r \notin skipped'
    BY <1>3, <1>7, <1>12
  <2>2. CASE feedRows' = feedRows /\ kind # "end"
    <3>1. Open(name)' = open
      BY <1>16, <2>2
    <3>2. CASE kind = "begin"
      <4>1. Active(name)' = active \union {r} /\ r \notin active
        BY <1>13, <3>2
      <4>2. Cardinality(Active(name)') = Cardinality(active) + 1
        BY <1>12, <4>1, FS_AddElement
      <4> QED
        BY <1>12, <2>1, <3>1, <4>2
    <3>3. CASE kind = "progress"
      BY <1>14, <2>1, <3>1, <3>3
    <3> QED
      BY <1>2, <2>2, <3>2, <3>3
  <2>3. ASSUME NEW w \in Nat, RowChanged(w, message), kind = "begin"
        PROVE  Cardinality(Open(name)') <= Cardinality(Active(name)')
    <3>1. Open(name)' = open \union {w} /\ w \notin open
      BY <1>17, <2>3
    <3>2. Cardinality(Open(name)') = Cardinality(open) + 1
      BY <1>12, <3>1, FS_AddElement
    <3>3. Active(name)' = active \union {r} /\ r \notin active
      BY <1>13, <2>3
    <3>4. Cardinality(Active(name)') = Cardinality(active) + 1
      BY <1>12, <3>3, FS_AddElement
    <3> QED
      BY <1>12, <2>1, <3>2, <3>4
  <2>4. ASSUME NEW w \in Nat, RowChanged(w, message), kind = "progress"
        PROVE  Cardinality(Open(name)') <= Cardinality(Active(name)')
    <3>1. Open(name)' = {w}
      BY <1>17, <2>1, <2>4
    <3>2. Cardinality({w}) = 1
      BY FS_Singleton
    <3>3. Cardinality(active) # 0
      BY <1>12, <1>14, <2>4, FS_EmptySet
    <3> QED
      BY <1>12, <1>14, <2>4, <3>1, <3>2, <3>3
  <2>5. ASSUME NEW w \in Nat, RowChanged(w, message), kind = "end"
        PROVE  Cardinality(Open(name)') <= Cardinality(Active(name)')
    <3>1. Cardinality(active \ {r}) = Cardinality(active) - 1
      BY <1>12, <1>15, <2>5, FS_RemoveElement
    <3>2. CASE open = {} /\ Open(name)' = {}
      <4>1. Cardinality({}) = 0
        BY FS_EmptySet
      <4>2. IsFiniteSet(active \ {r}) /\ Cardinality(active \ {r}) \in Nat
        BY <1>12, FS_RemoveElement, FS_CardinalityType
      <4> QED
        BY <1>15, <2>5, <3>2, <4>1, <4>2
    <3>3. CASE w \in open /\ Open(name)' = open \ {w}
      <4>1. Cardinality(open \ {w}) = Cardinality(open) - 1
        BY <1>12, <3>3, FS_RemoveElement
      <4>2. Cardinality(Open(name)') = Cardinality(open) - 1
        BY <3>3, <4>1
      <4>3. Cardinality(Active(name)') = Cardinality(active) - 1
        BY <1>15, <2>5, <3>1
      <4> QED
        BY <1>12, <2>1, <4>2, <4>3
    <3> QED
      BY <1>17, <2>1, <2>5, <3>2, <3>3
  <2> QED
    BY <1>2, <1>8, <2>1, <2>2, <2>3, <2>4, <2>5
<1>20. ASSUME NEW other \in Scripts
       PROVE  /\ IsFiniteSet(Active(other)')
              /\ (\E q \in missed' \union skipped' : script[q] = other)
                   \/ Cardinality(Open(other)') <= Cardinality(Active(other)')
  <2>1. CASE other = name
    BY <1>18, <1>19, <2>1
  <2>2. CASE other # name
    <3>1. Active(other)' = Active(other) /\ Open(other)' = Open(other)
      BY <1>11, <2>2
    <3>2. IsFiniteSet(Active(other))
          /\ ((\E q \in missed \union skipped : script[q] = other)
                \/ Cardinality(Open(other)) <= Cardinality(Active(other)))
      BY <1>1 DEF CountInv
    <3> QED
      BY <1>7, <3>1, <3>2
  <2> QED
    BY <2>1, <2>2
<1> QED
  BY <1>7, <1>20 DEF CountInv

\* A step that changes neither reports nor rows keeps what they say.
LEMMA FeedSame ==
    ASSUME FeedInv, UNCHANGED <<script, feedOutbox, feedRows, told, missed, skipped>>
    PROVE  OutcomeInv' /\ CountInv'
<1>1. \A r \in Runs : IsUnderway(r, "begin")' <=> IsUnderway(r, "begin")
  BY DEF IsUnderway
<1>2. \A name : Active(name)' = Active(name) /\ Open(name)' = Open(name)
  BY <1>1 DEF Active, Open
<1>3. \A r : Feed!EndsOf(r)' = Feed!EndsOf(r)
  BY DEF Feed!EndsOf
<1>4. OutcomeInv'
  BY <1>3 DEF FeedInv, OutcomeInv
<1>5. CountInv'
  BY <1>2 DEF FeedInv, CountInv
<1> QED
  BY <1>4, <1>5

LEMMA FeedStep ==
    ASSUME FeedInv, Feed!Next
    PROVE  FeedInv'
<1>1. FeedTypes
  BY DEF FeedInv
<1>2. CASE Feed!Tick
  <2>1. clock \in 0..MaxTime /\ MaxTime \in Nat
    BY <1>1, Bounds DEF FeedTypes
  <2>2. clock' \in 0..MaxTime
    BY <1>2, <2>1 DEF Feed!Tick
  <2>3. UNCHANGED <<script, status, feedOutbox, feedRows, sent, told, missed, skipped>>
    BY <1>2 DEF Feed!Tick
  <2>4. FeedTypes'
    BY <1>1, <2>2, <2>3 DEF FeedTypes
  <2>5. ReportInv'
    <3>1. \A r \in Runs : IsUnderway(r, "end")' <=> IsUnderway(r, "end")
      BY <2>3 DEF IsUnderway
    <3> QED
      BY <2>3, <3>1 DEF FeedInv, ReportInv
  <2>6. OutcomeInv' /\ CountInv'
    BY <2>3, FeedSame
  <2> QED
    BY <2>4, <2>5, <2>6 DEF FeedInv
<1>3. CASE Feed!Deliver
  BY <1>3, FeedTail, FeedOutcome, FeedCount DEF FeedInv
<1>4. sent \in 0..MaxProgress /\ MaxProgress \in Nat
  BY <1>1, Bounds DEF FeedTypes
<1>5. ASSUME NEW r \in Runs
      PROVE  /\ script[r] \in Scripts <=> status[r] # "new"
             /\ script[r] \in Scripts => script = [script EXCEPT ![r] = script[r]]
             /\ \A kind : Feed!Report(r, script[r], kind).kind = kind
  <2>1. script[r] = "none" <=> status[r] = "new"
    BY DEF FeedInv, ReportInv
  <2>2. "none" \notin Scripts
    BY NetworkAssumption
  <2>3. script \in [Runs -> Scripts \union {"none"}]
    BY <1>1 DEF FeedTypes
  <2> QED
    BY <2>1, <2>2, <2>3 DEF Feed!Report
<1>6. ASSUME NEW r \in Runs, NEW name \in Scripts, Feed!Begin(r, name) PROVE FeedInv'
  <2>1. /\ status[r] = "new"
        /\ script' = [script EXCEPT ![r] = name]
        /\ status' = [status EXCEPT ![r] = "running"]
        /\ feedOutbox' = Append(feedOutbox, Feed!Report(r, name, "begin"))
        /\ UNCHANGED <<clock, feedRows, sent, told, missed, skipped>>
    BY <1>6 DEF Feed!Begin
  <2> QED
    BY <1>4, <2>1, FeedReport
<1>7. ASSUME NEW r \in Runs, Feed!Progress(r) PROVE FeedInv'
  <2>1. /\ status[r] = "running" /\ sent < MaxProgress
        /\ sent' = sent + 1
        /\ feedOutbox' = Append(feedOutbox, Feed!Report(r, script[r], "progress"))
        /\ UNCHANGED <<clock, script, status, feedRows, told, missed, skipped>>
    BY <1>7 DEF Feed!Progress
  <2>2. PICK name \in Scripts : name = script[r]
    BY <1>5, <2>1
  <2>3. script' = [script EXCEPT ![r] = name]
    BY <1>5, <2>1, <2>2
  <2>4. status' = [status EXCEPT ![r] = "running"]
    BY <1>1, <2>1 DEF FeedTypes
  <2>5. sent' \in 0..MaxProgress
    BY <1>4, <2>1
  <2> QED
    BY <2>1, <2>2, <2>3, <2>4, <2>5, FeedReport
<1>8. ASSUME NEW r \in Runs, Feed!End(r) PROVE FeedInv'
  <2>1. /\ status[r] = "running"
        /\ status' = [status EXCEPT ![r] = "over"]
        /\ feedOutbox' = Append(feedOutbox, Feed!Report(r, script[r], "end"))
        /\ UNCHANGED <<clock, script, feedRows, sent, told, missed, skipped>>
    BY <1>8 DEF Feed!End
  <2>2. PICK name \in Scripts : name = script[r]
    BY <1>5, <2>1
  <2>3. script' = [script EXCEPT ![r] = name]
    BY <1>5, <2>1, <2>2
  <2> QED
    BY <1>4, <2>1, <2>2, <2>3, FeedReport
<1>9. ASSUME NEW r \in Runs, Feed!Kill(r) PROVE FeedInv'
  <2>1. /\ status[r] = "running"
        /\ status' = [status EXCEPT ![r] = "killed"]
        /\ UNCHANGED <<clock, script, feedOutbox, feedRows, sent, told, missed, skipped>>
    BY <1>9 DEF Feed!Kill
  <2>2. status \in [Runs -> {"new", "running", "over", "killed"}]
    BY <1>1 DEF FeedTypes
  <2>3. status' \in [Runs -> {"new", "running", "over", "killed"}]
        /\ \A q \in Runs : /\ status'[q] = "new" <=> status[q] = "new"
                           /\ status'[q] = "over" <=> status[q] = "over"
    BY <2>1, <2>2
  <2>4. FeedTypes'
    BY <1>1, <2>1, <2>3 DEF FeedTypes
  <2>5. OutcomeInv' /\ CountInv'
    BY <2>1, FeedSame
  <2>6. ReportInv'
    <3>1. \A q \in Runs : IsUnderway(q, "end")' <=> IsUnderway(q, "end")
      BY <2>1 DEF IsUnderway
    <3> QED
      BY <2>1, <2>3, <3>1 DEF FeedInv, ReportInv
  <2> QED
    BY <2>4, <2>5, <2>6 DEF FeedInv
<1> QED
  BY <1>2, <1>3, <1>6, <1>7, <1>8, <1>9 DEF Feed!Next

LEMMA FeedStart ==
    ASSUME Feed!Init
    PROVE  FeedInv
<1> USE DEF Feed!Init
<1>1. FeedTypes
  <2>1. clock = 0 /\ sent = 0 /\ MaxTime \in Nat /\ MaxProgress \in Nat
    BY Bounds
  <2>2. clock \in 0..MaxTime /\ sent \in 0..MaxProgress
    BY <2>1
  <2> QED
    BY <2>2 DEF FeedTypes, Feed!None
<1>2. ReportInv /\ OutcomeInv
  BY DEF ReportInv, OutcomeInv, IsUnderway, Feed!None
<1>3. CountInv
  <2> SUFFICES ASSUME NEW name \in Scripts
               PROVE  IsFiniteSet(Active(name)) /\ Cardinality(Open(name)) <= Cardinality(Active(name))
    BY DEF CountInv
  <2>1. \A r \in Runs : script[r] # name
    BY NetworkAssumption DEF Feed!None
  <2>2. Active(name) = {}
    BY <2>1 DEF Active
  <2>3. Open(name) = {}
    BY DEF Open
  <2> QED
    BY <2>2, <2>3, FS_EmptySet
<1> QED
  BY <1>1, <1>2, <1>3 DEF FeedInv

\* The feed is right: its outcomes are kept, and what is shown as running has a reason.
LEMMA FeedAgrees ==
    ASSUME FeedInv
    PROVE  Feed!TypeOK /\ Feed!OutcomesKept /\ Feed!RunningIsExplained
<1>1. FeedTypes /\ ReportInv /\ OutcomeInv /\ CountInv
  BY DEF FeedInv
<1>2. /\ Len(feedRows) \in Nat /\ DOMAIN feedRows = 1..Len(feedRows)
      /\ \A i \in 1..Len(feedRows) : feedRows[i].script \in Scripts
  <2>1. feedRows \in Seq(Activities)
    BY <1>1 DEF FeedTypes
  <2>2. \A i \in 1..Len(feedRows) : feedRows[i] \in Activities
    BY <1>1, FeedElements
  <2>3. \A i \in 1..Len(feedRows) : feedRows[i].script \in Scripts
    BY <2>2 DEF Activities
  <2> QED
    BY <2>1, <2>3
<1>3. Feed!TypeOK
  BY <1>1, <1>2 DEF FeedTypes, Feed!TypeOK, Feed!None, Feed!NoRun
<1>4. Feed!OutcomesKept
  <2> SUFFICES ASSUME NEW r \in told \ skipped
               PROVE  /\ Feed!Cardinality(Feed!EndsOf(r)) = 1
                      /\ \A i \in Feed!EndsOf(r) : feedRows[i].script = script[r]
    BY DEF Feed!OutcomesKept
  <2>1. PICK i \in 1..Len(feedRows) : Feed!EndsOf(r) = {i} /\ feedRows[i].script = script[r]
    BY <1>1 DEF OutcomeInv
  <2>2. Feed!Cardinality({i}) = Cardinality({i})
    BY DEF Cardinality, Feed!Cardinality
  <2> QED
    BY <2>1, <2>2, FS_Singleton
<1>5. Feed!RunningIsExplained
  <2> SUFFICES ASSUME NEW name \in Scripts, Feed!Quiet(name), NEW i \in DOMAIN feedRows,
                      feedRows[i].script = name, feedRows[i].running
               PROVE  FALSE
    BY DEF Feed!RunningIsExplained
  <2>1. feedOutbox = <<>> /\ \A r \in Runs : script[r] = name => status[r] = "over" /\ r \notin missed \union skipped
    BY DEF Feed!Quiet
  <2>2. Active(name) = {}
    <3>1. \A r \in Runs : ~IsUnderway(r, "end")
      BY <2>1 DEF IsUnderway
    <3> QED
      BY <1>1, <2>1, <3>1 DEF Active, ReportInv
  <2>3. Cardinality(Open(name)) <= Cardinality(Active(name))
    BY <1>1, <2>1 DEF CountInv, FeedTypes
  <2>4. i \in Open(name)
    BY <1>2 DEF Open
  <2>5. Open(name) \subseteq 1..Len(feedRows)
    BY DEF Open
  <2>6. IsFiniteSet(Open(name))
    <3>1. IsFiniteSet(1..Len(feedRows))
      BY <1>2, FS_Interval
    <3> QED
      BY <2>5, <3>1, FS_Subset
  <2>7. Cardinality(Open(name)) \in Nat /\ Cardinality(Open(name)) # 0 /\ Cardinality({}) = 0
    BY <2>4, <2>6, FS_CardinalityType, FS_EmptySet
  <2> QED
    BY <2>2, <2>3, <2>7
<1> QED
  BY <1>3, <1>4, <1>5

-----------------------------------------------------------------------------
(* File browser (fileserver.rs)                                            *)

Uploads == [inode : Inodes, size : 1..MaxSize, writing : BOOLEAN]

BrowserTypes ==
    /\ entry \in [Paths -> Inodes \union {0}]
    /\ content \in [Inodes -> Seq(Nat)] /\ \A i \in Inodes : Len(content[i]) <= MaxSize
    /\ uploads \in Seq(Uploads)
    /\ stream \in [open : BOOLEAN, inode : Inodes \union {0}, at : Nat, left : 0..Word - 1]
    /\ stream.open => stream.inode \in Inodes
    /\ client \in [state : {"new", "reading", "broken", "done"}, path : Paths \union {0},
                   total : Nat, have : Seq(Nat)]
    /\ breaks \in 0..MaxBreaks /\ changed \in BOOLEAN

\* No inode has two paths.
EntryInv ==
    \A p, q \in Paths : entry[p] = entry[q] /\ entry[p] # 0 => p = q

\* An inode has nothing but one upload, or its only writer has not written.
FileInv ==
    \A i \in Inodes \ mixed :
        \/ content[i] = <<>> /\ \E u \in 1..Len(uploads) : Browser!Writing(i) = {u}
        \/ Browser!Writing(i) = {} /\ \E v : \A k \in 1..Len(content[i]) : content[i][k] = v

\* have is the beginning of the file, and an answer that is open goes on from there.
Follows(have, state, file, i) ==
    /\ Len(have) <= Len(file) /\ \A k \in 1..Len(have) : have[k] = file[k]
    /\ state = "done" => Len(have) = Len(file)
    /\ stream.open => stream.inode = i /\ stream.at = Len(have)
                      /\ stream.left = Len(file) - Len(have)

ClientInv ==
    /\ stream.open <=> client.state = "reading"
    /\ client.state = "new" => client.have = <<>>
    /\ client.state # "new" => client.path \in Paths
    /\ client.state # "new" /\ ~changed =>
          /\ entry[client.path] \in Inodes
          /\ Follows(client.have, client.state, content[entry[client.path]], entry[client.path])

BrowserInv == BrowserTypes /\ EntryInv /\ FileInv /\ ClientInv

\* Positions do not wrap around as long as a client has no more than the file.
LEMMA Positions ==
    ASSUME NEW from \in Nat, NEW total \in Nat, total <= MaxSize
    PROVE  LET span == Browser!Span(from, total) IN
           /\ span.start = from
           /\ Browser!Claimed(span) \in 0..Word - 1
           /\ from <= total => Browser!Claimed(span) = total - from
<1> DEFINE last == Browser!Minus(total, 1)
           span == Browser!Span(from, total)
<1>1. Word \in Nat /\ MaxSize \in Nat /\ MaxSize < Word
  BY Bounds
<1>2. last = (total + Word - 1) % Word
  BY DEF Browser!Minus
<1>3. last \in 0..Word - 1
  BY <1>1, <1>2
<1>4. last = IF total = 0 THEN Word - 1 ELSE total - 1
  <2>1. CASE total = 0
    <3>1. total + Word - 1 = Word - 1 /\ Word - 1 \in Nat /\ Word - 1 < Word
      BY <1>1, <2>1
    <3>2. (Word - 1) % Word = Word - 1
      BY <1>1, <3>1
    <3> QED
      BY <1>2, <2>1, <3>1, <3>2
  <2>2. CASE total # 0
    <3>1. total + Word - 1 = (total - 1) + Word /\ total - 1 \in Nat /\ total - 1 < Word
      BY <1>1, <2>2
    <3>2. ((total - 1) + Word) % Word = total - 1
      BY <1>1, <3>1
    <3> QED
      BY <1>2, <2>2, <3>1, <3>2
  <2> QED
    BY <2>1, <2>2
<1>5. span = [start |-> from, end |-> last]
  BY DEF Browser!Span, Browser!From
<1> HIDE DEF last
<1>6. span.start = from /\ span.end = last
  <2> HIDE DEF span
  <2> QED
    BY <1>5
<1>7. Browser!Claimed(span) = (last + 1 + Word - from) % Word
  <2> HIDE DEF span
  <2> QED
    BY <1>6 DEF Browser!Claimed, Browser!Minus
<1>8. (last + 1 + Word - from) % Word \in 0..Word - 1
  BY <1>1, <1>3
<1>9. ASSUME from <= total PROVE (last + 1 + Word - from) % Word = total - from
  <2>1. CASE total = 0
    <3>1. last + 1 + Word - from = Word + Word
      BY <1>1, <1>4, <1>9, <2>1
    <3>2. (Word + Word) % Word = 0
      BY <1>1
    <3> QED
      BY <1>1, <1>9, <2>1, <3>1, <3>2
  <2>2. CASE total # 0
    <3>1. last + 1 + Word - from = (total - from) + Word /\ total - from \in Nat /\ total - from < Word
      BY <1>1, <1>4, <1>9, <2>2
    <3>2. ((total - from) + Word) % Word = total - from
      BY <1>1, <3>1
    <3> QED
      BY <3>1, <3>2
  <2> QED
    BY <2>1, <2>2
<1> QED
  BY <1>6, <1>7, <1>8, <1>9

\* As long as its file is left alone, a client goes on as before.
LEMMA ClientKeeps ==
    ASSUME BrowserInv, UNCHANGED <<stream, client>>,
           \/ changed' = TRUE
           \/ client.state = "new"
           \/ /\ changed' = changed /\ entry'[client.path] = entry[client.path]
              /\ ~changed => content'[entry[client.path]] = content[entry[client.path]]
    PROVE  ClientInv'
<1>1. ClientInv
  BY DEF BrowserInv
<1>2. \A have, state, file, i : Follows(have, state, file, i)' <=> Follows(have, state, file, i)
  BY DEF Follows
<1>3. CASE changed' = TRUE \/ client.state = "new"
  BY <1>1, <1>3 DEF ClientInv
<1>4. CASE changed' = changed /\ entry'[client.path] = entry[client.path]
           /\ (~changed => content'[entry[client.path]] = content[entry[client.path]])
  <2>1. ASSUME client.state # "new", ~changed
        PROVE  /\ entry'[client.path] \in Inodes
               /\ Follows(client.have, client.state, content'[entry'[client.path]],
                          entry'[client.path])
    BY <1>1, <1>4, <2>1 DEF ClientInv
  <2>2. ASSUME client.state # "new", ~changed
        PROVE  Follows(client.have, client.state, content[entry[client.path]], entry[client.path])'
    BY <1>4, <2>1, <2>2 DEF Follows
  <2> QED
    BY <1>1, <1>4, <2>1, <2>2 DEF ClientInv
<1> QED
  BY <1>3, <1>4

\* Files stay as they are when nothing is uploaded.
LEMMA FileKeeps ==
    ASSUME BrowserInv, UNCHANGED <<content, uploads, mixed>>
    PROVE  FileInv'
<1>1. \A i : Browser!Writing(i)' = Browser!Writing(i)
  BY DEF Browser!Writing
<1> QED
  BY <1>1 DEF BrowserInv, FileInv

LEMMA BrowserMove ==
    ASSUME BrowserInv, NEW p \in Paths, NEW q \in Paths, Browser!Move(p, q)
    PROVE  BrowserInv'
<1>1. BrowserTypes /\ EntryInv
  BY DEF BrowserInv
<1>2. /\ entry[p] # 0 /\ p # q
      /\ entry' = [entry EXCEPT ![q] = entry[p], ![p] = 0]
      /\ changed' = (changed \/ (client.state # "new" /\ client.path \in {p, q}))
      /\ UNCHANGED <<content, uploads, stream, client, breaks, mixed>>
  BY DEF Browser!Move, Browser!None
<1>3. entry \in [Paths -> Inodes \union {0}]
  BY <1>1 DEF BrowserTypes
<1>4. entry' \in [Paths -> Inodes \union {0}]
      /\ \A r \in Paths : entry'[r] = IF r = p THEN 0 ELSE IF r = q THEN entry[p] ELSE entry[r]
  BY <1>2, <1>3
<1>5. changed' \in BOOLEAN
  <2>1. changed' = TRUE \/ changed' = changed
    BY <1>2, <1>1 DEF BrowserTypes
  <2> QED
    BY <1>1, <2>1 DEF BrowserTypes
<1>6. BrowserTypes'
  BY <1>1, <1>2, <1>4, <1>5 DEF BrowserTypes
<1>7. EntryInv'
  BY <1>1, <1>2, <1>4 DEF EntryInv
<1>8. FileInv'
  BY <1>2, FileKeeps
<1>9. ClientInv'
  <2>1. CASE client.state = "new"
    BY <1>2, <2>1, ClientKeeps
  <2>2. CASE client.state # "new" /\ client.path \in {p, q}
    <3>1. changed' = TRUE
      BY <1>2, <2>2
    <3> QED
      BY <1>2, <3>1, ClientKeeps
  <2>3. CASE client.state # "new" /\ client.path \notin {p, q}
    <3>1. client.path \in Paths
      BY <2>3 DEF BrowserInv, ClientInv
    <3>2. entry'[client.path] = entry[client.path]
      BY <1>4, <2>3, <3>1
    <3>3. changed' = changed
      BY <1>1, <1>2, <2>3 DEF BrowserTypes
    <3> QED
      BY <1>2, <3>2, <3>3, ClientKeeps
  <2> QED
    BY <2>1, <2>2, <2>3
<1> QED
  BY <1>6, <1>7, <1>8, <1>9 DEF BrowserInv

LEMMA BrowserDelete ==
    ASSUME BrowserInv, NEW p \in Paths, Browser!Delete(p)
    PROVE  BrowserInv'
<1>1. BrowserTypes /\ EntryInv
  BY DEF BrowserInv
<1>2. /\ entry' = [entry EXCEPT ![p] = 0]
      /\ changed' = (changed \/ (client.state # "new" /\ client.path = p))
      /\ UNCHANGED <<content, uploads, stream, client, breaks, mixed>>
  BY DEF Browser!Delete, Browser!Note, Browser!None
<1>3. entry \in [Paths -> Inodes \union {0}]
  BY <1>1 DEF BrowserTypes
<1>4. entry' \in [Paths -> Inodes \union {0}]
      /\ \A r \in Paths : entry'[r] = IF r = p THEN 0 ELSE entry[r]
  BY <1>2, <1>3
<1>5. changed' \in BOOLEAN
  <2>1. changed' = TRUE \/ changed' = changed
    BY <1>2, <1>1 DEF BrowserTypes
  <2> QED
    BY <1>1, <2>1 DEF BrowserTypes
<1>6. BrowserTypes'
  BY <1>1, <1>2, <1>4, <1>5 DEF BrowserTypes
<1>7. EntryInv'
  BY <1>1, <1>4 DEF EntryInv
<1>8. FileInv'
  BY <1>2, FileKeeps
<1>9. ClientInv'
  <2>1. CASE client.state = "new"
    BY <1>2, <2>1, ClientKeeps
  <2>2. CASE client.state # "new" /\ client.path = p
    <3>1. changed' = TRUE
      BY <1>2, <2>2
    <3> QED
      BY <1>2, <3>1, ClientKeeps
  <2>3. CASE client.state # "new" /\ client.path # p
    <3>1. client.path \in Paths
      BY <2>3 DEF BrowserInv, ClientInv
    <3>2. entry'[client.path] = entry[client.path]
      BY <1>4, <2>3, <3>1
    <3>3. changed' = changed
      BY <1>1, <1>2, <2>3 DEF BrowserTypes
    <3> QED
      BY <1>2, <3>2, <3>3, ClientKeeps
  <2> QED
    BY <2>1, <2>2, <2>3
<1> QED
  BY <1>6, <1>7, <1>8, <1>9 DEF BrowserInv

\* What an upload is in the sequence of uploads, and who writes to an inode.
LEMMA UploadElements ==
    ASSUME BrowserTypes
    PROVE  /\ Len(uploads) \in Nat /\ DOMAIN uploads = 1..Len(uploads)
           /\ \A u \in 1..Len(uploads) : uploads[u] \in Uploads
           /\ \A i : Browser!Writing(i) =
                       {u \in 1..Len(uploads) : uploads[u].inode = i /\ uploads[u].writing}
<1>1. uploads \in Seq(Uploads)
  BY DEF BrowserTypes
<1>2. Len(uploads) \in Nat /\ DOMAIN uploads = 1..Len(uploads)
  BY <1>1
<1>3. \A u \in 1..Len(uploads) : uploads[u] \in Uploads
  BY <1>1, ElementOfSeq
<1> QED
  BY <1>2, <1>3 DEF Browser!Writing

LEMMA BrowserBegin ==
    ASSUME BrowserInv, NEW p \in Paths, Browser!BeginUpload(p)
    PROVE  BrowserInv'
<1> DEFINE n == Len(uploads)
<1>1. BrowserTypes /\ EntryInv /\ FileInv
  BY DEF BrowserInv
<1>2. PICK size \in 1..MaxSize,
           i \in IF entry[p] # 0 THEN {entry[p]} ELSE Inodes \ Browser!InUse :
        /\ entry' = [entry EXCEPT ![p] = i]
        /\ content' = [content EXCEPT ![i] = <<>>]
        /\ uploads' = Append(uploads, [inode |-> i, size |-> size, writing |-> TRUE])
        /\ mixed' = IF Browser!Writing(i) # {} THEN mixed \union {i} ELSE mixed \ {i}
  BY DEF Browser!BeginUpload, Browser!None, Browser!Cut
<1>3. /\ changed' = (changed \/ (client.state # "new" /\ client.path = p))
      /\ UNCHANGED <<stream, client, breaks>>
  BY DEF Browser!BeginUpload, Browser!Note
<1>4. entry \in [Paths -> Inodes \union {0}]
  BY <1>1 DEF BrowserTypes
<1>5. i \in Inodes /\ \A r \in Paths : entry[r] = i => r = p
  <2>1. CASE entry[p] # 0
    BY <1>1, <1>2, <1>4, <2>1 DEF EntryInv
  <2>2. CASE entry[p] = 0
    BY <1>2, <2>2 DEF Browser!InUse, Browser!Linked
  <2> QED
    BY <2>1, <2>2
<1>6. i # 0
  BY <1>5, NetworkAssumption
<1>7. entry' \in [Paths -> Inodes \union {0}]
      /\ \A r \in Paths : entry'[r] = IF r = p THEN i ELSE entry[r]
  BY <1>2, <1>4, <1>5
<1>8. content \in [Inodes -> Seq(Nat)] /\ \A j \in Inodes : Len(content[j]) <= MaxSize
  BY <1>1 DEF BrowserTypes
<1>9. MaxSize \in Nat
  BY Bounds
<1>10. /\ content' \in [Inodes -> Seq(Nat)]
       /\ \A j \in Inodes : content'[j] = IF j = i THEN <<>> ELSE content[j]
       /\ \A j \in Inodes : Len(content'[j]) <= MaxSize
  <2>1. <<>> \in Seq(Nat) /\ Len(<<>>) = 0
    OBVIOUS
  <2> QED
    BY <1>2, <1>5, <1>8, <1>9, <2>1
<1> DEFINE upload == [inode |-> i, size |-> size, writing |-> TRUE]
<1>11. upload \in Uploads /\ upload.inode = i /\ upload.writing = TRUE
  BY <1>5 DEF Uploads
<1>12. uploads \in Seq(Uploads) /\ uploads' = Append(uploads, upload) /\ n \in Nat
  BY <1>1, <1>2, UploadElements DEF BrowserTypes
<1> HIDE DEF upload
<1>13. /\ uploads' \in Seq(Uploads) /\ Len(uploads') = n + 1
       /\ uploads'[n + 1] = upload /\ \A u \in 1..n : uploads'[u] = uploads[u]
  BY <1>11, <1>12
<1>14. changed' \in BOOLEAN
  <2>1. changed' = TRUE \/ changed' = changed
    BY <1>1, <1>3 DEF BrowserTypes
  <2> QED
    BY <1>1, <2>1 DEF BrowserTypes
<1>15. BrowserTypes'
  BY <1>1, <1>3, <1>7, <1>10, <1>13, <1>14 DEF BrowserTypes
<1>16. EntryInv'
  BY <1>1, <1>5, <1>7 DEF EntryInv
<1>17. FileInv'
  <2>1. DOMAIN uploads' = 1..n + 1
    BY <1>13
  <2>2. \A j : Browser!Writing(j)' = {u \in 1..n + 1 : uploads'[u].inode = j /\ uploads'[u].writing}
    BY <2>1 DEF Browser!Writing
  <2>3. \A j : Browser!Writing(j) = {u \in 1..n : uploads[u].inode = j /\ uploads[u].writing}
    BY <1>1, UploadElements
  <2>4. \A u \in 1..n + 1 : u \in 1..n \/ u = n + 1
    BY <1>12
  <2>5. 1..n \subseteq 1..n + 1 /\ n + 1 \in 1..n + 1
    BY <1>12
  <2> HIDE DEF n
  <2>6. \A j, u : u \in Browser!Writing(j)' <=>
                    u \in Browser!Writing(j) \/ (u = n + 1 /\ j = i)
    <3> SUFFICES ASSUME NEW j, NEW u
                 PROVE  u \in Browser!Writing(j)' <=>
                          u \in Browser!Writing(j) \/ (u = n + 1 /\ j = i)
      OBVIOUS
    <3>1. u \in 1..n + 1 <=> u \in 1..n \/ u = n + 1
      BY <2>4, <2>5
    <3>2. n + 1 \notin 1..n
      BY <1>12 DEF n
    <3>3. CASE u = n + 1
      BY <1>11, <1>13, <2>2, <2>3, <3>1, <3>2, <3>3
    <3>4. CASE u # n + 1
      BY <1>13, <2>2, <2>3, <3>1, <3>4
    <3> QED
      BY <3>3, <3>4
  <2>7. /\ \A j : j # i => Browser!Writing(j)' = Browser!Writing(j)
        /\ Browser!Writing(i) = {} => Browser!Writing(i)' = {n + 1}
    <3>1. ASSUME NEW j, j # i PROVE Browser!Writing(j)' = Browser!Writing(j)
      <4>1. \A u : u \in Browser!Writing(j)' <=> u \in Browser!Writing(j)
        BY <2>6, <3>1
      <4> QED
        BY <4>1
    <3>2. ASSUME Browser!Writing(i) = {} PROVE Browser!Writing(i)' = {n + 1}
      BY <2>6, <3>2
    <3> QED
      BY <3>1, <3>2
  <2>8. ASSUME NEW j \in Inodes \ mixed'
        PROVE  \/ content'[j] = <<>> /\ \E u \in 1..n + 1 : Browser!Writing(j)' = {u}
               \/ Browser!Writing(j)' = {} /\ \E v : \A k \in 1..Len(content'[j]) : content'[j][k] = v
    <3>1. CASE j = i
      <4>1. Browser!Writing(i) = {}
        BY <1>2, <2>8, <3>1
      <4> QED
        BY <1>10, <2>5, <2>7, <3>1, <4>1
    <3>2. CASE j # i
      <4>1. j \notin mixed
        BY <1>2, <2>8, <3>2
      <4>2. \/ content[j] = <<>> /\ \E u \in 1..n : Browser!Writing(j) = {u}
            \/ Browser!Writing(j) = {} /\ \E v : \A k \in 1..Len(content[j]) : content[j][k] = v
        BY <1>1, <4>1 DEF FileInv, n
      <4>3. content'[j] = content[j]
        BY <1>10, <3>2
      <4> QED
        BY <2>5, <2>7, <3>2, <4>2, <4>3
    <3> QED
      BY <3>1, <3>2
  <2> QED
    BY <1>13, <2>8 DEF FileInv
<1>18. ClientInv'
  <2>1. CASE client.state = "new"
    BY <1>3, <2>1, ClientKeeps
  <2>2. CASE client.state # "new" /\ client.path = p
    <3>1. changed' = TRUE
      BY <1>3, <2>2
    <3> QED
      BY <1>3, <3>1, ClientKeeps
  <2>3. CASE client.state # "new" /\ client.path # p
    <3>1. client.path \in Paths /\ (~changed => entry[client.path] \in Inodes)
      BY <2>3 DEF BrowserInv, ClientInv
    <3>2. entry'[client.path] = entry[client.path] /\ entry[client.path] # i
      BY <1>5, <1>7, <2>3, <3>1
    <3>3. changed' = changed
      BY <1>1, <1>3, <2>3 DEF BrowserTypes
    <3>4. ~changed => content'[entry[client.path]] = content[entry[client.path]]
      BY <1>10, <3>1, <3>2
    <3> QED
      BY <1>3, <3>2, <3>3, <3>4, ClientKeeps
  <2> QED
    BY <2>1, <2>2, <2>3
<1> QED
  BY <1>15, <1>16, <1>17, <1>18 DEF BrowserInv

LEMMA BrowserWrite ==
    ASSUME BrowserInv, NEW w \in DOMAIN uploads, Browser!WriteUpload(w)
    PROVE  BrowserInv'
<1> DEFINE n == Len(uploads)
<1>1. BrowserTypes /\ EntryInv /\ FileInv
  BY DEF BrowserInv
<1>2. /\ uploads \in Seq(Uploads) /\ n \in Nat /\ DOMAIN uploads = 1..n
      /\ w \in 1..n /\ uploads[w] \in Uploads
  BY <1>1, UploadElements DEF BrowserTypes
<1>3. PICK i \in Inodes, size \in 1..MaxSize : i = uploads[w].inode /\ size = uploads[w].size
  BY <1>2 DEF Uploads
<1> DEFINE head == [k \in 1..size |-> w]
           tail == SubSeq(content[i], size + 1, Len(content[i]))
           file == head \o tail
<1>4. /\ uploads[w].writing
      /\ content' = [content EXCEPT ![i] = file]
      /\ uploads' = [uploads EXCEPT ![w].writing = FALSE]
      /\ changed' = (changed \/ client.state # "new")
      /\ UNCHANGED <<entry, stream, client, breaks, mixed>>
  BY <1>3 DEF Browser!WriteUpload
<1>5. content \in [Inodes -> Seq(Nat)] /\ \A j \in Inodes : Len(content[j]) <= MaxSize
  BY <1>1 DEF BrowserTypes
<1>6. MaxSize \in Nat
  BY Bounds
<1>7. head \in Seq(Nat) /\ Len(head) = size /\ \A k \in 1..size : head[k] = w
  BY <1>2
<1>8. /\ tail \in Seq(Nat)
      /\ Len(tail) = IF size + 1 <= Len(content[i]) THEN Len(content[i]) - (size + 1) + 1 ELSE 0
  <2>1. content[i] \in Seq(Nat) /\ Len(content[i]) \in Nat
    BY <1>5
  <2>2. \A k \in 1..Len(content[i]) : content[i][k] \in Nat
    BY <2>1
  <2>3. size + 1 \in Int /\ Len(content[i]) \in Int
        /\ \A k \in size + 1 .. Len(content[i]) : k \in 1..Len(content[i])
    BY <1>6, <2>1
  <2> QED
    BY <2>2, <2>3, SubSeqProperties
<1> HIDE DEF head, tail
<1>9. file \in Seq(Nat) /\ Len(file) = size + Len(tail)
      /\ \A k \in 1..size : file[k] = head[k]
  <2>1. file \in Seq(Nat) /\ Len(file) = Len(head) + Len(tail)
        /\ \A k \in 1..Len(head) + Len(tail) :
              file[k] = IF k <= Len(head) THEN head[k] ELSE tail[k - Len(head)]
    BY <1>7, <1>8, ConcatProperties
  <2>2. size \in Nat /\ Len(tail) \in Nat
    BY <1>6, <1>8
  <2> HIDE DEF file
  <2>3. \A k \in 1..size : k \in 1..size + Len(tail) /\ k <= size
    BY <2>2
  <2> QED
    BY <1>7, <2>1, <2>3
<1>10. Len(file) <= MaxSize
  <2>1. Len(content[i]) \in Nat /\ Len(content[i]) <= MaxSize
    BY <1>5
  <2> QED
    BY <1>6, <1>8, <1>9, <2>1
<1> HIDE DEF file
<1>11. /\ content' \in [Inodes -> Seq(Nat)]
       /\ \A j \in Inodes : content'[j] = IF j = i THEN file ELSE content[j]
       /\ \A j \in Inodes : Len(content'[j]) <= MaxSize
  BY <1>4, <1>5, <1>9, <1>10
<1> DEFINE upload == [uploads[w] EXCEPT !.writing = FALSE]
<1>12. upload \in Uploads /\ upload.inode = i /\ upload.writing = FALSE
  BY <1>2, <1>3 DEF Uploads
<1>13. uploads' = [uploads EXCEPT ![w] = upload]
  BY <1>2, <1>4
<1> HIDE DEF upload
<1>14. /\ uploads' \in Seq(Uploads) /\ Len(uploads') = n
       /\ \A u \in 1..n : uploads'[u] = IF u = w THEN upload ELSE uploads[u]
  BY <1>2, <1>12, <1>13
<1>15. changed' \in BOOLEAN
  <2>1. changed' = TRUE \/ changed' = changed
    BY <1>1, <1>4 DEF BrowserTypes
  <2> QED
    BY <1>1, <2>1 DEF BrowserTypes
<1>16. BrowserTypes'
  BY <1>1, <1>4, <1>11, <1>14, <1>15 DEF BrowserTypes
<1>17. EntryInv'
  BY <1>1, <1>4 DEF EntryInv
<1>18. FileInv'
  <2>1. DOMAIN uploads' = 1..n
    BY <1>14
  <2>2. \A j : Browser!Writing(j)' = {u \in 1..n : uploads'[u].inode = j /\ uploads'[u].writing}
    BY <2>1 DEF Browser!Writing
  <2>3. \A j : Browser!Writing(j) = {u \in 1..n : uploads[u].inode = j /\ uploads[u].writing}
    BY <1>1, UploadElements
  <2> HIDE DEF n
  <2>4. ASSUME NEW j, j # i PROVE Browser!Writing(j)' = Browser!Writing(j)
    BY <1>2, <1>3, <1>12, <1>14, <2>2, <2>3, <2>4
  <2>5. w \in Browser!Writing(i) /\ Browser!Writing(i)' = Browser!Writing(i) \ {w}
    BY <1>2, <1>3, <1>4, <1>12, <1>14, <2>2, <2>3
  <2>6. ASSUME NEW j \in Inodes \ mixed
        PROVE  \/ content'[j] = <<>> /\ \E u \in 1..n : Browser!Writing(j)' = {u}
               \/ Browser!Writing(j)' = {} /\ \E v : \A k \in 1..Len(content'[j]) : content'[j][k] = v
    <3>1. \/ content[j] = <<>> /\ \E u \in 1..n : Browser!Writing(j) = {u}
          \/ Browser!Writing(j) = {} /\ \E v : \A k \in 1..Len(content[j]) : content[j][k] = v
      BY <1>1 DEF FileInv, n
    <3>2. CASE j = i
      <4>1. content[i] = <<>> /\ Browser!Writing(i) = {w}
        BY <2>5, <3>1, <3>2
      <4>2. Len(content[i]) = 0
        BY <4>1
      <4>3. Len(tail) = 0
        BY <1>6, <1>8, <4>2
      <4>4. Len(file) = size
        BY <1>6, <1>9, <4>3
      <4>5. \A k \in 1..Len(file) : file[k] = w
        BY <1>7, <1>9, <4>4
      <4>6. Browser!Writing(i)' = {}
        BY <2>5, <4>1
      <4> QED
        BY <1>11, <3>2, <4>5, <4>6
    <3>3. CASE j # i
      BY <1>11, <2>4, <3>1, <3>3
    <3> QED
      BY <3>2, <3>3
  <2> QED
    BY <1>4, <1>14, <2>6 DEF FileInv
<1>19. ClientInv'
  <2>1. client.state = "new" \/ changed' = TRUE
    BY <1>4
  <2> QED
    BY <1>4, <2>1, ClientKeeps
<1> QED
  BY <1>16, <1>17, <1>18, <1>19 DEF BrowserInv

\* A client asks for the file, from where it was cut off.
LEMMA BrowserRequest ==
    ASSUME BrowserInv, NEW p \in Paths, Browser!Request(p)
    PROVE  BrowserInv'
<1> DEFINE i == entry[p]
           have == client.have
           total == Len(content[i])
           span == Browser!Span(Len(have), total)
           answer == [open |-> TRUE, inode |-> i, at |-> Len(have), left |-> Browser!Claimed(span)]
           reader == [client EXCEPT !.state = "reading", !.path = p, !.total = total]
<1>1. BrowserTypes /\ EntryInv /\ ClientInv
  BY DEF BrowserInv
<1>2. /\ client.state \in {"new", "broken"} /\ ~stream.open
      /\ client.state = "broken" => client.path = p
      /\ i # 0
      /\ stream' = [open |-> TRUE, inode |-> i, at |-> span.start, left |-> Browser!Claimed(span)]
      /\ client' = reader
      /\ changed' = (changed \/ Browser!Writing(i) # {})
      /\ UNCHANGED <<entry, content, uploads, breaks, mixed>>
  BY DEF Browser!Request, Browser!None
<1>3. client \in [state : {"new", "reading", "broken", "done"}, path : Paths \union {0},
                  total : Nat, have : Seq(Nat)]
  BY <1>1 DEF BrowserTypes
<1>4. i \in Inodes
  BY <1>1, <1>2 DEF BrowserTypes
<1>5. total \in Nat /\ total <= MaxSize
  <2>1. content[i] \in Seq(Nat) /\ Len(content[i]) <= MaxSize
    BY <1>1, <1>4 DEF BrowserTypes
  <2> QED
    BY <2>1
<1>6. have \in Seq(Nat) /\ Len(have) \in Nat
  <2>1. have \in Seq(Nat)
    BY <1>3
  <2> QED
    BY <2>1
<1> HIDE DEF have, total
<1>7. /\ span.start = Len(have)
      /\ Browser!Claimed(span) \in 0..Word - 1
      /\ Len(have) <= total => Browser!Claimed(span) = total - Len(have)
  BY <1>5, <1>6, Positions
<1> HIDE DEF span, i
<1>8. /\ stream' = answer
      /\ answer.open = TRUE /\ answer.inode = i /\ answer.at = Len(have)
      /\ answer.left = Browser!Claimed(span)
      /\ answer \in [open : BOOLEAN, inode : Inodes \union {0}, at : Nat, left : 0..Word - 1]
  BY <1>2, <1>4, <1>6, <1>7
<1>9. /\ reader \in [state : {"new", "reading", "broken", "done"}, path : Paths \union {0},
                     total : Nat, have : Seq(Nat)]
      /\ reader.state = "reading" /\ reader.path = p /\ reader.have = have
  BY <1>3, <1>5 DEF have
<1> HIDE DEF answer, reader
<1>10. changed' \in BOOLEAN
  <2>1. changed' = TRUE \/ changed' = changed
    <3>1. changed = TRUE \/ changed = FALSE
      BY <1>1 DEF BrowserTypes
    <3> QED
      BY <1>2, <3>1
  <2> QED
    BY <1>1, <2>1 DEF BrowserTypes
<1>11. BrowserTypes'
  BY <1>1, <1>2, <1>4, <1>8, <1>9, <1>10 DEF BrowserTypes
<1>12. EntryInv'
  BY <1>1, <1>2 DEF EntryInv
<1>13. FileInv'
  BY <1>2, FileKeeps
<1>14. ClientInv'
  <2>1. /\ stream'.open <=> client'.state = "reading"
        /\ client'.state # "new" /\ client'.path \in Paths
    BY <1>2, <1>8, <1>9
  <2>2. ASSUME ~changed'
        PROVE  Len(have) <= total /\ \A k \in 1..Len(have) : have[k] = content[i][k]
    <3>1. CASE client.state = "new"
      <4>1. have = <<>>
        BY <1>1, <3>1 DEF ClientInv, have
      <4>2. Len(have) = 0
        BY <4>1
      <4> QED
        BY <1>5, <4>2
    <3>2. CASE client.state = "broken"
      <4>1. client.path = p /\ client.state # "new" /\ ~changed
        BY <1>2, <2>2, <3>2
      <4>2. Follows(have, client.state, content[i], i)
        BY <1>1, <4>1 DEF ClientInv, have, i
      <4> QED
        BY <4>2 DEF Follows, total
    <3> QED
      BY <1>2, <3>1, <3>2
  <2>3. client'.path = p /\ client'.have = have /\ client'.state = "reading"
    BY <1>2, <1>9
  <2>4. entry'[client'.path] = i /\ content' = content
    BY <1>2, <2>3 DEF i
  <2>5. stream'.inode = i /\ stream'.at = Len(have) /\ stream'.left = Browser!Claimed(span)
    BY <1>8
  <2>6. ASSUME ~changed'
        PROVE  Follows(client.have, client.state, content[entry[client.path]], entry[client.path])'
    BY <1>7, <2>2, <2>3, <2>4, <2>5, <2>6 DEF Follows, total
  <2> QED
    BY <1>4, <2>1, <2>4, <2>6 DEF ClientInv
<1> QED
  BY <1>11, <1>12, <1>13, <1>14 DEF BrowserInv

\* One byte more of the answer.
LEMMA BrowserSend ==
    ASSUME BrowserInv, Browser!Send
    PROVE  BrowserInv'
<1> DEFINE i == stream.inode
           have == client.have
           byte == content[i][stream.at + 1]
           more == Append(have, byte)
           answer == [stream EXCEPT !.at = @ + 1, !.left = @ - 1]
           reader == [client EXCEPT !.have = more]
<1>1. BrowserTypes /\ EntryInv /\ ClientInv
  BY DEF BrowserInv
<1>2. /\ stream.open /\ stream.left > 0 /\ stream.at < Len(content[i])
      /\ client' = reader
      /\ stream' = answer
      /\ UNCHANGED <<entry, content, uploads, breaks, mixed, changed>>
  BY DEF Browser!Send, Browser!Body
<1>3. client \in [state : {"new", "reading", "broken", "done"}, path : Paths \union {0},
                  total : Nat, have : Seq(Nat)]
  BY <1>1 DEF BrowserTypes
<1>4. stream \in [open : BOOLEAN, inode : Inodes \union {0}, at : Nat, left : 0..Word - 1]
  BY <1>1 DEF BrowserTypes
<1>5. i \in Inodes /\ content[i] \in Seq(Nat)
  BY <1>1, <1>2 DEF BrowserTypes
<1>6. stream.at \in Nat /\ stream.left \in Nat /\ stream.left - 1 \in 0..Word - 1
  <2>1. Word \in Nat
    BY Bounds
  <2>2. stream.at \in Nat /\ stream.left \in 0..Word - 1
    BY <1>4
  <2> QED
    BY <1>2, <2>1, <2>2
<1>7. byte \in Nat /\ Len(content[i]) \in Nat
  <2>1. stream.at + 1 \in 1..Len(content[i]) /\ Len(content[i]) \in Nat
    BY <1>2, <1>5, <1>6
  <2> QED
    BY <1>5, <2>1, ElementOfSeq
<1>8. have \in Seq(Nat)
  BY <1>3
<1> HIDE DEF have, i, byte
<1>9. /\ more \in Seq(Nat) /\ Len(more) = Len(have) + 1 /\ Len(have) \in Nat
      /\ more[Len(have) + 1] = byte
      /\ \A k \in 1..Len(have) : more[k] = have[k]
  BY <1>7, <1>8
<1> HIDE DEF more
<1>10. /\ reader \in [state : {"new", "reading", "broken", "done"}, path : Paths \union {0},
                      total : Nat, have : Seq(Nat)]
       /\ reader.state = client.state /\ reader.path = client.path /\ reader.have = more
  BY <1>3, <1>9
<1>11. /\ answer.open = stream.open /\ answer.inode = i
       /\ answer.at = stream.at + 1 /\ answer.left = stream.left - 1
       /\ answer \in [open : BOOLEAN, inode : Inodes \union {0}, at : Nat, left : 0..Word - 1]
  <2>1. answer = [stream EXCEPT !.at = stream.at + 1, !.left = stream.left - 1]
    BY <1>4
  <2>2. ASSUME NEW at \in Nat, NEW left \in 0..Word - 1
        PROVE  LET r == [stream EXCEPT !.at = at, !.left = left] IN
               /\ r.open = stream.open /\ r.inode = stream.inode /\ r.at = at /\ r.left = left
               /\ r \in [open : BOOLEAN, inode : Inodes \union {0}, at : Nat, left : 0..Word - 1]
    BY <1>4
  <2>3. stream.at + 1 \in Nat
    BY <1>6
  <2> HIDE DEF answer
  <2> QED
    BY <1>6, <2>1, <2>2, <2>3 DEF i
<1> HIDE DEF answer, reader
<1>12. BrowserTypes'
  BY <1>1, <1>2, <1>5, <1>10, <1>11 DEF BrowserTypes
<1>13. EntryInv'
  BY <1>1, <1>2 DEF EntryInv
<1>14. FileInv'
  BY <1>2, FileKeeps
<1>15. ClientInv'
  <2>1. client.state = "reading"
    BY <1>1, <1>2 DEF ClientInv
  <2>2. /\ client'.state = "reading" /\ client'.path = client.path /\ client'.have = more
        /\ stream'.open = stream.open /\ stream'.inode = i
        /\ stream'.at = stream.at + 1 /\ stream'.left = stream.left - 1
    BY <1>2, <1>10, <1>11, <2>1
  <2>3. client.path \in Paths
    BY <1>1, <2>1 DEF ClientInv
  <2>4. ASSUME ~changed
        PROVE  /\ entry[client.path] = i
               /\ Follows(have, client.state, content[i], i)
    <3>1. Follows(have, client.state, content[entry[client.path]], entry[client.path])
      BY <1>1, <2>1, <2>4 DEF ClientInv, have
    <3>2. entry[client.path] = i
      BY <1>2, <3>1 DEF Follows, i
    <3> QED
      BY <3>1, <3>2
  <2>5. entry'[client'.path] = entry[client.path] /\ content' = content /\ changed' = changed
    BY <1>2, <2>2
  <2>6. ASSUME ~changed
        PROVE  Follows(client.have, client.state, content[entry[client.path]], entry[client.path])'
    <3>1. /\ Len(have) <= Len(content[i]) /\ (\A k \in 1..Len(have) : have[k] = content[i][k])
          /\ stream.at = Len(have) /\ stream.left = Len(content[i]) - Len(have)
      BY <1>2, <2>4, <2>6 DEF Follows
    <3>2. more[Len(have) + 1] = content[i][Len(have) + 1]
      BY <1>9, <3>1 DEF byte
    <3>3. \A k \in 1..Len(more) : k \in 1..Len(have) \/ k = Len(have) + 1
      BY <1>9
    <3>4. Len(more) <= Len(content[i]) /\ \A k \in 1..Len(more) : more[k] = content[i][k]
      <4>1. Len(more) <= Len(content[i])
        BY <1>2, <1>7, <1>9, <3>1
      <4>2. \A k \in 1..Len(more) : more[k] = content[i][k]
        BY <1>9, <3>1, <3>2, <3>3
      <4> QED
        BY <4>1, <4>2
    <3>5. stream'.at = Len(more) /\ stream'.left = Len(content[i]) - Len(more)
      BY <1>7, <1>9, <2>2, <3>1
    <3>6. entry'[client'.path] = i
      BY <2>4, <2>5, <2>6
    <3> QED
      BY <2>2, <2>5, <3>4, <3>5, <3>6 DEF Follows
  <2> QED
    BY <1>1, <1>2, <1>5, <2>1, <2>2, <2>3, <2>4, <2>5, <2>6 DEF ClientInv
<1> QED
  BY <1>12, <1>13, <1>14, <1>15 DEF BrowserInv

\* The answer is over or breaks off: what the client has stays as it is.
LEMMA BrowserStop ==
    ASSUME BrowserInv, stream' = Browser!NoStream,
           UNCHANGED <<entry, content, uploads, mixed>>, breaks' \in 0..MaxBreaks,
           \/ stream.open /\ changed' = changed
                /\ client' = [client EXCEPT !.state = "broken"]
           \/ stream.open /\ stream.left = 0 /\ changed' = changed
                /\ client' = [client EXCEPT !.state = "done"]
    PROVE  BrowserInv'
<1> DEFINE Readers == [state : {"new", "reading", "broken", "done"}, path : Paths \union {0},
                       total : Nat, have : Seq(Nat)]
<1>1. BrowserTypes /\ EntryInv /\ ClientInv
  BY DEF BrowserInv
<1>2. client \in Readers
  BY <1>1 DEF BrowserTypes
<1>3. Word \in Nat /\ 0 \in 0..Word - 1
  BY Bounds
<1>4. stream' = [open |-> FALSE, inode |-> 0, at |-> 0, left |-> 0]
  BY DEF Browser!NoStream, Browser!None
<1>5. stream' \in [open : BOOLEAN, inode : Inodes \union {0}, at : Nat, left : 0..Word - 1]
      /\ ~stream'.open
  BY <1>3, <1>4
<1>6. EntryInv'
  BY <1>1 DEF EntryInv
<1>7. FileInv'
  BY FileKeeps
<1>8. ASSUME NEW state \in {"broken", "done"}, stream.open, changed' = changed,
             client' = [client EXCEPT !.state = state], state = "done" => stream.left = 0
      PROVE  BrowserInv'
  <2>1. client' \in Readers /\ client'.state = state /\ client'.path = client.path
        /\ client'.have = client.have
    BY <1>2, <1>8
  <2>2. BrowserTypes'
    BY <1>1, <1>5, <1>8, <2>1 DEF BrowserTypes
  <2>3. client.state = "reading"
    BY <1>1, <1>8 DEF ClientInv
  <2>4. client.path \in Paths
    BY <1>1, <2>3 DEF ClientInv
  <2>5. ASSUME ~changed
        PROVE  /\ entry[client.path] \in Inodes
               /\ Follows(client.have, client.state, content[entry[client.path]], entry[client.path])
    BY <1>1, <2>3, <2>5 DEF ClientInv
  <2>6. ASSUME ~changed
        PROVE  Follows(client.have, client.state, content[entry[client.path]], entry[client.path])'
    <3> DEFINE i == entry[client.path]
    <3>1. i \in Inodes /\ Follows(client.have, client.state, content[i], i)
      BY <2>5, <2>6
    <3>2. content[i] \in Seq(Nat) /\ client.have \in Seq(Nat)
      BY <1>1, <1>2, <3>1 DEF BrowserTypes
    <3>3. Len(content[i]) \in Nat /\ Len(client.have) \in Nat
      BY <3>2
    <3>4. state = "done" => Len(client.have) = Len(content[i])
      <4>1. stream.left = Len(content[i]) - Len(client.have)
        BY <1>8, <3>1 DEF Follows
      <4> QED
        BY <1>8, <3>3, <4>1
    <3>5. content' = content /\ entry' = entry
      OBVIOUS
    <3> QED
      BY <1>5, <2>1, <3>1, <3>4, <3>5 DEF Follows
  <2>7. ClientInv'
    BY <1>5, <1>8, <2>1, <2>4, <2>5, <2>6 DEF ClientInv
  <2> QED
    BY <1>6, <1>7, <2>2, <2>7 DEF BrowserInv
<1> QED
  BY <1>8

LEMMA BrowserStep ==
    ASSUME BrowserInv, Browser!Next
    PROVE  BrowserInv'
<1>1. BrowserTypes /\ ClientInv
  BY DEF BrowserInv
<1>2. breaks \in 0..MaxBreaks /\ MaxBreaks \in Nat
  BY <1>1, Bounds DEF BrowserTypes
<1>3. ASSUME NEW p \in Paths, Browser!Vanished(p) PROVE BrowserInv'
  <2>1. /\ client.state = "broken"
        /\ client' = Browser!NoClient /\ changed' = FALSE
        /\ UNCHANGED <<entry, content, uploads, stream, breaks, mixed>>
    BY <1>3 DEF Browser!Vanished
  <2>2. client' = [state |-> "new", path |-> 0, total |-> 0, have |-> <<>>]
    BY <2>1 DEF Browser!NoClient, Browser!None
  <2>3. /\ client' \in [state : {"new", "reading", "broken", "done"}, path : Paths \union {0},
                        total : Nat, have : Seq(Nat)]
        /\ client'.state = "new" /\ client'.have = <<>>
    BY <2>2
  <2>4. BrowserTypes'
    BY <1>1, <2>1, <2>3 DEF BrowserTypes
  <2>5. ClientInv'
    BY <1>1, <2>1, <2>3 DEF ClientInv
  <2>6. EntryInv'
    BY <2>1 DEF BrowserInv, EntryInv
  <2>7. FileInv'
    BY <2>1, FileKeeps
  <2> QED
    BY <2>4, <2>5, <2>6, <2>7 DEF BrowserInv
<1>4. CASE Browser!Sent
  <2>1. /\ stream.open /\ stream.left = 0 /\ stream' = Browser!NoStream
        /\ client' = [client EXCEPT !.state = "done"]
        /\ UNCHANGED <<entry, content, uploads, breaks, mixed, changed>>
    BY <1>4 DEF Browser!Sent
  <2> QED
    BY <1>2, <2>1, BrowserStop
<1>5. CASE Browser!Break
  <2>1. /\ stream.open /\ stream' = Browser!NoStream
        /\ breaks' = IF breaks < MaxBreaks THEN breaks + 1 ELSE breaks
        /\ client' = [client EXCEPT !.state = "broken"]
        /\ UNCHANGED <<entry, content, uploads, mixed, changed>>
    BY <1>5 DEF Browser!Break
  <2>2. breaks' \in 0..MaxBreaks
    BY <1>2, <2>1
  <2> QED
    BY <2>1, <2>2, BrowserStop
<1>6. CASE \E p \in Paths : Browser!BeginUpload(p) \/ Browser!Delete(p) \/ Browser!Request(p)
                              \/ Browser!Vanished(p)
  BY <1>3, <1>6, BrowserBegin, BrowserDelete, BrowserRequest
<1>7. CASE \E p, q \in Paths : Browser!Move(p, q)
  BY <1>7, BrowserMove
<1>8. CASE \E u \in DOMAIN uploads : Browser!WriteUpload(u)
  BY <1>8, BrowserWrite
<1>9. CASE Browser!Send
  BY <1>9, BrowserSend
<1> QED
  BY <1>4, <1>5, <1>6, <1>7, <1>8, <1>9 DEF Browser!Next

LEMMA BrowserStart ==
    ASSUME Browser!Init
    PROVE  BrowserInv
<1> USE DEF Browser!Init
<1>1. Word \in Nat /\ 0 \in 0..Word - 1 /\ 0 \in 0..MaxBreaks /\ 0 <= MaxSize
  BY Bounds
<1>2. entry = [p \in Paths |-> 0] /\ content = [i \in Inodes |-> <<>>] /\ uploads = <<>>
      /\ mixed = {} /\ breaks = 0 /\ changed = FALSE
  BY DEF Browser!None
<1>3. stream = [open |-> FALSE, inode |-> 0, at |-> 0, left |-> 0]
  BY DEF Browser!NoStream, Browser!None
<1>4. client = [state |-> "new", path |-> 0, total |-> 0, have |-> <<>>]
  BY DEF Browser!NoClient, Browser!None
<1>5. stream \in [open : BOOLEAN, inode : Inodes \union {0}, at : Nat, left : 0..Word - 1]
      /\ ~stream.open
  BY <1>1, <1>3
<1>6. client \in [state : {"new", "reading", "broken", "done"}, path : Paths \union {0},
                  total : Nat, have : Seq(Nat)]
      /\ client.state = "new" /\ client.have = <<>>
  BY <1>4
<1>7. BrowserTypes
  <2>1. entry \in [Paths -> Inodes \union {0}]
    BY <1>2
  <2>2. <<>> \in Seq(Nat) /\ Len(<<>>) = 0 /\ <<>> \in Seq(Uploads)
    OBVIOUS
  <2>3. content \in [Inodes -> Seq(Nat)] /\ \A i \in Inodes : content[i] = <<>>
    BY <1>2, <2>2
  <2>4. \A i \in Inodes : Len(content[i]) <= MaxSize
    BY <1>1, <2>2, <2>3
  <2> QED
    BY <1>1, <1>2, <1>5, <1>6, <2>1, <2>2, <2>3, <2>4 DEF BrowserTypes
<1>8. EntryInv /\ ClientInv
  BY <1>2, <1>5, <1>6 DEF EntryInv, ClientInv
<1>9. FileInv
  <2>1. \A i : Browser!Writing(i) = {}
    BY <1>2 DEF Browser!Writing
  <2> QED
    BY <1>2, <2>1 DEF FileInv
<1> QED
  BY <1>7, <1>8, <1>9 DEF BrowserInv

\* A file is one upload, and what a client has pieced together is the file.
LEMMA BrowserAgrees ==
    ASSUME BrowserInv
    PROVE  Browser!TypeOK /\ Browser!FileIsOneUpload /\ Browser!ResumedIsWhole
<1>1. BrowserTypes /\ FileInv /\ ClientInv
  BY DEF BrowserInv
<1>2. Browser!TypeOK
  BY <1>1 DEF BrowserTypes, Browser!TypeOK, Browser!None
<1>3. Browser!FileIsOneUpload
  <2> SUFFICES ASSUME NEW i \in Browser!Linked \ (mixed \union {0}), Browser!Writing(i) = {}
               PROVE  Browser!Cardinality(Browser!ToSet(content[i])) <= 1
    BY DEF Browser!FileIsOneUpload, Browser!None
  <2>1. i \in Inodes
    BY <1>1 DEF BrowserTypes, Browser!Linked
  <2>2. PICK v : \A k \in 1..Len(content[i]) : content[i][k] = v
    BY <1>1, <2>1 DEF FileInv
  <2>3. content[i] \in Seq(Nat)
    BY <1>1, <2>1 DEF BrowserTypes
  <2>4. Browser!ToSet(content[i]) \subseteq {v}
    BY <2>2, <2>3 DEF Browser!ToSet
  <2>5. Browser!Cardinality(Browser!ToSet(content[i])) = Cardinality(Browser!ToSet(content[i]))
    BY DEF Cardinality, Browser!Cardinality
  <2>6. IsFiniteSet({v}) /\ Cardinality({v}) = 1
    BY FS_Singleton
  <2> QED
    BY <2>4, <2>5, <2>6, FS_Subset
<1>4. Browser!ResumedIsWhole
  <2> SUFFICES ASSUME client.state = "done", ~changed
               PROVE  client.have = content[entry[client.path]]
    BY DEF Browser!ResumedIsWhole
  <2> DEFINE file == content[entry[client.path]]
  <2>1. entry[client.path] \in Inodes
        /\ Follows(client.have, client.state, file, entry[client.path])
    BY <1>1 DEF ClientInv
  <2>2. client.have \in Seq(Nat) /\ file \in Seq(Nat)
    BY <1>1, <2>1 DEF BrowserTypes
  <2>3. Len(client.have) = Len(file) /\ \A k \in 1..Len(client.have) : client.have[k] = file[k]
    BY <2>1 DEF Follows
  <2> HIDE DEF file
  <2>4. client.have = file
    BY <2>2, <2>3, SeqEqual
  <2> QED
    BY <2>4 DEF file
<1> QED
  BY <1>2, <1>3, <1>4

-----------------------------------------------------------------------------
(* All of them                                                             *)

ShownInv ==
    /\ which = "stream" => StreamInv
    /\ which = "feed" => FeedInv
    /\ which = "listing" => ListInv

HandedInv ==
    /\ which = "browser" => BrowserInv
    /\ which = "pairing" => PairInv

\* A component that does nothing stays right.
LEMMA Stutters ==
    /\ StreamInv /\ UNCHANGED StreamVars => StreamInv'
    /\ FeedInv /\ UNCHANGED FeedVars => FeedInv'
    /\ ListInv /\ UNCHANGED ListingVars => ListInv'
    /\ BrowserInv /\ UNCHANGED BrowserVars => BrowserInv'
    /\ PairInv /\ UNCHANGED PairingVars => PairInv'
<1>1. ASSUME StreamInv, UNCHANGED StreamVars PROVE StreamInv'
  BY <1>1 DEF StreamVars, StreamInv, Stream!TypeOK, Stream!NoGaps
<1>2. ASSUME FeedInv, UNCHANGED FeedVars PROVE FeedInv'
  <2>1. FeedTypes'
    BY <1>2 DEF FeedVars, FeedInv, FeedTypes
  <2>2. ReportInv'
    <3>1. \A r \in Runs : IsUnderway(r, "end")' <=> IsUnderway(r, "end")
      BY <1>2 DEF FeedVars, IsUnderway
    <3> QED
      BY <1>2, <3>1 DEF FeedVars, FeedInv, ReportInv
  <2>3. OutcomeInv' /\ CountInv'
    BY <1>2, FeedSame DEF FeedVars
  <2> QED
    BY <2>1, <2>2, <2>3 DEF FeedInv
<1>3. ASSUME ListInv, UNCHANGED ListingVars PROVE ListInv'
  <2>1. ListTypes'
    BY <1>3 DEF ListingVars, ListInv, ListTypes
  <2>2. OwnInv' /\ SentInv' /\ Listing!ScannedIsListed'
    BY <1>3, ListKeeps DEF ListingVars
  <2> QED
    BY <2>1, <2>2 DEF ListInv
<1>4. ASSUME BrowserInv, UNCHANGED BrowserVars PROVE BrowserInv'
  <2>1. BrowserTypes' /\ EntryInv'
    BY <1>4 DEF BrowserVars, BrowserInv, BrowserTypes, EntryInv
  <2>2. FileInv' /\ ClientInv'
    BY <1>4, FileKeeps, ClientKeeps DEF BrowserVars
  <2> QED
    BY <2>1, <2>2 DEF BrowserInv
<1>5. ASSUME PairInv, UNCHANGED PairingVars PROVE PairInv'
  BY <1>5 DEF PairingVars, PairInv, PairTypes, GivenInv, PathInv
<1> QED
  BY <1>1, <1>2, <1>3, <1>4, <1>5

LEMMA NetworkStep ==
    ASSUME [Next]_all
    PROVE  /\ ShownInv => ShownInv'
           /\ HandedInv => HandedInv'
<1>1. which' = which
  BY DEF Next, OnlyThis, all
<1>2. which = "stream" => Stream!Next \/ UNCHANGED StreamVars
  BY DEF Next, all
<1>3. which = "feed" => Feed!Next \/ UNCHANGED FeedVars
  BY DEF Next, all
<1>4. which = "listing" => Listing!Next \/ UNCHANGED ListingVars
  BY DEF Next, all
<1>5. which = "browser" => Browser!Next \/ UNCHANGED BrowserVars
  BY DEF Next, all
<1>6. which = "pairing" => Pairing!Next \/ UNCHANGED PairingVars
  BY DEF Next, all
<1>7. ShownInv => ShownInv'
  BY <1>1, <1>2, <1>3, <1>4, StreamStep, FeedStep, ListStep, Stutters DEF ShownInv
<1>8. HandedInv => HandedInv'
  BY <1>1, <1>5, <1>6, BrowserStep, PairStep, Stutters DEF HandedInv
<1> QED
  BY <1>7, <1>8

\* What the dashboard shows is what was reported.  routes.rs: what the live stream pushed
\* to a client has no gaps; how a run ended stays in the activity feed, in one row of its
\* script, unless the server failed between the event and the row, and a script that is
\* done does not stay "running" there unless a run of it was killed or reported too late or
\* the server failed.  dashboard.rs: a scanned ROM is on the list of its device
\* or its event is under way, unless a deletion took a matching row.
THEOREM ShownHolds == Spec => []ShownIsTrue
<1>1. Init => ShownInv
  BY StreamStart, FeedStart, ListStart DEF Init, ShownInv
<1>2. ShownInv /\ [Next]_all => ShownInv'
  BY NetworkStep
<1>3. ShownInv => ShownIsTrue
  BY FeedAgrees, ListAgrees DEF ShownInv, ShownIsTrue, StreamInv
<1> QED
  BY <1>1, <1>2, <1>3, PTL DEF Spec

\* What one side hands over the other gets whole, once.  fileserver.rs: a file is one
\* upload, unless two of it were written at once, and a download put together from ranges
\* is the file, unless it changed meanwhile.  routes.rs: two answers never carry the same
\* cloud token.  cloud.rs: a token the server has consumed has reached rclone or is about
\* to, unless its answer was lost.
THEOREM HandedOverHolds == Spec => []HandedOverWhole
<1>1. Init => HandedInv
  BY BrowserStart, PairStart DEF Init, HandedInv
<1>2. HandedInv /\ [Next]_all => HandedInv'
  BY NetworkStep
<1>3. HandedInv => HandedOverWhole
  BY BrowserAgrees, PairAgrees DEF HandedInv, HandedOverWhole
<1> QED
  BY <1>1, <1>2, <1>3, PTL DEF Spec
=============================================================================
