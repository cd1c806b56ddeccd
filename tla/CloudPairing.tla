---------------------------- MODULE CloudPairing ----------------------------
(***************************************************************************)
(* Cloud setup: cmd_setup and fetch_token in cloud.rs, cloud_auth_submit    *)
(* and cloud_auth_fetch in routes.rs.  rclone waits for a token, which the  *)
(* player pastes into the dashboard; the agent asks the server for it every *)
(* few seconds, and the server gives an unread token away by marking it as  *)
(* consumed.                                                                *)
(***************************************************************************)
EXTENDS Naturals, FiniteSets

CONSTANTS
    MaxTokens, MaxSetups, MaxFaults,    \* bounds
    MaxRounds       \* polls until the setup times out

Tokens == 1..MaxTokens
NoToken == 0

VARIABLES
    row,            \* cloud_auth_tokens of the device
    good,           \* tokens rclone accepts; the others were pasted wrongly
    submitted,
    setup,          \* "none", "polling", "asking", "answered", "waiting"
    rounds,
    answer,         \* what the server's answer carries
    late,           \* a request the agent gave up is still on its way
    fed,            \* tokens rclone has read and not yet decided on
    conf,           \* the token rclone.conf was written with
    setups, faults,
    given           \* history: answers that carried the token

pairingVars == <<row, good, submitted, setup, rounds, answer, late, fed, conf,
                 setups, faults, given>>

Init ==
    /\ row = [token |-> NoToken, consumed |-> FALSE]
    /\ good = {} /\ submitted = 0
    /\ setup = "none" /\ rounds = 0 /\ answer = NoToken /\ late = FALSE
    /\ fed = {} /\ conf = NoToken /\ setups = 0 /\ faults = 0
    /\ given = [t \in Tokens |-> 0]

\* Mutant: an update that leaves consumed_at alone.
Kept(t) == [row EXCEPT !.token = t]

\* INSERT OR REPLACE
Replaced(t) == [token |-> t, consumed |-> FALSE]

Submit ==
    /\ submitted < MaxTokens
    /\ submitted' = submitted + 1
    /\ row' = Replaced(submitted + 1)
    /\ good' \in {good, good \union {submitted + 1}}
    /\ UNCHANGED <<setup, rounds, answer, late, fed, conf, setups, faults, given>>

\* The command has its lock; rclone has printed what to authorize.
BeginSetup ==
    /\ setup = "none" /\ setups < MaxSetups
    /\ setups' = setups + 1
    /\ setup' = "polling" /\ rounds' = 0
    /\ UNCHANGED <<row, good, submitted, answer, late, fed, conf, faults, given>>

TimedOut ==
    /\ setup = "polling" /\ rounds = MaxRounds
    /\ setup' = "none"
    /\ UNCHANGED <<row, good, submitted, rounds, answer, late, fed, conf, setups, faults, given>>

Ask ==
    /\ setup = "polling" /\ rounds < MaxRounds
    /\ setup' = "asking"
    /\ UNCHANGED <<row, good, submitted, rounds, answer, late, fed, conf, setups, faults, given>>

\* Mutant: consumed tokens as well.
AnyToken == row.token # NoToken

Unread == row.token # NoToken /\ ~row.consumed

\* cloud_auth_fetch
Consume ==
    /\ row' = IF Unread THEN [row EXCEPT !.consumed = TRUE] ELSE row
    /\ given' = IF Unread THEN [given EXCEPT ![row.token] = @ + 1] ELSE given

Serve ==
    /\ setup = "asking"
    /\ Consume
    /\ setup' = "answered"
    /\ answer' = IF Unread THEN row.token ELSE NoToken
    /\ UNCHANGED <<good, submitted, rounds, late, fed, conf, setups, faults>>

\* The request is lost, or the agent gives it up after 8 s.
AskFails ==
    /\ setup = "asking" /\ faults < MaxFaults
    /\ faults' = faults + 1
    /\ setup' = "polling" /\ rounds' = rounds + 1
    /\ late' \in {late, TRUE}
    /\ UNCHANGED <<row, good, submitted, answer, fed, conf, setups, given>>

ServeLate ==
    /\ late
    /\ late' = FALSE
    /\ Consume
    /\ UNCHANGED <<good, submitted, setup, rounds, answer, fed, conf, setups, faults>>

AnswerLost ==
    /\ setup = "answered" /\ faults < MaxFaults
    /\ faults' = faults + 1
    /\ setup' = "polling" /\ rounds' = rounds + 1 /\ answer' = NoToken
    /\ UNCHANGED <<row, good, submitted, late, fed, conf, setups, given>>

NothingYet ==
    /\ setup = "answered" /\ answer = NoToken
    /\ setup' = "polling" /\ rounds' = rounds + 1
    /\ UNCHANGED <<row, good, submitted, answer, late, fed, conf, setups, faults, given>>

\* Mutant: a last look at the clock.
FedInTime == IF rounds + 1 < MaxRounds THEN fed \union {answer} ELSE fed

Fed == fed \union {answer}

\* The token is written to the standard input of rclone.
Feed ==
    /\ setup = "answered" /\ answer # NoToken
    /\ fed' = Fed
    /\ setup' = "waiting" /\ answer' = NoToken
    /\ UNCHANGED <<row, good, submitted, rounds, late, conf, setups, faults, given>>

RcloneEnds(t) ==
    /\ t \in fed
    /\ fed' = fed \ {t}
    /\ conf' = IF t \in good THEN t ELSE conf
    /\ setup' = IF setup = "waiting" THEN "none" ELSE setup
    /\ UNCHANGED <<row, good, submitted, rounds, answer, late, setups, faults, given>>

\* rclone goes on with what it has read.
Kill ==
    /\ setup # "none" /\ faults < MaxFaults
    /\ faults' = faults + 1
    /\ setup' = "none" /\ answer' = NoToken
    /\ late' = (late \/ setup = "asking")
    /\ UNCHANGED <<row, good, submitted, rounds, fed, conf, setups, given>>

AgentStep == TimedOut \/ Ask \/ Serve \/ NothingYet \/ Feed \/ \E t \in Tokens : RcloneEnds(t)

Next == Submit \/ BeginSetup \/ AgentStep \/ AskFails \/ ServeLate \/ AnswerLost \/ Kill

Spec == Init /\ [][Next]_pairingVars

\* The loop of the command, and the server answers.
FairSpec == Spec /\ WF_pairingVars(AgentStep)

-----------------------------------------------------------------------------
(* Properties *)

\* Every variable has its type; a token that was given away is consumed.
TypeOK ==
    /\ row.token \in Tokens \union {NoToken} /\ row.consumed \in BOOLEAN
    /\ good \subseteq 1..submitted /\ submitted \in 0..MaxTokens
    /\ setup \in {"none", "polling", "asking", "answered", "waiting"}
    /\ rounds \in 0..MaxRounds /\ answer \in Tokens \union {NoToken} /\ late \in BOOLEAN
    /\ fed \subseteq Tokens /\ conf \in good \union {NoToken}
    /\ setups \in 0..MaxSetups /\ faults \in 0..MaxFaults
    /\ given \in [Tokens -> Nat]

\* A token is good for one setup: two answers never carry the same one, whatever is
\* repeated, late or started again.
TokenGivenOnce == \A t \in Tokens : given[t] <= 1

\* A token the server has marked as consumed has reached rclone, or is about to,
\* unless an answer was lost or the command was killed.
TokenNotWasted ==
    faults = 0 /\ row.consumed /\ row.token \in good =>
        answer = row.token \/ row.token \in fed \/ conf = row.token

\* A correct token that is pasted while a setup asks for it configures the cloud
\* before that setup ends, if nothing fails and it is not replaced.
Offered(t) == setup = "polling" /\ rounds < MaxRounds /\ row.token = t /\ given[t] = 0 /\ t \in good
Settled(t) == conf = t \/ faults > 0 \/ row.token # t
TokenConfigures == \A t \in Tokens : Offered(t) ~> Settled(t)

\* dashboard.rs:67, of a token that is consumed: "The agent has written rclone.conf."
ConsumedIsWritten ==
    row.consumed => conf # NoToken
=============================================================================
