----------------------------- MODULE ContractView -----------------------------
(***************************************************************************)
(* What the gateway's contract cache promises its readers, with no cache   *)
(* in it: a Get is answered with a version that was ACTIVE for the topic   *)
(* less than Bound ticks ago, or with any formerly ACTIVE version when     *)
(* that version is fail-open, or with an error.  While a topic has one     *)
(* ACTIVE row, that row is the contract in force; if it has several, the   *)
(* promise does not say which of them is answered.                         *)
(***************************************************************************)
EXTENDS ControlPlane

CONSTANTS
    Readers,
    Bound,       \* how long a superseded version may still be answered
    FailOpen,    \* pairs <<topic, version>> whose contract says fail_open
    NoAnswer

Never == Bound + 1  \* "has not been active yet"
Answers == [topic : Topics, how : {"fresh", "stale", "error"},
            version : Versions \cup {NoVersion}]

VARIABLES
    idleFor,  \* ticks since each version was last ACTIVE, counted up to Bound
    answer    \* what each reader's last Get returned

viewVars == <<active, idleFor, answer>>

Reply(r, t, how, v) ==
    answer' = [answer EXCEPT ![r] = [topic |-> t, how |-> how, version |-> v]]

ViewInit ==
    /\ PlaneInit
    /\ idleFor = [t \in Topics |-> [v \in Versions |-> Never]]
    /\ answer = [r \in Readers |-> NoAnswer]

\* The rows S are the topic's ACTIVE ones now: a newer version, a rollback to
\* an old one, or what racing activations left.
Activate(t, S) ==
    /\ Supersede(t, S)
    /\ idleFor' = [idleFor EXCEPT ![t] = [v \in Versions |-> IF v \in S THEN 0 ELSE @[v]]]
    /\ UNCHANGED answer

Elapse ==
    /\ idleFor' = [t \in Topics |-> [v \in Versions |->
                     IF v \in active[t] THEN 0
                     ELSE IF idleFor[t][v] < Bound THEN idleFor[t][v] + 1
                     ELSE idleFor[t][v]]]
    /\ UNCHANGED <<active, answer>>

Ask(r) ==
    /\ answer' = [answer EXCEPT ![r] = NoAnswer]
    /\ UNCHANGED <<active, idleFor>>

AnswerFresh(r, t, v) ==
    /\ idleFor[t][v] < Bound
    /\ Reply(r, t, "fresh", v)
    /\ UNCHANGED <<active, idleFor>>

AnswerStale(r, t, v) ==
    /\ idleFor[t][v] # Never
    /\ <<t, v>> \in FailOpen
    /\ Reply(r, t, "stale", v)
    /\ UNCHANGED <<active, idleFor>>

Refuse(r, t) ==
    /\ Reply(r, t, "error", NoVersion)
    /\ UNCHANGED <<active, idleFor>>

\* The gateway restarts and its callers lose their connections.
Forget ==
    /\ answer' = [r \in Readers |-> NoAnswer]
    /\ UNCHANGED <<active, idleFor>>

ViewNext ==
    \/ \E t \in Topics : Activate(t, active'[t])
    \/ Elapse
    \/ Forget
    \/ \E r \in Readers : Ask(r)
    \/ \E r \in Readers, t \in Topics : Refuse(r, t)
    \/ \E r \in Readers, t \in Topics, v \in Versions :
         AnswerFresh(r, t, v) \/ AnswerStale(r, t, v)

ViewSpec == ViewInit /\ [][ViewNext]_viewVars
=============================================================================
