-------------------------- MODULE ContractResolver --------------------------
(***************************************************************************)
(* The Python SDK's ContractResolver: threads of a producer resolve topics *)
(* to the active contract version through one shared cache, which no lock  *)
(* guards.  Unlike the gateway's cache it never falls back on an expired   *)
(* entry, and it keeps no record of a fetch that is already under way.     *)
(*                                                                         *)
(* Time is kept as ages (see ContractCache): an entry's age counts ticks   *)
(* since it was stored and stops at TTL; elapsed counts to FetchTimeout,   *)
(* when the waits of httpx are used up.                                    *)
(***************************************************************************)
EXTENDS ControlPlane

CONSTANTS
    Threads,
    TTL,           \* ttl_seconds, in ticks
    FetchTimeout,  \* what the client's waits for one reply add up to
    NoEntry, NoTopic, NoAnswer

Bound == TTL + FetchTimeout
Never == Bound + 1  \* "has not been shown yet"

Entry == [version : Versions, age : 0 .. TTL]

\* resolve returns a reference, or raises ContractNotFoundError or GatewayError.
Outcomes == [topic : Topics, how : {"ref", "not_found", "unreachable"},
             version : Versions \cup {NoVersion}]

ASSUME ResolverAssumption ==
    /\ TTL \in Nat \ {0}
    /\ FetchTimeout \in Nat \ {0}
    /\ NoVersion \notin Versions
    /\ \A S \in SUBSET Versions \ {{}} : Newest(S) \in S
    /\ NoEntry \notin Entry
    /\ NoTopic \notin Topics
    /\ NoAnswer \notin Outcomes

VARIABLES
    idleFor,  \* ticks since GetActiveVersion last showed each version, up to Bound
    cache,    \* _cache
    pc,       \* each thread: "idle", "sent" (request out), "served" (reply on its way)
    asked,    \* the topic of the thread's resolve
    elapsed,  \* how long its request has been out
    resp,     \* the version in the reply (NoVersion: 404)
    known,    \* history: had the topic an ACTIVE version when resolve missed?
    outcome   \* what the thread's last resolve returned or raised

controlPlane == <<active, idleFor>>
locals == <<pc, asked, elapsed, resp, known>>
vars == <<controlPlane, cache, locals, outcome>>

Idle(r) == pc[r] = "idle"

Init ==
    /\ PlaneInit
    /\ idleFor = [t \in Topics |-> [v \in Versions |-> Never]]
    /\ cache = [t \in Topics |-> NoEntry]
    /\ pc = [r \in Threads |-> "idle"]
    /\ asked = [r \in Threads |-> NoTopic]
    /\ elapsed = [r \in Threads |-> 0]
    /\ resp = [r \in Threads |-> NoVersion]
    /\ known = [r \in Threads |-> FALSE]
    /\ outcome = [r \in Threads |-> NoAnswer]

-----------------------------------------------------------------------------
(* The control plane and the clock.                                        *)

Activate(t, S) ==
    /\ Supersede(t, S)
    /\ idleFor' = [idleFor EXCEPT ![t][Newest(S)] = 0]
    /\ UNCHANGED <<cache, locals, outcome>>

\* A timeout that is due fires before the clock moves on.
Tick ==
    /\ \A r \in Threads : ~Idle(r) => elapsed[r] < FetchTimeout
    /\ idleFor' = [t \in Topics |-> [v \in Versions |->
                     IF v = Newest(active[t]) THEN 0
                     ELSE IF idleFor[t][v] < Bound THEN idleFor[t][v] + 1
                     ELSE idleFor[t][v]]]
    /\ cache' = [t \in Topics |->
                   IF cache[t] = NoEntry THEN NoEntry
                   ELSE [cache[t] EXCEPT !.age = IF @ < TTL THEN @ + 1 ELSE @]]
    /\ elapsed' = [r \in Threads |-> IF Idle(r) THEN 0 ELSE elapsed[r] + 1]
    /\ UNCHANGED <<active, pc, asked, resp, known, outcome>>

-----------------------------------------------------------------------------
(* resolve.                                                                *)

Outcome(r, t, how, v) ==
    outcome' = [outcome EXCEPT ![r] = [topic |-> t, how |-> how, version |-> v]]

\* The thread leaves resolve, and its locals with it.
Return(r) ==
    /\ pc' = [pc EXCEPT ![r] = "idle"]
    /\ asked' = [asked EXCEPT ![r] = NoTopic]
    /\ elapsed' = [elapsed EXCEPT ![r] = 0]
    /\ resp' = [resp EXCEPT ![r] = NoVersion]
    /\ known' = [known EXCEPT ![r] = FALSE]

\* Mutant: an entry is returned whatever its expires_at.
FreshForever(t) == cache[t] # NoEntry

Fresh(t) == cache[t] # NoEntry /\ cache[t].age < TTL

Hit(r, t) ==
    /\ Idle(r) /\ Fresh(t)
    /\ Outcome(r, t, "ref", cache[t].version)
    /\ UNCHANGED <<controlPlane, cache, locals>>

Miss(r, t) ==
    /\ Idle(r) /\ ~Fresh(t)
    /\ pc' = [pc EXCEPT ![r] = "sent"]
    /\ asked' = [asked EXCEPT ![r] = t]
    /\ elapsed' = [elapsed EXCEPT ![r] = 0]
    /\ resp' = [resp EXCEPT ![r] = NoVersion]
    /\ known' = [known EXCEPT ![r] = active[t] # {}]
    /\ outcome' = [outcome EXCEPT ![r] = NoAnswer]
    /\ UNCHANGED <<controlPlane, cache>>

\* The contracts service handles the request: GetActiveVersion, or 404.
Serve(r) ==
    /\ pc[r] = "sent"
    /\ pc' = [pc EXCEPT ![r] = "served"]
    /\ resp' = [resp EXCEPT ![r] = Newest(active[asked[r]])]
    /\ UNCHANGED <<controlPlane, cache, asked, elapsed, known, outcome>>

\* Mutant: the status is not looked at before the reply is cached.
FetchOkAnyStatus(r) ==
    /\ pc[r] = "served"
    /\ cache' = [cache EXCEPT ![asked[r]] = [version |-> resp[r], age |-> 0]]
    /\ Outcome(r, asked[r], "ref", resp[r])
    /\ Return(r)
    /\ UNCHANGED controlPlane

\* The entry replaces whatever another thread has stored by now.
FetchOk(r) ==
    /\ pc[r] = "served" /\ resp[r] # NoVersion
    /\ cache' = [cache EXCEPT ![asked[r]] = [version |-> resp[r], age |-> 0]]
    /\ Outcome(r, asked[r], "ref", resp[r])
    /\ Return(r)
    /\ UNCHANGED controlPlane

\* A 404 is not cached.
NotFound(r) ==
    /\ pc[r] = "served" /\ resp[r] = NoVersion
    /\ Outcome(r, asked[r], "not_found", NoVersion)
    /\ Return(r)
    /\ UNCHANGED <<controlPlane, cache>>

\* Mutant: every reply that is no success raises ContractNotFoundError.
FailsAsNotFound(r) ==
    /\ ~Idle(r)
    /\ Outcome(r, asked[r], "not_found", NoVersion)
    /\ Return(r)
    /\ UNCHANGED <<controlPlane, cache>>

\* A RequestError (no connection, a lost reply, a timeout), or a status that
\* is neither a success nor 404.  An expired entry is no help.
FetchFails(r) ==
    /\ ~Idle(r)
    /\ Outcome(r, asked[r], "unreachable", NoVersion)
    /\ Return(r)
    /\ UNCHANGED <<controlPlane, cache>>

\* Mutant: an httpx.Client without timeout.
TimeoutNever(r) == FALSE /\ FetchFails(r)

TimeoutDue(r) == elapsed[r] = FetchTimeout /\ FetchFails(r)

\* The producer's process ends and starts again with an empty cache.
Restart ==
    /\ cache' = [t \in Topics |-> NoEntry]
    /\ pc' = [r \in Threads |-> "idle"]
    /\ asked' = [r \in Threads |-> NoTopic]
    /\ elapsed' = [r \in Threads |-> 0]
    /\ resp' = [r \in Threads |-> NoVersion]
    /\ known' = [r \in Threads |-> FALSE]
    /\ outcome' = [r \in Threads |-> NoAnswer]
    /\ UNCHANGED controlPlane

Next ==
    \/ \E t \in Topics, S \in SUBSET Versions : Activate(t, S)
    \/ Tick
    \/ \E r \in Threads, t \in Topics : Hit(r, t) \/ Miss(r, t)
    \/ \E r \in Threads : Serve(r) \/ FetchOk(r) \/ NotFound(r) \/ FetchFails(r)
    \/ Restart

(***************************************************************************)
(* Time passes, and the client's timeout fires when it is due; the service *)
(* need not answer.                                                        *)
(***************************************************************************)
Fairness == WF_vars(Tick) /\ \A r \in Threads : WF_vars(TimeoutDue(r))

Spec == Init /\ [][Next]_vars
FairSpec == Spec /\ Fairness

-----------------------------------------------------------------------------
TypeOK ==
    /\ active \in [Topics -> SUBSET Versions]
    /\ idleFor \in [Topics -> [Versions -> 0 .. Never]]
    /\ cache \in [Topics -> Entry \cup {NoEntry}]
    /\ pc \in [Threads -> {"idle", "sent", "served"}]
    /\ asked \in [Threads -> Topics \cup {NoTopic}]
    /\ \A r \in Threads : ~Idle(r) => asked[r] \in Topics
    /\ elapsed \in [Threads -> 0 .. FetchTimeout]
    /\ resp \in [Threads -> Versions \cup {NoVersion}]
    /\ known \in [Threads -> BOOLEAN]
    /\ outcome \in [Threads -> Outcomes \cup {NoAnswer}]

\* What an outcome is in ContractView's terms: both exceptions are errors.
Promised(o) ==
    IF o = NoAnswer THEN NoAnswer
    ELSE [topic |-> o.topic, how |-> IF o.how = "ref" THEN "fresh" ELSE "error",
          version |-> o.version]

\* The resolver learns of no ACTIVE row but the one GetActiveVersion shows, so
\* the view it implements is of that row alone.
Shown(t) == {Newest(active[t])} \ {NoVersion}

View == INSTANCE ContractView WITH
    Readers <- Threads,
    FailOpen <- {},
    active <- [t \in Topics |-> Shown(t)],
    answer <- [r \in Threads |-> Promised(outcome[r])]

(***************************************************************************)
(* A resolved reference names a version that GetActiveVersion showed less  *)
(* than ttl_seconds plus one fetch ago, however the threads' fetches overlap    *)
(* and in whatever order their replies reach the cache; no outage makes    *)
(* it older.                                                               *)
(***************************************************************************)
KeepsStalenessPromise == View!ViewSpec

(***************************************************************************)
(* "Raises ContractNotFoundError if no active contract exists" (resolve):  *)
(* and only then; neither an outage nor an entry that expired makes a      *)
(* topic with a contract look as if it had none.                           *)
(***************************************************************************)
NotFoundWasTrue ==
    [][\A r \in Threads :
         outcome'[r] # outcome[r] /\ outcome'[r] # NoAnswer /\ outcome'[r].how = "not_found"
             => ~known[r]]_vars

(***************************************************************************)
(* Every resolve returns or raises, whether the service answers or not.    *)
(***************************************************************************)
ResolveReturns == \A r \in Threads : ~Idle(r) ~> Idle(r)
=============================================================================
