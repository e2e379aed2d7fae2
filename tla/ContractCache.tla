---------------------------- MODULE ContractCache ----------------------------
(***************************************************************************)
(* The gateway's ContractCache: Warm at start-up, Get on every message,    *)
(* and the refresh a stale or missing entry causes.  A reader is a handler *)
(* goroutine inside Get; several can be in refresh for one topic at once,  *)
(* and their responses may arrive in any order.                            *)
(*                                                                         *)
(* Time is kept as ages: an entry's age counts ticks since its fetchedAt   *)
(* and stops at TTL (the code only compares it with ttl); a fetch's        *)
(* elapsed counts to FetchTimeout, when the HTTP client gives up.  Storing *)
(* a decoded response and stamping it with time.Now() take no tick.        *)
(*                                                                         *)
(* The control plane is the history of each topic's ACTIVE rows, several   *)
(* at a time included, which ContractStore implements (ControlPlane).      *)
(***************************************************************************)
EXTENDS ContractView

CONSTANTS
    TTL,            \* cache_ttl, in ticks
    FetchTimeout,   \* fetch_timeout, in ticks
    WireFormats,    \* subset of BOOLEAN: what the contracts service may send
    EmptyTopic,     \* the key "" under which Warm stores a reply with no topic
    NoEntry, NoTopic

Keys == Topics \cup {EmptyTopic}
Entry == [version : Versions, age : 0 .. TTL]

ASSUME CacheAssumption ==
    /\ TTL \in Nat \ {0}
    /\ FetchTimeout \in Nat \ {0}
    /\ Bound = TTL + FetchTimeout
    /\ FailOpen \subseteq Topics \X Versions
    /\ WireFormats \subseteq BOOLEAN
    /\ EmptyTopic \notin Topics
    /\ NoTopic \notin Topics
    /\ NoEntry \notin Entry
    /\ NoVersion \notin Versions
    /\ \A S \in SUBSET Versions \ {{}} : Newest(S) \in S /\ Oldest(S) \in S
    /\ NoAnswer \notin Answers

VARIABLES
    fullWire,  \* do replies of the contracts service carry topic and fail_open?
    phase,     \* "down", "warming" or "serving"
    entries,   \* c.entries
    listed,    \* the ACTIVE rows that Warm's response carries for each topic
    warmFor,   \* how long Warm's request has been out
    pc,        \* each reader: "idle", "sent" (fetchOne out), "served" (reply on its way)
    asked,     \* the topic of the reader's Get
    stale,     \* version of the expired entry Get found, handed to refresh
    elapsed,   \* how long the reader's fetch has been out
    resp       \* the version in the reply (NoVersion: 404)

cacheVars  == <<fullWire, phase, entries, listed, warmFor>>
readerVars == <<pc, asked, stale, elapsed, resp>>
vars == <<viewVars, cacheVars, readerVars>>

Idle(r) == pc[r] = "idle"

Init ==
    /\ ViewInit
    /\ fullWire \in WireFormats
    /\ phase = "down"
    /\ entries = [k \in Keys |-> NoEntry]
    /\ listed = [t \in Topics |-> {}]
    /\ warmFor = 0
    /\ pc = [r \in Readers |-> "idle"]
    /\ asked = [r \in Readers |-> NoTopic]
    /\ stale = [r \in Readers |-> NoVersion]
    /\ elapsed = [r \in Readers |-> 0]
    /\ resp = [r \in Readers |-> NoVersion]

-----------------------------------------------------------------------------
(* The control plane and the clock.                                        *)

ControlPlaneActivates(t, S) == Activate(t, S) /\ UNCHANGED <<cacheVars, readerVars>>

\* A client timeout that is due fires before the clock moves on.
Tick ==
    /\ phase = "warming" => warmFor < FetchTimeout
    /\ \A r \in Readers : ~Idle(r) => elapsed[r] < FetchTimeout
    /\ Elapse
    /\ entries' = [k \in Keys |->
                     IF entries[k] = NoEntry THEN NoEntry
                     ELSE [entries[k] EXCEPT !.age = IF @ < TTL THEN @ + 1 ELSE @]]
    /\ elapsed' = [r \in Readers |-> IF Idle(r) THEN 0 ELSE elapsed[r] + 1]
    /\ warmFor' = IF phase = "warming" THEN warmFor + 1 ELSE 0
    /\ UNCHANGED <<fullWire, phase, listed, pc, asked, stale, resp>>

-----------------------------------------------------------------------------
(* Start-up: Warm, and the process that refuses to start without it.       *)

\* fetchAll: the contracts service runs ListActiveVersions for the request,
\* which lists every ACTIVE row, newest first.
WarmFetch ==
    /\ phase = "down"
    /\ phase' = "warming"
    /\ listed' = active
    /\ warmFor' = 0
    /\ UNCHANGED <<viewVars, fullWire, entries, readerVars>>

\* c.entries[contract.Topic] = ... over the list, with one time.Now() for all
\* of it: the last, that is the oldest, row of a topic stays.  Without topics
\* on the wire every contract lands on the key "".
WarmStore ==
    /\ phase = "warming"
    /\ phase' = "serving"
    /\ LET known == {t \in Topics : listed[t] # {}}
           last(t) == [version |-> Oldest(listed[t]), age |-> 0] IN
         IF fullWire
         THEN entries' = [k \in Keys |-> IF k \in known THEN last(k) ELSE entries[k]]
         ELSE IF known = {} THEN UNCHANGED entries
         ELSE \E t \in known : entries' = [entries EXCEPT ![EmptyTopic] = last(t)]
    /\ warmFor' = 0
    /\ UNCHANGED <<viewVars, fullWire, listed, readerVars>>

\* The process exits (Warm failed, a signal, a crash); all it held is lost.
Stop ==
    /\ phase # "down"
    /\ phase' = "down"
    /\ entries' = [k \in Keys |-> NoEntry]
    /\ warmFor' = 0
    /\ pc' = [r \in Readers |-> "idle"]
    /\ asked' = [r \in Readers |-> NoTopic]
    /\ stale' = [r \in Readers |-> NoVersion]
    /\ elapsed' = [r \in Readers |-> 0]
    /\ resp' = [r \in Readers |-> NoVersion]
    /\ Forget
    /\ UNCHANGED <<fullWire, listed>>

-----------------------------------------------------------------------------
(* Get.                                                                    *)

\* The goroutine leaves Get, and its locals with it.
Return(r) ==
    /\ pc' = [pc EXCEPT ![r] = "idle"]
    /\ asked' = [asked EXCEPT ![r] = NoTopic]
    /\ stale' = [stale EXCEPT ![r] = NoVersion]
    /\ elapsed' = [elapsed EXCEPT ![r] = 0]
    /\ resp' = [resp EXCEPT ![r] = NoVersion]

Fresh(t) == entries[t] # NoEntry /\ entries[t].age < TTL

Hit(r, t) ==
    /\ phase = "serving" /\ Idle(r)
    /\ Fresh(t)
    /\ Reply(r, t, "fresh", entries[t].version)
    /\ UNCHANGED <<active, idleFor, cacheVars, readerVars>>

\* refresh is called with the entry Get read under the read lock.
Miss(r, t) ==
    /\ phase = "serving" /\ Idle(r)
    /\ ~Fresh(t)
    /\ pc' = [pc EXCEPT ![r] = "sent"]
    /\ asked' = [asked EXCEPT ![r] = t]
    /\ stale' = [stale EXCEPT ![r] =
                   IF entries[t] = NoEntry THEN NoVersion ELSE entries[t].version]
    /\ elapsed' = [elapsed EXCEPT ![r] = 0]
    /\ resp' = [resp EXCEPT ![r] = NoVersion]
    /\ Ask(r)
    /\ UNCHANGED cacheVars

\* The contracts service handles the request: GetActiveVersion, or 404.
Serve(r) ==
    /\ pc[r] = "sent"
    /\ pc' = [pc EXCEPT ![r] = "served"]
    /\ resp' = [resp EXCEPT ![r] = Newest(active[asked[r]])]
    /\ UNCHANGED <<viewVars, cacheVars, asked, stale, elapsed>>

\* Mutant: a 404 is decoded and cached like any other reply.
FetchOkAnyStatus(r) ==
    /\ pc[r] = "served"
    /\ entries' = [entries EXCEPT ![asked[r]] = [version |-> resp[r], age |-> 0]]
    /\ Reply(r, asked[r], "fresh", resp[r])
    /\ Return(r)
    /\ UNCHANGED <<active, idleFor, fullWire, phase, listed, warmFor>>

\* The reply is decoded and stored, whatever entry is there by now, and
\* stamped with the time of its arrival.
FetchOk(r) ==
    /\ pc[r] = "served" /\ resp[r] # NoVersion
    /\ entries' = [entries EXCEPT ![asked[r]] = [version |-> resp[r], age |-> 0]]
    /\ Reply(r, asked[r], "fresh", resp[r])
    /\ Return(r)
    /\ UNCHANGED <<active, idleFor, fullWire, phase, listed, warmFor>>

\* Mutant: a stale contract is served after a failed fetch whatever its fail_open.
FetchFailsOpen(r) ==
    /\ ~Idle(r)
    /\ IF stale[r] # NoVersion
       THEN Reply(r, asked[r], "stale", stale[r])
       ELSE Reply(r, asked[r], "error", NoVersion)
    /\ Return(r)
    /\ UNCHANGED <<active, idleFor, cacheVars>>

\* fetchOne fails: 404, another status, a reply lost or undecodable, the
\* client's timeout, the caller gone.  A fail-open stale contract is served.
FetchFails(r) ==
    /\ ~Idle(r)
    /\ IF stale[r] # NoVersion /\ fullWire /\ <<asked[r], stale[r]>> \in FailOpen
       THEN Reply(r, asked[r], "stale", stale[r])
       ELSE Reply(r, asked[r], "error", NoVersion)
    /\ Return(r)
    /\ UNCHANGED <<active, idleFor, cacheVars>>

\* Mutant: an http.Client without Timeout.
TimeoutNever(r) == FALSE /\ FetchFails(r)

TimeoutDue(r) == elapsed[r] = FetchTimeout /\ FetchFails(r)

Next ==
    \/ \E t \in Topics, S \in SUBSET Versions : ControlPlaneActivates(t, S)
    \/ Tick
    \/ WarmFetch \/ WarmStore \/ Stop
    \/ \E r \in Readers, t \in Topics : Hit(r, t) \/ Miss(r, t)
    \/ \E r \in Readers : Serve(r) \/ FetchOk(r) \/ FetchFails(r)

(***************************************************************************)
(* Time passes, and the HTTP client's timer fires when it is due.  The     *)
(* service need not answer, the gateway need not stay up.                  *)
(***************************************************************************)
Fairness == WF_vars(Tick) /\ \A r \in Readers : WF_vars(TimeoutDue(r))

Spec == Init /\ [][Next]_vars
FairSpec == Spec /\ Fairness

-----------------------------------------------------------------------------
TypeOK ==
    /\ active \in [Topics -> SUBSET Versions]
    /\ idleFor \in [Topics -> [Versions -> 0 .. Never]]
    /\ answer \in [Readers -> Answers \cup {NoAnswer}]
    /\ fullWire \in BOOLEAN
    /\ phase \in {"down", "warming", "serving"}
    /\ entries \in [Keys -> Entry \cup {NoEntry}]
    /\ listed \in [Topics -> SUBSET Versions]
    /\ warmFor \in 0 .. FetchTimeout
    /\ pc \in [Readers -> {"idle", "sent", "served"}]
    /\ asked \in [Readers -> Topics \cup {NoTopic}]
    /\ \A r \in Readers : ~Idle(r) => asked[r] \in Topics
    /\ stale \in [Readers -> Versions \cup {NoVersion}]
    /\ elapsed \in [Readers -> 0 .. FetchTimeout]
    /\ resp \in [Readers -> Versions \cup {NoVersion}]

(***************************************************************************)
(* Get keeps ContractView's promise with Bound = cache_ttl + fetch_timeout *)
(* across racing refreshes, replies out of order, rollbacks, restarts and  *)
(* outages: what it returns as fresh was ACTIVE that recently, what it     *)
(* returns after a failed fetch is fail-open and was ACTIVE once.          *)
(***************************************************************************)
KeepsStalenessPromise == ViewSpec

(***************************************************************************)
(* Every Get returns while the gateway is up, whether the contracts        *)
(* service answers or not (the client has a timeout).                      *)
(***************************************************************************)
GetReturns == \A r \in Readers : ~Idle(r) ~> Idle(r)

(***************************************************************************)
(* "This bounds the staleness window after a contract update" (CacheTTL):  *)
(* no fresh answer is a version superseded a whole TTL ago.                *)
(***************************************************************************)
StaleWithinTTL ==
    [][\A r \in Readers, t \in Topics, v \in Versions :
         answer'[r] # answer[r] /\ answer'[r] = [topic |-> t, how |-> "fresh", version |-> v]
             => idleFor[t][v] < TTL]_vars
==============================================================================
