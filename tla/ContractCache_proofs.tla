------------------------ MODULE ContractCache_proofs ------------------------
(***************************************************************************)
(* The contract cache implements ContractView for every set of topics,     *)
(* versions and concurrent readers, every TTL and FetchTimeout, and either *)
(* wire format: a superseded version is returned as fresh for less than    *)
(* TTL + FetchTimeout, and later than that only when it is fail-open.      *)
(***************************************************************************)
EXTENDS ContractCache, TLAPS

\* A version has been active before, and its idle time is still counted.
Was(t, v) == v \in Versions /\ idleFor[t][v] <= Bound

\* An ACTIVE version has no idle time.
ActiveInv == \A t \in Topics : \A v \in active[t] : idleFor[t][v] = 0

\* An unexpired entry's version was active at most FetchTimeout before fetchedAt.
EntryInv == \A t \in Topics : entries[t] # NoEntry =>
    /\ Was(t, entries[t].version)
    /\ entries[t].age < TTL =>
         idleFor[t][entries[t].version] <= entries[t].age + FetchTimeout

\* A list on its way to Warm was true when its request began, or later.
WarmInv == phase = "warming" => \A t \in Topics : \A v \in listed[t] :
    Was(t, v) /\ idleFor[t][v] <= warmFor

\* So was a reply on its way to a reader; what Get found expired was active once.
FetchInv == \A r \in Readers : ~Idle(r) =>
    /\ stale[r] # NoVersion => Was(asked[r], stale[r])
    /\ resp[r] # NoVersion =>
         Was(asked[r], resp[r]) /\ idleFor[asked[r]][resp[r]] <= elapsed[r]

IInv == TypeOK /\ ActiveInv /\ EntryInv /\ WarmInv /\ FetchInv

-----------------------------------------------------------------------------
LEMMA BoundFacts ==
    /\ TTL \in Nat /\ TTL > 0 /\ FetchTimeout \in Nat /\ FetchTimeout > 0
    /\ Bound \in Nat /\ Bound = TTL + FetchTimeout /\ Never = Bound + 1
BY CacheAssumption DEF Never

\* The first and the last row of a list are rows of it.
LEMMA ListEnds ==
    ASSUME NEW S \in SUBSET Versions
    PROVE  /\ S # {} => Newest(S) \in S /\ Oldest(S) \in S
           /\ S = {} => Newest(S) = NoVersion
BY CacheAssumption DEF Newest

LEMMA IInvInit == Init => IInv
<1> SUFFICES ASSUME Init PROVE IInv
    OBVIOUS
<1> USE CacheAssumption, BoundFacts DEF Init, ViewInit, PlaneInit, Idle
<1>1. TypeOK
    BY DEF TypeOK
<1>2. ActiveInv /\ EntryInv /\ WarmInv /\ FetchInv
    BY DEF ActiveInv, EntryInv, WarmInv, FetchInv, Keys
<1> QED
    BY <1>1, <1>2 DEF IInv

LEMMA ActivatesStep ==
    ASSUME IInv, NEW t \in Topics, NEW S \in SUBSET Versions, ControlPlaneActivates(t, S)
    PROVE  IInv'
<1> USE CacheAssumption, BoundFacts
        DEF IInv, TypeOK, ControlPlaneActivates, Activate, Supersede, cacheVars, readerVars, Idle
<1>1. TypeOK'
    OBVIOUS
<1>2. \A u \in Topics, w \in Versions : Was(u, w) =>
         Was(u, w)' /\ idleFor'[u][w] <= idleFor[u][w]
    BY DEF Was
<1>3. ActiveInv'
    BY DEF ActiveInv
<1>4. EntryInv'
    BY <1>2 DEF EntryInv, Entry, Keys, Was
<1>5. WarmInv'
    BY <1>2 DEF WarmInv
<1>6. FetchInv'
    BY <1>2 DEF FetchInv
<1> QED
    BY <1>1, <1>3, <1>4, <1>5, <1>6

LEMMA TickStep ==
    ASSUME IInv, Tick
    PROVE  IInv'
<1> USE CacheAssumption, BoundFacts DEF IInv, TypeOK, Idle
<1>1. /\ UNCHANGED <<active, answer, fullWire, phase, listed, pc, asked, stale, resp>>
      /\ phase = "warming" => warmFor < FetchTimeout /\ warmFor' = warmFor + 1
      /\ phase # "warming" => warmFor' = 0
      /\ \A r \in Readers : ~Idle(r) =>
            elapsed[r] < FetchTimeout /\ elapsed'[r] = elapsed[r] + 1
    BY DEF Tick, Elapse
<1>2. idleFor' \in [Topics -> [Versions -> 0 .. Never]]
    BY DEF Tick, Elapse
<1>3. elapsed' \in [Readers -> 0 .. FetchTimeout]
    BY DEF Tick
<1>4. ASSUME NEW k \in Keys, entries[k] # NoEntry
      PROVE  /\ entries'[k] \in Entry
             /\ entries'[k] # NoEntry
             /\ entries'[k].version = entries[k].version
             /\ entries'[k].age = IF entries[k].age < TTL THEN entries[k].age + 1
                                  ELSE entries[k].age
    BY <1>4 DEF Tick, Entry
<1>5. \A k \in Keys : entries[k] = NoEntry => entries'[k] = NoEntry
    BY DEF Tick
<1>6. entries' \in [Keys -> Entry \cup {NoEntry}]
    <2>1. entries' = [k \in Keys |-> entries'[k]]
        BY DEF Tick
    <2> QED
        BY <1>4, <1>5, <2>1
<1>7. \A u \in Topics, w \in Versions : Was(u, w) =>
         Was(u, w)' /\ idleFor'[u][w] <= idleFor[u][w] + 1
    BY DEF Tick, Elapse, Was
<1>8. TypeOK'
    BY <1>1, <1>2, <1>3, <1>6
<1>9. ActiveInv'
    BY <1>1 DEF ActiveInv, Tick, Elapse
<1>10. EntryInv'
    <2> SUFFICES ASSUME NEW t \in Topics, entries'[t] # NoEntry
                 PROVE  /\ entries'[t].version \in Versions
                        /\ idleFor'[t][entries'[t].version] <= Bound
                        /\ entries'[t].age < TTL =>
                             idleFor'[t][entries'[t].version] <= entries'[t].age + FetchTimeout
        BY DEF EntryInv, Was
    <2>1. t \in Keys /\ entries[t] # NoEntry /\ entries[t] \in Entry
        BY <1>5 DEF Keys
    <2>2. PICK v \in Versions, a \in 0 .. TTL : entries[t].version = v /\ entries[t].age = a
        BY <2>1 DEF Entry
    <2>3. Was(t, v) /\ (a < TTL => idleFor[t][v] <= a + FetchTimeout)
        BY <2>1, <2>2 DEF EntryInv
    <2>4. /\ idleFor'[t][v] <= Bound
          /\ idleFor'[t][v] <= idleFor[t][v] + 1
          /\ idleFor'[t][v] \in Nat /\ idleFor[t][v] \in Nat
        BY <1>2, <1>7, <2>3 DEF Was
    <2>5. entries'[t].version = v /\ entries'[t].age = IF a < TTL THEN a + 1 ELSE a
        BY <1>4, <2>1, <2>2
    <2>6. entries'[t].age < TTL => idleFor'[t][v] <= entries'[t].age + FetchTimeout
        BY <2>3, <2>4, <2>5
    <2> QED
        BY <2>4, <2>5, <2>6
<1>11. WarmInv'
    BY <1>1, <1>2, <1>7 DEF WarmInv
<1>12. FetchInv'
    BY <1>1, <1>2, <1>7 DEF FetchInv
<1> QED
    BY <1>8, <1>9, <1>10, <1>11, <1>12

-----------------------------------------------------------------------------
(* Start-up and Get.  None of these steps changes idleFor.                 *)

LEMMA WarmStep ==
    ASSUME IInv, WarmFetch \/ WarmStore \/ Stop
    PROVE  IInv'
<1> USE CacheAssumption, BoundFacts DEF IInv, TypeOK, Idle, viewVars, readerVars
<1>1. CASE WarmFetch
    <2>1. TypeOK' /\ ActiveInv' /\ EntryInv' /\ FetchInv'
        BY <1>1 DEF WarmFetch, ActiveInv, EntryInv, FetchInv, Was
    <2>2. WarmInv'
        BY <1>1 DEF WarmFetch, WarmInv, ActiveInv, Was
    <2> QED
        BY <2>1, <2>2
<1>2. CASE WarmStore
    <2>1. /\ UNCHANGED <<active, idleFor, answer, fullWire, listed, pc, asked, stale, elapsed, resp>>
          /\ phase = "warming" /\ phase' = "serving" /\ warmFor' = 0
        BY <1>2 DEF WarmStore
    <2>2. /\ entries' \in [Keys -> Entry \cup {NoEntry}]
          /\ \A t \in Topics :
               \/ entries'[t] = entries[t]
               \/ \E v \in listed[t] : entries'[t] = [version |-> v, age |-> 0]
        <3> DEFINE known == {t \in Topics : listed[t] # {}}
                   last(t) == [version |-> Oldest(listed[t]), age |-> 0]
        <3>0. \A t \in known : Oldest(listed[t]) \in listed[t] /\ last(t) \in Entry
            BY ListEnds DEF Entry
        <3>1. CASE fullWire
            <4>1. entries' = [k \in Keys |-> IF k \in known THEN last(k) ELSE entries[k]]
                BY <1>2, <3>1 DEF WarmStore
            <4>2. \A k \in known : last(k) \in Entry
                BY <3>0
            <4> HIDE DEF known, last
            <4>3. entries' \in [Keys -> Entry \cup {NoEntry}]
                BY <4>1, <4>2
            <4>4. \A t \in Topics : t \in Keys
                BY DEF Keys
            <4> QED
                BY <3>0, <4>1, <4>3, <4>4 DEF known, last
        <3>2. CASE ~fullWire /\ known = {}
            <4>1. UNCHANGED entries
                BY <1>2, <3>2 DEF WarmStore
            <4> QED
                BY <4>1 DEF Keys
        <3>3. CASE ~fullWire /\ known # {}
            <4>1. PICK t \in known : entries' = [entries EXCEPT ![EmptyTopic] = last(t)]
                BY <1>2, <3>3 DEF WarmStore
            <4>2. last(t) \in Entry
                BY <3>0, <4>1
            <4>3. EmptyTopic \in Keys /\ \A u \in Topics : u \in Keys /\ u # EmptyTopic
                BY DEF Keys
            <4>4. entries' \in [Keys -> Entry \cup {NoEntry}]
                BY <4>1, <4>2, <4>3
            <4> QED
                BY <4>1, <4>3, <4>4
        <3> QED
            BY <3>1, <3>2, <3>3
    <2>3. TypeOK'
        BY <2>1, <2>2
    <2>4. ActiveInv' /\ WarmInv' /\ FetchInv'
        BY <2>1 DEF ActiveInv, WarmInv, FetchInv, Was
    <2>5. EntryInv'
        BY <2>1, <2>2 DEF EntryInv, WarmInv, Was, Keys, Entry
    <2> QED
        BY <2>3, <2>4, <2>5
<1>3. CASE Stop
    <2>1. TypeOK'
        BY <1>3 DEF Stop, Forget
    <2>2. ActiveInv' /\ EntryInv' /\ WarmInv' /\ FetchInv'
        BY <1>3 DEF Stop, Forget, ActiveInv, EntryInv, WarmInv, FetchInv, Keys
    <2> QED
        BY <2>1, <2>2
<1> QED
    BY <1>1, <1>2, <1>3

LEMMA GetStep ==
    ASSUME IInv, NEW r \in Readers, NEW t \in Topics, Hit(r, t) \/ Miss(r, t)
    PROVE  IInv'
<1> USE CacheAssumption, BoundFacts DEF IInv, TypeOK, Idle, cacheVars, readerVars
<1>0. t \in Keys /\ (entries[t] # NoEntry => entries[t] \in Entry)
    BY DEF Keys
<1>1. CASE Hit(r, t)
    <2>1. [topic |-> t, how |-> "fresh", version |-> entries[t].version] \in Answers
        BY <1>0, <1>1 DEF Hit, Fresh, Answers, Entry
    <2>2. TypeOK'
        BY <1>1, <2>1 DEF Hit, Reply
    <2>3. ActiveInv' /\ EntryInv' /\ WarmInv' /\ FetchInv'
        BY <1>1 DEF Hit, ActiveInv, EntryInv, WarmInv, FetchInv, Was
    <2> QED
        BY <2>2, <2>3
<1>2. CASE Miss(r, t)
    <2>1. stale'[r] \in Versions \cup {NoVersion}
        BY <1>0, <1>2 DEF Miss, Entry
    <2>2. TypeOK'
        BY <1>0, <1>2, <2>1 DEF Miss, Ask, Entry
    <2>3. ActiveInv' /\ EntryInv' /\ WarmInv'
        BY <1>2 DEF Miss, Ask, ActiveInv, EntryInv, WarmInv, Was
    <2>4. FetchInv'
        BY <1>0, <1>2 DEF Miss, Ask, FetchInv, EntryInv, Was
    <2> QED
        BY <2>2, <2>3, <2>4
<1> QED
    BY <1>1, <1>2

LEMMA FetchStep ==
    ASSUME IInv, NEW r \in Readers, Serve(r) \/ FetchOk(r) \/ FetchFails(r)
    PROVE  IInv'
<1> USE CacheAssumption, BoundFacts DEF IInv, TypeOK, Idle, viewVars, cacheVars
<1>1. CASE Serve(r)
    <2>1. TypeOK'
        BY <1>1, ListEnds DEF Serve
    <2>2. ActiveInv' /\ EntryInv' /\ WarmInv'
        BY <1>1 DEF Serve, ActiveInv, EntryInv, WarmInv, Was
    <2>3. FetchInv'
        BY <1>1, ListEnds DEF Serve, FetchInv, ActiveInv, Was
    <2> QED
        BY <2>1, <2>2, <2>3
<1>2. CASE FetchOk(r)
    <2>1. /\ asked[r] \in Topics /\ asked[r] \in Keys /\ resp[r] \in Versions
          /\ Was(asked[r], resp[r]) /\ idleFor[asked[r]][resp[r]] <= elapsed[r]
        BY <1>2 DEF FetchOk, FetchInv, Keys
    <2>2. [version |-> resp[r], age |-> 0] \in Entry
        BY <2>1 DEF Entry
    <2>3. [topic |-> asked[r], how |-> "fresh", version |-> resp[r]] \in Answers
        BY <2>1 DEF Answers
    <2>4. TypeOK'
        BY <1>2, <2>1, <2>2, <2>3 DEF FetchOk, Return, Reply
    <2>5. ActiveInv' /\ WarmInv' /\ FetchInv'
        BY <1>2 DEF FetchOk, Return, Reply, ActiveInv, WarmInv, FetchInv, Was
    <2>6. EntryInv'
        BY <1>2, <2>1, <2>2 DEF FetchOk, EntryInv, Was, Keys, Entry
    <2> QED
        BY <2>4, <2>5, <2>6
<1>3. CASE FetchFails(r)
    <2>1. /\ [topic |-> asked[r], how |-> "error", version |-> NoVersion] \in Answers
          /\ [topic |-> asked[r], how |-> "stale", version |-> stale[r]] \in Answers
        BY <1>3 DEF FetchFails, Answers
    <2>2. TypeOK'
        BY <1>3, <2>1 DEF FetchFails, Return, Reply
    <2>3. ActiveInv' /\ EntryInv' /\ WarmInv' /\ FetchInv'
        BY <1>3 DEF FetchFails, Return, ActiveInv, EntryInv, WarmInv, FetchInv, Was
    <2> QED
        BY <2>2, <2>3
<1> QED
    BY <1>1, <1>2, <1>3

LEMMA IInvStep == IInv /\ [Next]_vars => IInv'
<1> SUFFICES ASSUME IInv, [Next]_vars PROVE IInv'
    OBVIOUS
<1>1. CASE UNCHANGED vars
    BY <1>1 DEF vars, viewVars, cacheVars, readerVars, IInv, TypeOK, ActiveInv, EntryInv,
                WarmInv, FetchInv, Was, Idle
<1> QED
    BY <1>1, ActivatesStep, TickStep, WarmStep, GetStep, FetchStep DEF Next

LEMMA IInvHolds == Spec => []IInv
    BY IInvInit, IInvStep, PTL DEF Spec

(***************************************************************************)
(* The types of the cache, of the goroutines inside Get and of their       *)
(* answers hold in every reachable state.                                  *)
(***************************************************************************)
THEOREM TypeCorrect == Spec => []TypeOK
<1>1. IInv => TypeOK
    BY DEF IInv
<1> QED
    BY <1>1, IInvHolds, PTL

(***************************************************************************)
(* Get implements ContractView: its staleness is bounded by TTL plus       *)
(* FetchTimeout except for fail-open contracts, whatever refreshes race    *)
(* and in whatever order their replies arrive.                             *)
(***************************************************************************)
THEOREM KeepsPromise == Spec => KeepsStalenessPromise
<1>1. Init => ViewInit
    BY DEF Init
<1>2. IInv /\ [Next]_vars => [ViewNext]_viewVars
    <2> SUFFICES ASSUME IInv, [Next]_vars PROVE [ViewNext]_viewVars
        OBVIOUS
    <2> USE CacheAssumption, BoundFacts DEF ViewNext
    <2>1. ASSUME NEW r \in Readers, NEW t \in Topics, Hit(r, t)
          PROVE  ViewNext
        <3>1. t \in Keys /\ entries[t] # NoEntry /\ entries[t] \in Entry /\ entries[t].age < TTL
            BY <2>1 DEF Hit, Fresh, Keys, IInv, TypeOK
        <3>2. /\ entries[t].version \in Versions /\ entries[t].age \in Nat
              /\ idleFor[t][entries[t].version] \in Nat
            BY <3>1 DEF Entry, IInv, TypeOK
        <3>3. idleFor[t][entries[t].version] < Bound
            BY <3>1, <3>2 DEF IInv, EntryInv
        <3>4. AnswerFresh(r, t, entries[t].version)
            BY <2>1, <3>3 DEF Hit, AnswerFresh
        <3> QED
            BY <3>2, <3>4
    <2>2. ASSUME NEW r \in Readers, FetchOk(r)
          PROVE  ViewNext
        <3>1. /\ asked[r] \in Topics /\ resp[r] \in Versions /\ elapsed[r] \in 0 .. FetchTimeout
              /\ idleFor[asked[r]][resp[r]] \in Nat
              /\ idleFor[asked[r]][resp[r]] <= elapsed[r]
            BY <2>2 DEF FetchOk, IInv, TypeOK, FetchInv, Idle
        <3>2. AnswerFresh(r, asked[r], resp[r])
            BY <2>2, <3>1 DEF FetchOk, AnswerFresh
        <3> QED
            BY <3>1, <3>2
    <2>3. ASSUME NEW r \in Readers, FetchFails(r)
          PROVE  ViewNext
        <3>1. asked[r] \in Topics
            BY <2>3 DEF FetchFails, IInv, TypeOK
        <3>2. CASE stale[r] # NoVersion /\ fullWire /\ <<asked[r], stale[r]>> \in FailOpen
            <4>1. stale[r] \in Versions /\ Was(asked[r], stale[r])
                BY <2>3, <3>2 DEF FetchFails, IInv, TypeOK, FetchInv
            <4>2. idleFor[asked[r]][stale[r]] # Never
                BY <3>1, <4>1 DEF Was, IInv, TypeOK
            <4>3. AnswerStale(r, asked[r], stale[r])
                BY <2>3, <3>2, <4>2 DEF FetchFails, AnswerStale
            <4> QED
                BY <3>1, <4>1, <4>3
        <3>3. CASE ~(stale[r] # NoVersion /\ fullWire /\ <<asked[r], stale[r]>> \in FailOpen)
            <4>1. Refuse(r, asked[r])
                BY <2>3, <3>3 DEF FetchFails, Refuse
            <4> QED
                BY <3>1, <4>1
        <3> QED
            BY <3>2, <3>3
    <2>4. ASSUME NEW r \in Readers, NEW t \in Topics, Miss(r, t)
          PROVE  ViewNext
        BY <2>4 DEF Miss
    <2>5. CASE Tick
        BY <2>5 DEF Tick
    <2>6. CASE WarmFetch \/ WarmStore \/ Stop
        BY <2>6 DEF WarmFetch, WarmStore, Stop, viewVars
    <2>7. ASSUME NEW r \in Readers, Serve(r)
          PROVE  UNCHANGED viewVars
        BY <2>7 DEF Serve
    <2>8. ASSUME NEW t \in Topics, NEW S \in SUBSET Versions, ControlPlaneActivates(t, S)
          PROVE  ViewNext
        <3>1. active'[t] = S
            BY <2>8 DEF ControlPlaneActivates, Activate, Supersede, IInv, TypeOK
        <3> QED
            BY <2>8, <3>1 DEF ControlPlaneActivates
    <2>9. CASE UNCHANGED vars
        BY <2>9 DEF vars
    <2> HIDE DEF ViewNext
    <2> QED
        BY <2>1, <2>2, <2>3, <2>4, <2>5, <2>6, <2>7, <2>8, <2>9 DEF Next
<1> QED
    BY <1>1, <1>2, IInvHolds, PTL DEF Spec, KeepsStalenessPromise, ViewSpec

-----------------------------------------------------------------------------
(* What a caller of Get may rely on, from the promise alone: no fact about *)
(* entries, refreshes or the wire is used below.                           *)

(***************************************************************************)
(* A Get that returned a contract returned one that has been ACTIVE, now   *)
(* or before, and one returned after a failed fetch is fail-open.          *)
(***************************************************************************)
Backed(a) ==
    /\ a.how \in {"fresh", "stale"} =>
         a.version \in Versions /\ idleFor[a.topic][a.version] # Never
    /\ a.how = "stale" => <<a.topic, a.version>> \in FailOpen

AnswersBacked == \A r \in Readers : answer[r] # NoAnswer => Backed(answer[r])

ViewType ==
    /\ active \in [Topics -> SUBSET Versions]
    /\ idleFor \in [Topics -> [Versions -> 0 .. Never]]
    /\ answer \in [Readers -> Answers \cup {NoAnswer}]

\* Time and the control plane only ever add to the versions that have been active.
LEMMA BackedStays ==
    ASSUME ViewType, [ViewNext]_viewVars, NEW a \in Answers, Backed(a)
    PROVE  Backed(a)'
<1> SUFFICES ASSUME a.topic \in Topics, a.version \in Versions, idleFor[a.topic][a.version] # Never
             PROVE  idleFor'[a.topic][a.version] # Never
    BY DEF Backed, Answers
<1> USE BoundFacts DEF ViewType
<1>1. CASE \E u \in Topics : Activate(u, active'[u])
    BY <1>1 DEF Activate
<1>2. CASE Elapse
    BY <1>2 DEF Elapse
<1>3. CASE UNCHANGED idleFor
    BY <1>3
<1> QED
    BY <1>1, <1>2, <1>3
    DEF ViewNext, viewVars, Forget, Ask, Refuse, AnswerFresh, AnswerStale

\* A step that answers reader r of topic t leaves the other answers alone.
LEMMA OneReply ==
    ASSUME ViewType, NEW r \in Readers, NEW t \in Topics,
           NEW how \in {"fresh", "stale", "error"}, NEW v \in Versions \cup {NoVersion},
           Reply(r, t, how, v)
    PROVE  /\ answer' \in [Readers -> Answers \cup {NoAnswer}]
           /\ answer'[r] = [topic |-> t, how |-> how, version |-> v]
           /\ \A q \in Readers : q # r => answer'[q] = answer[q]
<1>1. [topic |-> t, how |-> how, version |-> v] \in Answers
    BY DEF Answers
<1> QED
    BY <1>1 DEF ViewType, Reply

LEMMA ViewStep ==
    ASSUME ViewType, AnswersBacked, [ViewNext]_viewVars
    PROVE  ViewType' /\ AnswersBacked'
<1> USE BoundFacts, CacheAssumption
<1>1. ASSUME NEW r \in Readers, answer'[r] = answer[r], answer[r] # NoAnswer
      PROVE  Backed(answer[r])'
    <2>1. answer[r] \in Answers /\ Backed(answer[r])
        BY <1>1 DEF ViewType, AnswersBacked
    <2>2. \A a \in Answers : Backed(a) => Backed(a)'
        BY BackedStays
    <2> QED
        BY <1>1, <2>1, <2>2 DEF Backed
<1>2. CASE (\E t \in Topics : Activate(t, active'[t])) \/ Elapse \/ UNCHANGED viewVars
    <2>1. answer' = answer
        BY <1>2 DEF Activate, Elapse, viewVars
    <2>2. active' \in [Topics -> SUBSET Versions]
        BY <1>2 DEF ViewType, Activate, Supersede, Elapse, viewVars
    <2>3. idleFor' \in [Topics -> [Versions -> 0 .. Never]]
        <3>1. CASE \E t \in Topics : Activate(t, active'[t])
            BY <3>1 DEF ViewType, Activate
        <3>2. CASE Elapse
            BY <3>2 DEF ViewType, Elapse
        <3> QED
            BY <1>2, <3>1, <3>2 DEF ViewType, viewVars
    <2>4. ViewType'
        BY <2>1, <2>2, <2>3 DEF ViewType
    <2> QED
        BY <1>1, <2>1, <2>4 DEF AnswersBacked
<1>3. CASE Forget
    <2>1. ViewType'
        BY <1>3 DEF Forget, ViewType
    <2> QED
        BY <1>3, <2>1 DEF Forget, AnswersBacked
<1>4. ASSUME NEW r \in Readers, Ask(r)
      PROVE  ViewType' /\ AnswersBacked'
    <2>1. ViewType' /\ \A q \in Readers : answer'[q] = answer[q] \/ answer'[q] = NoAnswer
        BY <1>4 DEF Ask, ViewType
    <2> QED
        BY <1>1, <2>1 DEF AnswersBacked
<1>5. ASSUME NEW r \in Readers, NEW t \in Topics, Refuse(r, t)
      PROVE  ViewType' /\ AnswersBacked'
    <2>1. Reply(r, t, "error", NoVersion) /\ UNCHANGED <<active, idleFor>>
        BY <1>5 DEF Refuse
    <2>2. /\ answer' \in [Readers -> Answers \cup {NoAnswer}]
          /\ answer'[r] = [topic |-> t, how |-> "error", version |-> NoVersion]
          /\ \A q \in Readers : q # r => answer'[q] = answer[q]
        BY <2>1, OneReply
    <2>3. ViewType' /\ answer'[r].how = "error"
        BY <2>1, <2>2 DEF ViewType
    <2> QED
        BY <1>1, <2>2, <2>3 DEF AnswersBacked, Backed
<1>6. ASSUME NEW r \in Readers, NEW t \in Topics, NEW v \in Versions,
             AnswerFresh(r, t, v) \/ AnswerStale(r, t, v)
      PROVE  ViewType' /\ AnswersBacked'
    <2>1. PICK how \in {"fresh", "stale"} :
             /\ Reply(r, t, how, v) /\ UNCHANGED <<active, idleFor>>
             /\ idleFor[t][v] # Never
             /\ how = "stale" => <<t, v>> \in FailOpen
        BY <1>6 DEF AnswerFresh, AnswerStale, ViewType
    <2>2. ViewType' /\ answer'[r] = [topic |-> t, how |-> how, version |-> v]
          /\ \A q \in Readers : q # r => answer'[q] = answer[q]
        BY <2>1, OneReply DEF ViewType
    <2>3. idleFor'[t][v] # Never
        BY <2>1
    <2> QED
        BY <1>1, <2>1, <2>2, <2>3 DEF AnswersBacked, Backed
<1> QED
    BY <1>2, <1>3, <1>4, <1>5, <1>6 DEF ViewNext

(***************************************************************************)
(* ContractView's promise is enough for the produce handler: whatever Get  *)
(* returns as a contract had been activated, which is what ProducePath     *)
(* assumes of its Lookup, and only a fail-open contract outlives a failed  *)
(* fetch.                                                                  *)
(***************************************************************************)
THEOREM PromiseSuffices == KeepsStalenessPromise => []AnswersBacked
<1>1. ViewInit => ViewType /\ AnswersBacked
    BY BoundFacts, CacheAssumption DEF ViewInit, PlaneInit, ViewType, AnswersBacked
<1>2. ViewType /\ AnswersBacked /\ [ViewNext]_viewVars => ViewType' /\ AnswersBacked'
    BY ViewStep
<1> QED
    BY <1>1, <1>2, PTL DEF KeepsStalenessPromise, ViewSpec

(***************************************************************************)
(* So it holds of the cache itself, whatever races, restarts and outages.  *)
(***************************************************************************)
THEOREM AnswersAreBacked == Spec => []AnswersBacked
BY KeepsPromise, PromiseSuffices, PTL
=============================================================================
