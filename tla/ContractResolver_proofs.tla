---------------------- MODULE ContractResolver_proofs ----------------------
(***************************************************************************)
(* The resolver implements ContractView, with no version fail-open, for    *)
(* every set of topics, versions and threads, and every TTL and            *)
(* FetchTimeout; and what it calls not found was not there.                *)
(***************************************************************************)
EXTENDS ContractResolver, TLAPS

Was(t, v) == v \in Versions /\ idleFor[t][v] <= Bound

\* The version that GetActiveVersion shows has no idle time.
ActiveInv == \A t \in Topics : active[t] # {} => idleFor[t][Newest(active[t])] = 0

\* An unexpired entry's version was shown at most FetchTimeout before it was stored.
EntryInv == \A t \in Topics : cache[t] # NoEntry =>
    /\ Was(t, cache[t].version)
    /\ cache[t].age < TTL => idleFor[t][cache[t].version] <= cache[t].age + FetchTimeout

\* A reply was true when it was written, and that was after the request.
ReplyInv == \A r \in Threads : ~Idle(r) =>
    /\ resp[r] # NoVersion =>
         Was(asked[r], resp[r]) /\ idleFor[asked[r]][resp[r]] <= elapsed[r]
    /\ known[r] => active[asked[r]] # {}
    /\ known[r] /\ pc[r] = "served" => resp[r] # NoVersion

IInv == TypeOK /\ ActiveInv /\ EntryInv /\ ReplyInv

-----------------------------------------------------------------------------
LEMMA BoundFacts ==
    /\ TTL \in Nat /\ TTL > 0 /\ FetchTimeout \in Nat /\ FetchTimeout > 0
    /\ Bound \in Nat /\ Bound = TTL + FetchTimeout /\ Never = Bound + 1
    /\ NoVersion \notin Versions
BY ResolverAssumption DEF Bound, Never

\* GetActiveVersion shows a version of the topic if it has an ACTIVE one.
LEMMA NewestIn ==
    ASSUME NEW S \in SUBSET Versions
    PROVE  /\ S # {} => Newest(S) \in S /\ Newest(S) \in Versions
           /\ S = {} => Newest(S) = NoVersion
BY ResolverAssumption DEF Newest

LEMMA IInvInit == Init => IInv
<1> SUFFICES ASSUME Init PROVE IInv
    OBVIOUS
<1> USE BoundFacts DEF Init, PlaneInit, Idle
<1>1. TypeOK
    BY DEF TypeOK
<1>2. ActiveInv /\ EntryInv /\ ReplyInv
    BY DEF ActiveInv, EntryInv, ReplyInv
<1> QED
    BY <1>1, <1>2 DEF IInv

LEMMA ActivateStep ==
    ASSUME IInv, NEW t \in Topics, NEW S \in SUBSET Versions, Activate(t, S)
    PROVE  IInv'
<1>0. S # {} /\ Newest(S) \in Versions
    BY NewestIn DEF Activate, Supersede
<1> USE BoundFacts, <1>0 DEF IInv, TypeOK, Activate, Supersede, locals, Idle
<1>1. TypeOK'
    OBVIOUS
<1>2. \A u \in Topics, w \in Versions : Was(u, w) =>
         Was(u, w)' /\ idleFor'[u][w] <= idleFor[u][w]
    BY DEF Was
<1>3. ActiveInv'
    BY DEF ActiveInv
<1>4. EntryInv'
    BY <1>2 DEF EntryInv, Entry, Was
<1>5. ReplyInv'
    BY <1>2 DEF ReplyInv
<1> QED
    BY <1>1, <1>3, <1>4, <1>5

LEMMA TickStep ==
    ASSUME IInv, Tick
    PROVE  IInv'
<1> USE BoundFacts, ResolverAssumption DEF IInv, TypeOK, Idle
<1>1. /\ UNCHANGED <<active, pc, asked, resp, known, outcome>>
      /\ \A r \in Threads : ~Idle(r) =>
            elapsed[r] < FetchTimeout /\ elapsed'[r] = elapsed[r] + 1
    BY DEF Tick
<1>2. idleFor' \in [Topics -> [Versions -> 0 .. Never]]
    BY DEF Tick
<1>3. elapsed' \in [Threads -> 0 .. FetchTimeout]
    BY DEF Tick
<1>4. ASSUME NEW t \in Topics, cache[t] # NoEntry
      PROVE  /\ cache'[t] \in Entry
             /\ cache'[t].version = cache[t].version
             /\ cache'[t].age = IF cache[t].age < TTL THEN cache[t].age + 1 ELSE cache[t].age
    BY <1>4 DEF Tick, Entry
<1>5. \A t \in Topics : cache[t] = NoEntry => cache'[t] = NoEntry
    BY DEF Tick
<1>6. cache' \in [Topics -> Entry \cup {NoEntry}]
    <2>1. cache' = [t \in Topics |-> cache'[t]]
        BY DEF Tick
    <2> QED
        BY <1>4, <1>5, <2>1
<1>7. \A u \in Topics, w \in Versions : Was(u, w) =>
         Was(u, w)' /\ idleFor'[u][w] <= idleFor[u][w] + 1
    BY DEF Tick, Was
<1>8. TypeOK'
    BY <1>1, <1>2, <1>3, <1>6
<1>9. ActiveInv'
    BY <1>1, NewestIn DEF ActiveInv, Tick
<1>10. EntryInv'
    <2> SUFFICES ASSUME NEW t \in Topics, cache'[t] # NoEntry
                 PROVE  /\ cache'[t].version \in Versions
                        /\ idleFor'[t][cache'[t].version] <= Bound
                        /\ cache'[t].age < TTL =>
                             idleFor'[t][cache'[t].version] <= cache'[t].age + FetchTimeout
        BY DEF EntryInv, Was
    <2>1. cache[t] # NoEntry /\ cache[t] \in Entry
        BY <1>5
    <2>2. PICK v \in Versions, a \in 0 .. TTL : cache[t].version = v /\ cache[t].age = a
        BY <2>1 DEF Entry
    <2>3. Was(t, v) /\ (a < TTL => idleFor[t][v] <= a + FetchTimeout)
        BY <2>1, <2>2 DEF EntryInv
    <2>4. /\ idleFor'[t][v] <= Bound
          /\ idleFor'[t][v] <= idleFor[t][v] + 1
          /\ idleFor'[t][v] \in Nat /\ idleFor[t][v] \in Nat
        BY <1>2, <1>7, <2>3 DEF Was
    <2>5. cache'[t].version = v /\ cache'[t].age = IF a < TTL THEN a + 1 ELSE a
        BY <1>4, <2>1, <2>2
    <2>6. cache'[t].age < TTL => idleFor'[t][v] <= cache'[t].age + FetchTimeout
        BY <2>3, <2>4, <2>5
    <2> QED
        BY <2>4, <2>5, <2>6
<1>11. ReplyInv'
    BY <1>1, <1>2, <1>7 DEF ReplyInv
<1> QED
    BY <1>8, <1>9, <1>10, <1>11

-----------------------------------------------------------------------------
(* resolve.  None of these steps changes idleFor.                          *)

LEMMA ResolveStep ==
    ASSUME IInv, NEW r \in Threads, NEW t \in Topics, Hit(r, t) \/ Miss(r, t)
    PROVE  IInv'
<1> USE BoundFacts DEF IInv, TypeOK, Idle, controlPlane, locals
<1>1. CASE Hit(r, t)
    <2>1. [topic |-> t, how |-> "ref", version |-> cache[t].version] \in Outcomes
        BY <1>1 DEF Hit, Fresh, Outcomes, Entry
    <2>2. TypeOK'
        BY <1>1, <2>1 DEF Hit, Outcome
    <2>3. ActiveInv' /\ EntryInv' /\ ReplyInv'
        BY <1>1 DEF Hit, ActiveInv, EntryInv, ReplyInv, Was
    <2> QED
        BY <2>2, <2>3
<1>2. CASE Miss(r, t)
    <2>1. TypeOK'
        BY <1>2 DEF Miss
    <2>2. ActiveInv' /\ EntryInv'
        BY <1>2 DEF Miss, ActiveInv, EntryInv, Was
    <2>3. ReplyInv'
        BY <1>2 DEF Miss, ReplyInv, Was
    <2> QED
        BY <2>1, <2>2, <2>3
<1> QED
    BY <1>1, <1>2

LEMMA FetchStep ==
    ASSUME IInv, NEW r \in Threads, Serve(r) \/ FetchOk(r) \/ NotFound(r) \/ FetchFails(r)
    PROVE  IInv'
<1> USE BoundFacts DEF IInv, TypeOK, Idle, controlPlane
<1>1. CASE Serve(r)
    <2>1. TypeOK'
        BY <1>1, NewestIn DEF Serve
    <2>2. ActiveInv' /\ EntryInv'
        BY <1>1 DEF Serve, ActiveInv, EntryInv, Was
    <2>3. ReplyInv'
        BY <1>1, NewestIn DEF Serve, ReplyInv, ActiveInv, Was
    <2> QED
        BY <2>1, <2>2, <2>3
<1>2. CASE FetchOk(r)
    <2>1. /\ asked[r] \in Topics /\ resp[r] \in Versions
          /\ Was(asked[r], resp[r]) /\ idleFor[asked[r]][resp[r]] <= elapsed[r]
        BY <1>2 DEF FetchOk, ReplyInv
    <2>2. [version |-> resp[r], age |-> 0] \in Entry
        BY <2>1 DEF Entry
    <2>3. [topic |-> asked[r], how |-> "ref", version |-> resp[r]] \in Outcomes
        BY <2>1 DEF Outcomes
    <2>4. TypeOK'
        BY <1>2, <2>1, <2>2, <2>3 DEF FetchOk, Return, Outcome
    <2>5. ActiveInv' /\ ReplyInv'
        BY <1>2 DEF FetchOk, Return, ActiveInv, ReplyInv, Was
    <2>6. EntryInv'
        BY <1>2, <2>1, <2>2 DEF FetchOk, EntryInv, Was, Entry
    <2> QED
        BY <2>4, <2>5, <2>6
<1>3. CASE NotFound(r) \/ FetchFails(r)
    <2>1. asked[r] \in Topics
        BY <1>3 DEF NotFound, FetchFails
    <2>2. \A h \in {"not_found", "unreachable"} :
            [topic |-> asked[r], how |-> h, version |-> NoVersion] \in Outcomes
        BY <2>1 DEF Outcomes
    <2>3. PICK h \in {"not_found", "unreachable"} :
             /\ outcome' = [outcome EXCEPT ![r] =
                              [topic |-> asked[r], how |-> h, version |-> NoVersion]]
             /\ Return(r) /\ UNCHANGED <<active, idleFor, cache>>
        BY <1>3 DEF NotFound, FetchFails, Outcome
    <2>4. outcome' \in [Threads -> Outcomes \cup {NoAnswer}]
        BY <2>2, <2>3
    <2>5. TypeOK'
        BY <2>3, <2>4 DEF Return
    <2>6. ActiveInv' /\ EntryInv' /\ ReplyInv'
        BY <2>3 DEF Return, ActiveInv, EntryInv, ReplyInv, Was
    <2> QED
        BY <2>5, <2>6
<1> QED
    BY <1>1, <1>2, <1>3

LEMMA RestartStep ==
    ASSUME IInv, Restart
    PROVE  IInv'
<1> USE BoundFacts DEF IInv, TypeOK, Idle, controlPlane, Restart
<1>1. TypeOK'
    OBVIOUS
<1>2. ActiveInv' /\ EntryInv' /\ ReplyInv'
    BY DEF ActiveInv, EntryInv, ReplyInv
<1> QED
    BY <1>1, <1>2

LEMMA IInvStep == IInv /\ [Next]_vars => IInv'
<1> SUFFICES ASSUME IInv, [Next]_vars PROVE IInv'
    OBVIOUS
<1>1. CASE UNCHANGED vars
    BY <1>1 DEF vars, controlPlane, locals, IInv, TypeOK, ActiveInv, EntryInv, ReplyInv, Was, Idle
<1> QED
    BY <1>1, ActivateStep, TickStep, ResolveStep, FetchStep, RestartStep DEF Next

LEMMA IInvHolds == Spec => []IInv
    BY IInvInit, IInvStep, PTL DEF Spec

(***************************************************************************)
(* The types of the cache, of the threads inside resolve and of what they  *)
(* return or raise hold in every reachable state.                          *)
(***************************************************************************)
THEOREM TypeCorrect == Spec => []TypeOK
<1>1. IInv => TypeOK
    BY DEF IInv
<1> QED
    BY <1>1, IInvHolds, PTL

(***************************************************************************)
(* ContractNotFoundError means that the topic had no active contract when  *)
(* resolve was called.                                                     *)
(***************************************************************************)
THEOREM NotFoundIsTrue == Spec => NotFoundWasTrue
<1>1. IInv /\ [Next]_vars =>
        [\A r \in Threads :
           outcome'[r] # outcome[r] /\ outcome'[r] # NoAnswer /\ outcome'[r].how = "not_found"
               => ~known[r]]_vars
    <2> SUFFICES ASSUME IInv, Next, NEW r \in Threads,
                        outcome'[r] # outcome[r], outcome'[r] # NoAnswer,
                        outcome'[r].how = "not_found"
                 PROVE  ~known[r]
        OBVIOUS
    <2> USE DEF IInv, TypeOK
    <2>1. ASSUME NEW q \in Threads, NotFound(q)
          PROVE  ~known[r]
        <3>1. q = r
            BY <2>1 DEF NotFound, Outcome
        <3> QED
            BY <2>1, <3>1 DEF NotFound, ReplyInv, Idle
    <2>2. ASSUME NEW q \in Threads, NEW t \in Topics, Hit(q, t) \/ Miss(q, t)
          PROVE  FALSE
        BY <2>2 DEF Hit, Miss, Outcome
    <2>3. ASSUME NEW q \in Threads, Serve(q) \/ FetchOk(q) \/ FetchFails(q)
          PROVE  FALSE
        BY <2>3 DEF Serve, FetchOk, FetchFails, Outcome
    <2>4. CASE Tick \/ Restart \/ \E t \in Topics, S \in SUBSET Versions : Activate(t, S)
        BY <2>4 DEF Tick, Restart, Activate, Supersede
    <2> QED
        BY <2>1, <2>2, <2>3, <2>4 DEF Next
<1> QED
    BY <1>1, IInvHolds, PTL DEF Spec, NotFoundWasTrue

-----------------------------------------------------------------------------
(* The refinement: an outcome is an answer of ContractView.                *)

Answered == [r \in Threads |-> Promised(outcome[r])]

\* An outcome that one thread gets is that thread's answer, and no other's.
LEMMA PromisedOutcome ==
    ASSUME IInv, NEW r \in Threads, NEW t \in Topics,
           NEW h \in {"ref", "not_found", "unreachable"}, NEW v \in Versions \cup {NoVersion},
           Outcome(r, t, h, v)
    PROVE  View!Reply(r, t, IF h = "ref" THEN "fresh" ELSE "error", v)
<1>1. outcome' = [outcome EXCEPT ![r] = [topic |-> t, how |-> h, version |-> v]]
    BY DEF Outcome
<1>2. [topic |-> t, how |-> h, version |-> v] \in Outcomes
    BY DEF Outcomes
<1>3. [topic |-> t, how |-> h, version |-> v] # NoAnswer
    BY <1>2, ResolverAssumption
<1>4. \A q \in Threads : outcome'[q] =
        IF q = r THEN [topic |-> t, how |-> h, version |-> v] ELSE outcome[q]
    BY <1>1 DEF IInv, TypeOK
<1> DEFINE given == [topic |-> t, how |-> h, version |-> v]
           seen == [topic |-> t, how |-> IF h = "ref" THEN "fresh" ELSE "error", version |-> v]
<1>5. Promised(given) = seen
    BY <1>3 DEF Promised
<1>6. outcome'[r] = given /\ \A q \in Threads : q # r => outcome'[q] = outcome[q]
    BY <1>4
<1> HIDE DEF given, seen
<1>7. Answered' = [Answered EXCEPT ![r] = seen]
    BY <1>5, <1>6 DEF Answered
<1> QED
    BY <1>7 DEF View!Reply, Answered, seen

\* So is the loss of an earlier outcome.
LEMMA PromisedNothing ==
    ASSUME IInv, NEW r \in Threads, outcome' = [outcome EXCEPT ![r] = NoAnswer]
    PROVE  Answered' = [Answered EXCEPT ![r] = NoAnswer]
<1>1. \A q \in Threads : outcome'[q] = IF q = r THEN NoAnswer ELSE outcome[q]
    BY DEF IInv, TypeOK
<1> QED
    BY <1>1 DEF Answered, Promised

(***************************************************************************)
(* resolve implements ContractView with nothing fail-open: references are  *)
(* at most TTL plus FetchTimeout out of date, whatever the threads and the *)
(* service do, and errors say nothing.                                     *)
(***************************************************************************)
THEOREM KeepsPromise == Spec => KeepsStalenessPromise
<1>1. Init => View!ViewInit
    BY BoundFacts, NewestIn
       DEF Init, PlaneInit, Promised, Shown, View!ViewInit, View!PlaneInit, View!Never, Never
<1>2. IInv /\ [Next]_vars => [View!ViewNext]_(View!viewVars)
    <2> SUFFICES ASSUME IInv, [Next]_vars PROVE View!ViewNext \/ UNCHANGED View!viewVars
        OBVIOUS
    <2> USE BoundFacts DEF View!ViewNext
    <2>1. ASSUME NEW r \in Threads, NEW t \in Topics, Hit(r, t)
          PROVE  View!ViewNext
        <3>1. cache[t] # NoEntry /\ cache[t] \in Entry /\ cache[t].age < TTL
            BY <2>1 DEF Hit, Fresh, IInv, TypeOK
        <3>2. /\ cache[t].version \in Versions /\ cache[t].age \in Nat
              /\ idleFor[t][cache[t].version] \in Nat
            BY <3>1 DEF Entry, IInv, TypeOK
        <3>3. idleFor[t][cache[t].version] < Bound
            BY <3>1, <3>2 DEF IInv, EntryInv
        <3>4. View!Reply(r, t, "fresh", cache[t].version)
            BY <2>1, <3>2, PromisedOutcome DEF Hit
        <3>5. View!AnswerFresh(r, t, cache[t].version)
            BY <2>1, <3>3, <3>4 DEF Hit, View!AnswerFresh, controlPlane, Shown
        <3> QED
            BY <3>2, <3>5
    <2>2. ASSUME NEW r \in Threads, FetchOk(r)
          PROVE  View!ViewNext
        <3>1. /\ asked[r] \in Topics /\ resp[r] \in Versions /\ elapsed[r] \in 0 .. FetchTimeout
              /\ idleFor[asked[r]][resp[r]] \in Nat
              /\ idleFor[asked[r]][resp[r]] <= elapsed[r]
            BY <2>2 DEF FetchOk, IInv, TypeOK, ReplyInv, Idle
        <3>2. PICK t \in Topics, v \in Versions : t = asked[r] /\ v = resp[r]
            BY <3>1
        <3>3. View!Reply(r, t, "fresh", v)
            BY <2>2, <3>2, PromisedOutcome DEF FetchOk
        <3>4. View!AnswerFresh(r, t, v)
            <4>1. idleFor[t][v] < Bound /\ UNCHANGED <<active, idleFor>>
                BY <2>2, <3>1, <3>2 DEF FetchOk, controlPlane
            <4> QED
                BY <3>3, <4>1 DEF View!AnswerFresh, Shown
        <3> QED
            BY <3>2, <3>4
    <2>3. ASSUME NEW r \in Threads, NotFound(r) \/ FetchFails(r)
          PROVE  View!ViewNext
        <3>1. PICK t \in Topics, h \in {"not_found", "unreachable"} :
                 Outcome(r, t, h, NoVersion) /\ UNCHANGED controlPlane
            <4>1. asked[r] \in Topics
                BY <2>3 DEF NotFound, FetchFails, IInv, TypeOK, Idle
            <4> QED
                BY <2>3, <4>1 DEF NotFound, FetchFails
        <3>2. View!Reply(r, t, IF h = "ref" THEN "fresh" ELSE "error", NoVersion)
            BY <3>1, PromisedOutcome
        <3>3. View!Reply(r, t, "error", NoVersion)
            BY <3>2
        <3>4. View!Refuse(r, t)
            BY <3>1, <3>3 DEF View!Refuse, controlPlane, Shown
        <3> QED
            BY <3>4
    <2>4. ASSUME NEW r \in Threads, NEW t \in Topics, Miss(r, t)
          PROVE  View!ViewNext
        <3>1. Answered' = [Answered EXCEPT ![r] = NoAnswer]
            BY <2>4, PromisedNothing DEF Miss
        <3>2. View!Ask(r)
            BY <2>4, <3>1 DEF Miss, View!Ask, Answered, controlPlane, Shown
        <3> QED
            BY <3>2
    <2>5. ASSUME NEW t \in Topics, NEW S \in SUBSET Versions, Activate(t, S)
          PROVE  View!ViewNext
        <3> DEFINE view == [u \in Topics |-> Shown(u)]
        <3>1. /\ S # {} /\ Newest(S) \in Versions /\ Newest(S) # NoVersion
              /\ active' = [active EXCEPT ![t] = S] /\ active \in [Topics -> SUBSET Versions]
            BY <2>5, NewestIn DEF Activate, Supersede, IInv, TypeOK
        <3>2. Shown(t)' = {Newest(S)} /\ \A u \in Topics : u # t => Shown(u)' = Shown(u)
            BY <3>1 DEF Shown
        <3>3. view'[t] = {Newest(S)} /\ view' = [view EXCEPT ![t] = {Newest(S)}]
            BY <3>2
        <3>4. idleFor' = [idleFor EXCEPT ![t] =
                  [v \in Versions |-> IF v \in {Newest(S)} THEN 0 ELSE idleFor[t][v]]]
            BY <2>5, <3>1 DEF Activate, IInv, TypeOK
        <3>5. View!Supersede(t, {Newest(S)})
            BY <3>1, <3>3 DEF View!Supersede
        <3>6. View!Activate(t, {Newest(S)})
            BY <2>5, <3>4, <3>5 DEF Activate, View!Activate
        <3> QED
            BY <3>3, <3>6
    <2>6. CASE Tick
        <3>1. View!Elapse
            <4>1. \A t \in Topics, v \in Versions : v \in Shown(t) <=> v = Newest(active[t])
                BY DEF Shown
            <4> QED
                BY <2>6, <4>1 DEF Tick, View!Elapse, Shown
        <3> QED
            BY <3>1
    <2>7. CASE Restart
        <3>1. Answered' = [r \in Threads |-> NoAnswer]
            BY <2>7 DEF Restart, Answered, Promised
        <3>2. View!Forget
            BY <2>7, <3>1 DEF Restart, View!Forget, Answered, controlPlane, Shown
        <3> QED
            BY <3>2
    <2>8. ASSUME UNCHANGED <<controlPlane, outcome>>
          PROVE  UNCHANGED View!viewVars
        BY <2>8 DEF View!viewVars, controlPlane, Shown
    <2>9. \A r \in Threads : Serve(r) => UNCHANGED <<controlPlane, outcome>>
        BY DEF Serve
    <2>10. UNCHANGED vars => UNCHANGED <<controlPlane, outcome>>
        BY DEF vars
    <2> HIDE DEF View!ViewNext
    <2> QED
        BY <2>1, <2>2, <2>3, <2>4, <2>5, <2>6, <2>7, <2>8, <2>9, <2>10 DEF Next
<1> QED
    BY <1>1, <1>2, IInvHolds, PTL DEF Spec, KeepsStalenessPromise, View!ViewSpec
=============================================================================
