------------------------ MODULE LineageWorker_proofs ------------------------
(***************************************************************************)
(* For any number of workers and partitions, any messages, and any crashes,*)
(* evictions, rebalances and failed commits: the group's offset passes only *)
(* messages that were dealt with, and never moves back; and while commits  *)
(* succeed, what a worker may have to do again is bounded.                 *)
(***************************************************************************)
EXTENDS LineageWorker, FiniteSetTheorems, TLAPS

\* A position lies behind messages that were dealt with, except the one in hand.
PositionInv ==
    \A w \in Workers : \A p \in Partitions :
        phase[w] # "down" /\ p \in assigned[w] =>
            \A o \in 0 .. position[w][p] - 1 :
                \/ <<p, o>> \in handled
                \/ phase[w] = "handling" /\ current[w] = p /\ o = position[w][p] - 1

\* A worker whose commits are accepted is not behind the group's offset.
AheadInv ==
    \A w \in Workers : \A p \in Partitions :
        phase[w] # "down" /\ member[w] /\ p \in assigned[w] => committed[p] <= position[w][p]

\* No two workers are accepted for one partition.
FencedInv ==
    \A v, w \in Workers : \A p \in Partitions :
        member[v] /\ member[w] /\ p \in assigned[v] /\ p \in assigned[w] => v = w

\* The message in hand was polled from a partition the worker still works on.
InHandInv ==
    \A w \in Workers : phase[w] = "handling" =>
        /\ current[w] \in Partitions
        /\ position[w][current[w]] > 0

IInv == /\ TypeOK /\ CommittedWasHandled
        /\ PositionInv /\ AheadInv /\ FencedInv /\ InHandInv

-----------------------------------------------------------------------------
LEMMA IInvInit == Init => IInv
<1> SUFFICES ASSUME Init PROVE IInv
    OBVIOUS
<1> USE LineageAssumption DEF Init, Nowhere
<1>1. TypeOK
    BY DEF TypeOK, Phases, Messages
<1>2. CommittedWasHandled /\ PositionInv /\ AheadInv /\ FencedInv /\ InHandInv
    BY DEF CommittedWasHandled, PositionInv, AheadInv, FencedInv, InHandInv
<1> QED
    BY <1>1, <1>2 DEF IInv

-----------------------------------------------------------------------------
(* Processes and the group.                                                *)

\* A worker that starts, is told to stop, crashes, expires or is evicted:
\* committed and handled stay, and nobody gains a partition.
LEMMA LifeStep ==
    ASSUME IInv, NEW w \in Workers,
           Start(w) \/ Signal(w) \/ Crash(w) \/ Expire(w) \/ Evict(w)
    PROVE  IInv'
<1> USE DEF IInv
<1>1. UNCHANGED <<log, committed, recorded, handled, commitFailed>>
    BY DEF Start, Signal, Crash, Expire, Evict, group, worker, marquez
<1>2. TypeOK'
    <2>1. CASE Start(w)
        BY <2>1 DEF Start, TypeOK, Phases, marquez
    <2>2. CASE Signal(w)
        BY <2>2 DEF Signal, Fault, TypeOK, group, marquez
    <2>3. CASE Crash(w)
        BY <2>3 DEF Crash, Fault, TypeOK, Phases, Nowhere, group, marquez
    <2>4. CASE Expire(w)
        BY <2>4 DEF Expire, TypeOK, worker, marquez
    <2>5. CASE Evict(w)
        BY <2>5 DEF Evict, Fault, TypeOK, worker, marquez
    <2> QED
        BY <2>1, <2>2, <2>3, <2>4, <2>5
<1>3. CommittedWasHandled'
    BY <1>1 DEF CommittedWasHandled
<1>4. /\ \A v \in Workers : assigned'[v] \subseteq assigned[v] /\ (member'[v] => member[v])
      /\ \A v \in Workers : \/ phase'[v] = "down" \/ (assigned'[v] = {} /\ phase'[v] # "handling")
                            \/ /\ phase'[v] = phase[v] /\ position'[v] = position[v]
                               /\ current'[v] = current[v]
    BY DEF Start, Signal, Crash, Expire, Evict, group, worker, TypeOK
<1>5. PositionInv'
    BY <1>1, <1>4 DEF PositionInv
<1>6. AheadInv'
    BY <1>1, <1>4 DEF AheadInv
<1>7. FencedInv'
    BY <1>4 DEF FencedInv
<1>8. InHandInv'
    BY <1>4 DEF InHandInv
<1> QED
    BY <1>2, <1>3, <1>5, <1>6, <1>7, <1>8

LEMMA AssignStep ==
    ASSUME IInv, NEW w \in Workers, NEW S \in SUBSET Partitions, Assign(w, S)
    PROVE  IInv'
<1> USE DEF IInv
<1>1. /\ phase[w] = "polling" /\ (member[w] \/ assigned[w] = {})
      /\ \A p \in S : Free(p)
      /\ member' = [member EXCEPT ![w] = TRUE]
      /\ assigned' = [assigned EXCEPT ![w] = assigned[w] \cup S]
      /\ position' = [position EXCEPT ![w] =
                        [p \in Partitions |-> IF p \in S THEN committed[p] ELSE position[w][p]]]
      /\ UNCHANGED <<log, committed, phase, running, current, since, recorded, handled, faults,
                     commitFailed>>
    BY DEF Assign, StartAt, marquez
<1>2. TypeOK'
    <2>1. /\ member' \in [Workers -> BOOLEAN]
          /\ assigned' \in [Workers -> SUBSET Partitions]
        BY <1>1 DEF TypeOK
    <2>2. position' \in [Workers -> [Partitions -> Nat]]
        <3>1. [p \in Partitions |-> IF p \in S THEN committed[p] ELSE position[w][p]]
                \in [Partitions -> Nat]
            BY DEF TypeOK
        <3> QED
            BY <1>1, <3>1 DEF TypeOK
    <2> QED
        BY <1>1, <2>1, <2>2 DEF TypeOK
<1>3. /\ \A v \in Workers : v # w => /\ assigned'[v] = assigned[v] /\ member'[v] = member[v]
                                     /\ position'[v] = position[v]
      /\ assigned'[w] = assigned[w] \cup S /\ member'[w] = TRUE
      /\ \A p \in Partitions :
           position'[w][p] = IF p \in S THEN committed[p] ELSE position[w][p]
    BY <1>1 DEF TypeOK
<1>4. CommittedWasHandled'
    BY <1>1 DEF CommittedWasHandled
<1>5. PositionInv'
    <2> SUFFICES ASSUME NEW v \in Workers, NEW p \in Partitions,
                        phase[v] # "down", p \in assigned'[v],
                        NEW o \in 0 .. position'[v][p] - 1
                 PROVE  \/ <<p, o>> \in handled
                        \/ phase[v] = "handling" /\ current[v] = p /\ o = position'[v][p] - 1
        BY <1>1 DEF PositionInv
    <2>1. CASE v = w /\ p \in S
        BY <1>3, <2>1 DEF CommittedWasHandled
    <2>2. CASE ~(v = w /\ p \in S)
        <3>1. position'[v][p] = position[v][p] /\ p \in assigned[v]
            BY <1>3, <2>2
        <3> QED
            BY <3>1 DEF PositionInv
    <2> QED
        BY <2>1, <2>2
<1>6. AheadInv'
    <2> SUFFICES ASSUME NEW v \in Workers, NEW p \in Partitions,
                        phase[v] # "down", member'[v], p \in assigned'[v]
                 PROVE  committed[p] <= position'[v][p]
        BY <1>1 DEF AheadInv
    <2>1. CASE v = w /\ p \in S
        BY <1>3, <2>1 DEF TypeOK
    <2>2. CASE v = w /\ p \notin S
        BY <1>1, <1>3, <2>2 DEF AheadInv
    <2>3. CASE v # w
        BY <1>3, <2>3 DEF AheadInv
    <2> QED
        BY <2>1, <2>2, <2>3
<1>7. FencedInv'
    BY <1>1, <1>3 DEF FencedInv, Free
<1>8. InHandInv'
    BY <1>1, <1>3 DEF InHandInv
<1> QED
    BY <1>2, <1>4, <1>5, <1>6, <1>7, <1>8

-----------------------------------------------------------------------------
(* Commits.                                                                *)

\* What a worker that has no message in hand may commit.
LEMMA AdvancedIsSafe ==
    ASSUME IInv, NEW w \in Workers, phase[w] # "down", phase[w] # "handling", member[w]
    PROVE  /\ Advanced(w) \in [Partitions -> Nat]
           /\ \A p \in Partitions :
                /\ committed[p] <= Advanced(w)[p]
                /\ p \in assigned[w] => Advanced(w)[p] = position[w][p]
                /\ p \notin assigned[w] => Advanced(w)[p] = committed[p]
                /\ \A o \in 0 .. Advanced(w)[p] - 1 : <<p, o>> \in handled
<1> USE DEF IInv, Advanced
<1>1. Advanced(w) \in [Partitions -> Nat]
    BY DEF TypeOK
<1>2. ASSUME NEW p \in Partitions
      PROVE  committed[p] <= Advanced(w)[p]
    BY DEF AheadInv, TypeOK
<1>3. ASSUME NEW p \in Partitions, NEW o \in 0 .. Advanced(w)[p] - 1
      PROVE  <<p, o>> \in handled
    BY DEF PositionInv, CommittedWasHandled
<1> QED
    BY <1>1, <1>2, <1>3

\* A commit, whether or not it raised and whether or not the worker then
\* gives its partitions up or ends.
LEMMA CommittingStep ==
    ASSUME IInv, NEW w \in Workers, Revoked(w) \/ Close(w) \/ Commit(w)
    PROVE  IInv' /\ \A p \in Partitions : committed'[p] >= committed[p]
<1> USE DEF IInv
<1>1. /\ phase[w] # "down" /\ phase[w] # "handling"
      /\ committed' = committed \/ (member[w] /\ committed' = Advanced(w))
      /\ UNCHANGED <<log, running, current, recorded, handled>>
    BY DEF Revoked, Close, Commit, CommitCall, CommitOk, CommitRaises, marquez
<1>2. /\ committed' \in [Partitions -> Nat]
      /\ \A p \in Partitions : committed'[p] >= committed[p]
      /\ \A p \in Partitions : \A o \in 0 .. committed'[p] - 1 : <<p, o>> \in handled
    <2>1. CASE committed' = committed
        BY <2>1 DEF CommittedWasHandled, TypeOK
    <2>2. CASE member[w] /\ committed' = Advanced(w)
        BY <1>1, <2>2, AdvancedIsSafe DEF TypeOK
    <2> QED
        BY <1>1, <2>1, <2>2
<1>3. CommittedWasHandled'
    BY <1>1, <1>2 DEF CommittedWasHandled
<1>4. /\ \A v \in Workers : v # w => /\ assigned'[v] = assigned[v] /\ member'[v] = member[v]
                                     /\ position'[v] = position[v] /\ phase'[v] = phase[v]
      /\ phase'[w] # "handling"
      /\ \/ assigned'[w] = {}
         \/ /\ assigned'[w] = assigned[w] /\ member'[w] = member[w]
            /\ position'[w] = position[w]
    BY DEF Revoked, Close, Commit, TypeOK
<1>5. TypeOK'
    <2>1. /\ phase' \in [Workers -> Phases]
          /\ member' \in [Workers -> BOOLEAN]
          /\ assigned' \in [Workers -> SUBSET Partitions]
          /\ position' \in [Workers -> [Partitions -> Nat]]
        <3>1. CASE Revoked(w)
            BY <3>1 DEF Revoked, TypeOK, Nowhere
        <3>2. CASE Close(w)
            BY <3>2 DEF Close, TypeOK, Phases, Nowhere
        <3>3. CASE Commit(w)
            BY <3>3 DEF Commit, TypeOK, Phases
        <3> QED
            BY <3>1, <3>2, <3>3
    <2>2. since' \in [Workers -> Nat] /\ commitFailed' \in BOOLEAN
        <3>1. CASE CommitCall(w)
            <4>1. /\ since' = [since EXCEPT ![w] = 0] \/ since' = since
                  /\ commitFailed' = TRUE \/ commitFailed' = commitFailed
                BY <3>1 DEF CommitCall, CommitOk, CommitRaises
            <4>2. since \in [Workers -> Nat] /\ commitFailed \in BOOLEAN
                BY DEF TypeOK
            <4>3. since' \in [Workers -> Nat]
                BY <4>1, <4>2
            <4>4. commitFailed' \in BOOLEAN
                BY <4>1, <4>2
            <4> QED
                BY <4>3, <4>4
        <3>2. CASE Close(w)
            BY <3>2 DEF Close, TypeOK
        <3> QED
            BY <3>1, <3>2 DEF Revoked, Commit
    <2>3. faults' \in Nat
        BY DEF Revoked, Close, Commit, Fault, TypeOK
    <2> QED
        BY <1>1, <1>2, <2>1, <2>2, <2>3 DEF TypeOK
<1>6. PositionInv'
    BY <1>1, <1>4 DEF PositionInv
<1>7. AheadInv'
    <2> SUFFICES ASSUME NEW v \in Workers, NEW p \in Partitions,
                        phase'[v] # "down", member'[v], p \in assigned'[v]
                 PROVE  committed'[p] <= position'[v][p]
        BY DEF AheadInv
    <2>1. CASE v = w
        <3>1. p \in assigned[w] /\ member[w] /\ position'[w] = position[w]
            BY <1>4, <2>1
        <3>2. committed[p] <= position[w][p]
            BY <1>1, <3>1 DEF AheadInv
        <3>3. member[w] /\ committed' = Advanced(w) => committed'[p] = position[w][p]
            BY <1>1, <3>1, AdvancedIsSafe
        <3>4. position[w][p] \in Nat
            BY DEF TypeOK
        <3> QED
            BY <1>1, <2>1, <3>1, <3>2, <3>3, <3>4
    <2>2. CASE v # w
        <3>1. p \in assigned[v] /\ member[v] /\ position'[v] = position[v] /\ phase[v] # "down"
            BY <1>4, <2>2
        <3>2. committed[p] <= position[v][p]
            BY <3>1 DEF AheadInv
        <3>3. member[w] => p \notin assigned[w]
            BY <2>2, <3>1 DEF FencedInv
        <3>4. committed'[p] = committed[p]
            BY <1>1, <3>3, AdvancedIsSafe
        <3> QED
            BY <3>1, <3>2, <3>4
    <2> QED
        BY <2>1, <2>2
<1>8. FencedInv'
    BY <1>4 DEF FencedInv
<1>9. InHandInv'
    BY <1>1, <1>4 DEF InHandInv
<1> QED
    BY <1>2, <1>3, <1>5, <1>6, <1>7, <1>8, <1>9

-----------------------------------------------------------------------------
(* The loop.                                                               *)

LEMMA PollStep ==
    ASSUME IInv, NEW w \in Workers, NEW p \in Partitions, Poll(w, p)
    PROVE  IInv'
<1> USE DEF IInv
<1>1. /\ phase[w] = "polling" /\ p \in assigned[w]
      /\ position' = [position EXCEPT ![w][p] = position[w][p] + 1]
      /\ current' = [current EXCEPT ![w] = p]
      /\ phase' = [phase EXCEPT ![w] = "handling"]
      /\ UNCHANGED <<log, committed, member, assigned, running, since, recorded, handled, faults,
                     commitFailed>>
    BY DEF Poll, group, marquez
<1>2. /\ position \in [Workers -> [Partitions -> Nat]]
      /\ current \in [Workers -> Partitions \cup {NoPartition}]
      /\ phase \in [Workers -> Phases]
    BY DEF TypeOK
<1>3. /\ \A v \in Workers : \A q \in Partitions :
           position'[v][q] = IF v = w /\ q = p THEN position[w][p] + 1 ELSE position[v][q]
      /\ \A v \in Workers : /\ current'[v] = IF v = w THEN p ELSE current[v]
                            /\ phase'[v] = IF v = w THEN "handling" ELSE phase[v]
    BY <1>1, <1>2
<1>4. TypeOK'
    <2>1. /\ position' \in [Workers -> [Partitions -> Nat]]
          /\ current' \in [Workers -> Partitions \cup {NoPartition}]
          /\ phase' \in [Workers -> Phases]
        BY <1>1, <1>2 DEF Phases
    <2> QED
        BY <1>1, <2>1 DEF TypeOK
<1>5. CommittedWasHandled' /\ FencedInv'
    BY <1>1 DEF CommittedWasHandled, FencedInv
<1>6. PositionInv'
    <2> SUFFICES ASSUME NEW v \in Workers, NEW q \in Partitions,
                        phase'[v] # "down", q \in assigned[v],
                        NEW o \in 0 .. position'[v][q] - 1
                 PROVE  \/ <<q, o>> \in handled
                        \/ /\ phase'[v] = "handling" /\ current'[v] = q
                           /\ o = position'[v][q] - 1
        BY <1>1 DEF PositionInv
    <2>1. position[v][q] \in Nat
        BY <1>2
    <2>2. CASE v = w
        <3>1. \A i \in 0 .. position[w][q] - 1 : <<q, i>> \in handled
            BY <1>1, <2>2 DEF PositionInv
        <3> QED
            BY <1>3, <2>1, <2>2, <3>1
    <2>3. CASE v # w
        BY <1>3, <2>3 DEF PositionInv
    <2> QED
        BY <2>2, <2>3
<1>7. AheadInv'
    <2>1. \A v \in Workers : \A q \in Partitions :
            /\ position[v][q] \in Nat /\ committed[q] \in Nat
            /\ position'[v][q] >= position[v][q] /\ position'[v][q] \in Nat
        BY <1>2, <1>3 DEF TypeOK
    <2>2. \A v \in Workers : phase'[v] # "down" => phase[v] # "down"
        BY <1>1, <1>3
    <2> QED
        BY <1>1, <2>1, <2>2 DEF AheadInv
<1>8. InHandInv'
    BY <1>2, <1>3 DEF InHandInv
<1> QED
    BY <1>4, <1>5, <1>6, <1>7, <1>8

\* The message in hand has been dealt with.
LEMMA DealtWithStep ==
    ASSUME IInv, NEW w \in Workers, Emit(w) \/ Drop(w) \/ FailMessage(w)
    PROVE  IInv'
<1> USE DEF IInv
<1>1. /\ phase[w] = "handling"
      /\ handled' = handled \cup {InHand(w)}
      /\ recorded' = recorded \/ recorded' = recorded \cup {InHand(w)}
      /\ \/ phase' = [phase EXCEPT ![w] = "counting"] /\ current' = current
         \/ /\ phase' = [phase EXCEPT ![w] = "polling"]
            /\ current' = [current EXCEPT ![w] = NoPartition]
      /\ UNCHANGED <<log, committed, member, assigned, running, position, since, faults,
                     commitFailed>>
    BY DEF Emit, Drop, FailMessage, group
<1>2. /\ current[w] \in Partitions /\ position[w][current[w]] > 0
      /\ position[w][current[w]] \in Nat
    BY <1>1 DEF InHandInv, TypeOK
<1>3. InHand(w) \in Messages
    BY <1>2 DEF InHand, Messages
<1>4. TypeOK'
    <2>1. /\ phase' \in [Workers -> Phases]
          /\ current' \in [Workers -> Partitions \cup {NoPartition}]
        BY <1>1 DEF TypeOK, Phases
    <2>2. recorded' \subseteq handled' /\ handled' \subseteq Messages
        BY <1>1, <1>3 DEF TypeOK
    <2> QED
        BY <1>1, <2>1, <2>2 DEF TypeOK
<1>5. CommittedWasHandled' /\ FencedInv'
    BY <1>1 DEF CommittedWasHandled, FencedInv
<1>6. /\ \A v \in Workers : v # w => phase'[v] = phase[v] /\ current'[v] = current[v]
      /\ phase'[w] # "handling" /\ phase'[w] # "down" /\ phase[w] # "down"
    BY <1>1 DEF TypeOK
<1>7. PositionInv'
    <2> SUFFICES ASSUME NEW v \in Workers, NEW q \in Partitions,
                        phase'[v] # "down", q \in assigned[v],
                        NEW o \in 0 .. position[v][q] - 1
                 PROVE  \/ <<q, o>> \in handled'
                        \/ phase'[v] = "handling" /\ current'[v] = q /\ o = position[v][q] - 1
        BY <1>1 DEF PositionInv
    <2>1. \/ <<q, o>> \in handled
          \/ phase[v] = "handling" /\ current[v] = q /\ o = position[v][q] - 1
        BY <1>6 DEF PositionInv
    <2>2. CASE v = w
        BY <1>1, <2>1, <2>2 DEF InHand
    <2>3. CASE v # w
        BY <1>1, <1>6, <2>1, <2>3
    <2> QED
        BY <2>2, <2>3
<1>8. AheadInv' /\ InHandInv'
    BY <1>1, <1>6 DEF AheadInv, InHandInv
<1> QED
    BY <1>4, <1>5, <1>7, <1>8

LEMMA CountStep ==
    ASSUME IInv, NEW w \in Workers, Count(w)
    PROVE  IInv'
<1> USE DEF IInv
<1>1. /\ phase[w] = "counting"
      /\ since' = [since EXCEPT ![w] = since[w] + 1]
      /\ \/ phase' = [phase EXCEPT ![w] = "committing"]
         \/ phase' = [phase EXCEPT ![w] = "polling"]
      /\ current' = [current EXCEPT ![w] = NoPartition]
      /\ UNCHANGED <<log, committed, member, assigned, running, position, recorded, handled, faults,
                     commitFailed>>
    BY DEF Count, group, marquez
<1>2. TypeOK'
    <2>1. since' \in [Workers -> Nat]
        <3>1. since \in [Workers -> Nat] /\ since[w] + 1 \in Nat
            BY DEF TypeOK
        <3> QED
            BY <1>1, <3>1
    <2>2. /\ phase' \in [Workers -> Phases]
          /\ current' \in [Workers -> Partitions \cup {NoPartition}]
        BY <1>1 DEF TypeOK, Phases
    <2> QED
        BY <1>1, <2>1, <2>2 DEF TypeOK
<1>3. /\ \A v \in Workers : v # w => phase'[v] = phase[v] /\ current'[v] = current[v]
      /\ phase'[w] # "handling" /\ phase[w] # "handling" /\ phase[w] # "down"
    BY <1>1 DEF TypeOK
<1>4. CommittedWasHandled' /\ FencedInv' /\ PositionInv' /\ AheadInv' /\ InHandInv'
    BY <1>1, <1>3 DEF CommittedWasHandled, FencedInv, PositionInv, AheadInv, InHandInv
<1> QED
    BY <1>2, <1>4

LEMMA IInvStep == IInv /\ [Next]_vars => IInv'
<1> SUFFICES ASSUME IInv, [Next]_vars PROVE IInv'
    OBVIOUS
<1>1. CASE UNCHANGED vars
    <2> USE <1>1 DEF vars, group, worker, marquez, IInv
    <2>1. TypeOK' /\ CommittedWasHandled' /\ FencedInv' /\ InHandInv'
        BY DEF TypeOK, CommittedWasHandled, FencedInv, InHandInv
    <2>2. PositionInv' /\ AheadInv'
        BY DEF PositionInv, AheadInv
    <2> QED
        BY <2>1, <2>2
<1>2. CASE Next
    BY <1>2, LifeStep, AssignStep, CommittingStep, PollStep, DealtWithStep, CountStep
       DEF Next, Loop
<1> QED
    BY <1>1, <1>2

LEMMA IInvHolds == Spec => []IInv
BY IInvInit, IInvStep, PTL DEF Spec

-----------------------------------------------------------------------------
\* Types of the group's, the workers' and Marquez's state.
THEOREM TypeCorrect == Spec => []TypeOK
<1>1. IInv => TypeOK
    BY DEF IInv
<1> QED
    BY <1>1, IInvHolds, PTL

\* The group's offset never passes a message no worker has dealt with.
THEOREM CommittedHandled == Spec => []CommittedWasHandled
<1>1. IInv => CommittedWasHandled
    BY DEF IInv
<1> QED
    BY <1>1, IInvHolds, PTL

\* No worker, evicted or restarted, drags the group's offset back.
THEOREM NeverRegresses == Spec => CommittedNeverRegresses
<1>1. ASSUME IInv, [Next]_vars
      PROVE  [\A p \in Partitions : committed'[p] >= committed[p]]_vars
    <2>1. CASE UNCHANGED vars
        BY <2>1
    <2>2. CASE committed' = committed
        BY <2>2, <1>1 DEF IInv, TypeOK
    <2>3. ASSUME NEW w \in Workers, Revoked(w) \/ Close(w) \/ Commit(w)
          PROVE  \A p \in Partitions : committed'[p] >= committed[p]
        BY <1>1, <2>3, CommittingStep
    <2>4. CASE Next
        BY <1>1, <2>2, <2>3, <2>4
           DEF Next, Loop, Start, Signal, Crash, Expire, Evict, Assign, Emit, Drop, FailMessage,
               Count, Poll, group
    <2> QED
        BY <1>1, <2>1, <2>4
<1> QED
    BY <1>1, IInvHolds, PTL DEF Spec, CommittedNeverRegresses

-----------------------------------------------------------------------------
(* While Marquez answers, the events that were dealt with are recorded.    *)

RecordedInv ==
    ~MarquezMayFail =>
        \A m \in handled : log[m[1]][m[2] + 1] = "event" => m \in recorded

LEMMA RecordedStep == IInv /\ RecordedInv /\ [Next]_vars => RecordedInv'
<1> SUFFICES ASSUME IInv, RecordedInv, [Next]_vars, ~MarquezMayFail
             PROVE  \A m \in handled' : log'[m[1]][m[2] + 1] = "event" => m \in recorded'
    BY DEF RecordedInv
<1>1. CASE UNCHANGED <<log, recorded, handled>>
    BY <1>1 DEF RecordedInv
<1>2. ASSUME NEW w \in Workers, Emit(w) \/ Drop(w) \/ FailMessage(w)
      PROVE  \A m \in handled' : log'[m[1]][m[2] + 1] = "event" => m \in recorded'
    <2>1. /\ handled' = handled \cup {InHand(w)} /\ UNCHANGED log
          /\ phase[w] = "handling"
          /\ \/ recorded' = recorded \cup {InHand(w)}
             \/ KindOf(w) # "event" /\ recorded' = recorded
        BY <1>2 DEF Emit, Drop, FailMessage, RecordedInv
    <2>2. InHand(w)[1] = current[w] /\ InHand(w)[2] + 1 = position[w][current[w]]
        BY <2>1 DEF InHand, IInv, TypeOK, InHandInv
    <2>3. log[InHand(w)[1]][InHand(w)[2] + 1] = KindOf(w)
        BY <2>2 DEF KindOf
    <2> HIDE DEF InHand
    <2> QED
        BY <2>1, <2>3 DEF RecordedInv
<1>3. CASE Next
    BY <1>1, <1>2, <1>3
       DEF Next, Loop, Start, Signal, Crash, Expire, Evict, Revoked, Assign, Poll, Count, Commit,
           Close, marquez
<1>4. CASE UNCHANGED vars
    BY <1>1, <1>4 DEF vars, marquez
<1> QED
    BY <1>3, <1>4

\* While Marquez answers, an event whose offset is committed has reached it.
THEOREM Recorded == Spec => []RecordedWhileMarquezAnswers
<1>1. Init => RecordedInv
    BY DEF Init, RecordedInv
<1>2. IInv /\ RecordedInv => RecordedWhileMarquezAnswers
    BY DEF IInv, CommittedWasHandled, RecordedInv, RecordedWhileMarquezAnswers, CommittedWasRecorded
<1> QED
    BY <1>1, <1>2, RecordedStep, IInvHolds, PTL DEF Spec

-----------------------------------------------------------------------------
(* What a worker may have to do again.                                     *)

\* Is a message in hand that since does not count yet?
Pending(w) ==
    IF phase[w] = "counting" \/ (phase[w] = "handling" /\ KindOf(w) # "poison") THEN 1 ELSE 0

AtMost(S, n) == IsFiniteSet(S) /\ Cardinality(S) <= n

\* It is what it counted since its last commit, and what it has in hand.
RedoInv ==
    ~commitFailed => \A w \in Workers :
        /\ AtMost(ToRedo(w), since[w] + Pending(w))
        /\ since[w] + (IF phase[w] = "committing" THEN 0 ELSE 1) <= CommitInterval

LEMMA AtMostSubset ==
    ASSUME NEW S, NEW T \in SUBSET S, NEW m \in Nat, NEW n \in Nat, m <= n, AtMost(S, m)
    PROVE  AtMost(T, n)
<1>1. IsFiniteSet(T) /\ Cardinality(T) <= Cardinality(S)
    BY FS_Subset DEF AtMost
<1>2. Cardinality(T) \in Nat /\ Cardinality(S) \in Nat /\ Cardinality(S) <= m
    BY <1>1, FS_CardinalityType DEF AtMost
<1> QED
    BY <1>1, <1>2 DEF AtMost

LEMMA AtMostOneMore ==
    ASSUME NEW S, NEW x, NEW n \in Nat, AtMost(S, n)
    PROVE  AtMost(S \cup {x}, n + 1)
<1>1. /\ IsFiniteSet(S \cup {x})
      /\ Cardinality(S \cup {x}) = IF x \in S THEN Cardinality(S) ELSE Cardinality(S) + 1
    BY FS_AddElement DEF AtMost
<1>2. Cardinality(S) \in Nat /\ Cardinality(S) <= n
    BY FS_CardinalityType DEF AtMost
<1> QED
    BY <1>1, <1>2 DEF AtMost

LEMMA AtMostNone ==
    ASSUME NEW n \in Nat
    PROVE  AtMost({}, n)
BY FS_EmptySet DEF AtMost

LEMMA OffsetsNat == TypeOK => Offsets \subseteq Nat
BY DEF Offsets, TypeOK

\* A step that moves no position forward leaves no more to do again,
LEMMA RedoShrinks ==
    ASSUME IInv, IInv', NEW v \in Workers, UNCHANGED log,
           \A p \in Partitions : committed'[p] >= committed[p],
           \A p \in assigned'[v] : \/ p \in assigned[v] /\ position'[v][p] <= position[v][p]
                                  \/ position'[v][p] <= committed'[p]
    PROVE  ToRedo(v)' \subseteq ToRedo(v)
<1> SUFFICES ASSUME NEW p \in assigned'[v], NEW o \in Offsets,
                    committed'[p] <= o, o < position'[v][p], log[p][o + 1] # "poison"
             PROVE  p \in assigned[v] /\ committed[p] <= o /\ o < position[v][p]
    BY DEF ToRedo, Offsets
<1>1. /\ p \in Partitions /\ o \in Nat
      /\ committed[p] \in Nat /\ committed'[p] \in Nat
      /\ position[v][p] \in Nat /\ position'[v][p] \in Nat
    BY OffsetsNat DEF IInv, TypeOK
<1> QED
    BY <1>1

\* and one that puts them where the commits are leaves nothing.
LEMMA RedoNothing ==
    ASSUME IInv', NEW v \in Workers, UNCHANGED log,
           \A p \in assigned'[v] : position'[v][p] <= committed'[p]
    PROVE  ToRedo(v)' = {}
<1> SUFFICES ASSUME NEW p \in assigned'[v], NEW o \in Offsets',
                    committed'[p] <= o, o < position'[v][p]
             PROVE  FALSE
    BY DEF ToRedo
<1>1. /\ p \in Partitions /\ o \in Nat
      /\ committed'[p] \in Nat /\ position'[v][p] \in Nat
    <2>1. Offsets' \subseteq Nat
        BY DEF Offsets, IInv, TypeOK
    <2> QED
        BY <2>1 DEF IInv, TypeOK
<1> QED
    BY <1>1

\* What RedoInv says of one worker.
RedoOf(w) ==
    /\ AtMost(ToRedo(w), since[w] + Pending(w))
    /\ since[w] + (IF phase[w] = "committing" THEN 0 ELSE 1) <= CommitInterval

\* A worker whose count and phase stay.
LEMMA RedoKept ==
    ASSUME IInv, IInv', NEW v \in Workers, RedoOf(v), ToRedo(v)' \subseteq ToRedo(v),
           since'[v] = since[v], Pending(v)' = Pending(v),
           phase'[v] = "committing" <=> phase[v] = "committing"
    PROVE  RedoOf(v)'
<1>1. since[v] + Pending(v) \in Nat
    BY DEF Pending, IInv, TypeOK
<1>2. AtMost(ToRedo(v)', since[v] + Pending(v))
    BY <1>1, AtMostSubset DEF RedoOf
<1> QED
    BY <1>2 DEF RedoOf, AtMost

\* A worker that starts to count again, with nothing to do again.
LEMMA RedoAnew ==
    ASSUME IInv', NEW v \in Workers, ToRedo(v)' = {}, since'[v] = 0
    PROVE  RedoOf(v)'
<1>1. since'[v] + Pending(v)' \in Nat
    BY DEF Pending
<1>2. AtMost({}, since'[v] + Pending(v)')
    BY <1>1, AtMostNone
<1> QED
    BY <1>2, LineageAssumption DEF RedoOf, AtMost

\* What a step of one worker leaves of the others.
LEMMA OthersKept ==
    ASSUME IInv, IInv', NEW v \in Workers, RedoOf(v), UNCHANGED log,
           \A p \in Partitions : committed'[p] >= committed[p],
           phase'[v] = phase[v], current'[v] = current[v], position'[v] = position[v],
           since'[v] = since[v], assigned'[v] = assigned[v]
    PROVE  RedoOf(v)'
<1>1. Pending(v)' = Pending(v)
    BY DEF Pending, KindOf
<1>2. ToRedo(v)' \subseteq ToRedo(v)
    <2>1. \A p \in assigned'[v] : p \in assigned[v] /\ position'[v][p] <= position[v][p]
        BY DEF IInv, TypeOK
    <2> QED
        BY <2>1, RedoShrinks
<1> QED
    BY <1>1, <1>2, RedoKept

LEMMA LifeRedo ==
    ASSUME IInv, IInv', NEW w \in Workers, RedoOf(w),
           \/ Start(w) \/ Signal(w) \/ Crash(w) \/ Expire(w) \/ Evict(w)
           \/ \E S \in SUBSET Partitions : Assign(w, S)
    PROVE  RedoOf(w)'
<1>1. UNCHANGED <<log, committed>>
    BY DEF Start, Signal, Crash, Expire, Evict, Assign, group
<1>2. \A p \in Partitions : committed'[p] >= committed[p]
    BY <1>1 DEF IInv, TypeOK
<1>3. CASE Crash(w)
    <2>1. since'[w] = 0 /\ position'[w] = Nowhere
        BY <1>3 DEF Crash, IInv, TypeOK
    <2>2. ToRedo(w)' = {}
        <3>1. \A p \in assigned'[w] : position'[w][p] <= committed'[p]
            BY <1>1, <2>1 DEF Nowhere, IInv, TypeOK
        <3> QED
            BY <1>1, <3>1, RedoNothing
    <2> QED
        BY <2>1, <2>2, RedoAnew
<1>4. CASE Start(w) \/ Expire(w)
    <2>1. /\ since'[w] = since[w] /\ assigned'[w] = {}
          /\ phase[w] = "down" /\ phase'[w] \in {"down", "polling"}
        BY <1>4 DEF Start, Expire, worker, IInv, TypeOK
    <2>2. ToRedo(w)' \subseteq ToRedo(w)
        BY <1>1, <1>2, <2>1, RedoShrinks
    <2>3. Pending(w)' = Pending(w)
        BY <2>1 DEF Pending
    <2> QED
        BY <2>1, <2>2, <2>3, RedoKept
<1>5. CASE Signal(w) \/ Evict(w)
    <2>1. UNCHANGED <<log, committed, assigned, phase, position, current, since>>
        BY <1>5 DEF Signal, Evict, group, worker
    <2> QED
        BY <1>2, <2>1, OthersKept
<1>6. ASSUME NEW S \in SUBSET Partitions, Assign(w, S)
      PROVE  RedoOf(w)'
    <2>1. /\ phase[w] = "polling" /\ UNCHANGED <<log, committed, phase, since>>
          /\ assigned'[w] = assigned[w] \cup S
          /\ position'[w] = [p \in Partitions |-> IF p \in S THEN committed[p] ELSE position[w][p]]
        BY <1>6 DEF Assign, StartAt, IInv, TypeOK
    <2>2. ToRedo(w)' \subseteq ToRedo(w)
        <3>1. \A p \in assigned'[w] : \/ p \in assigned[w] /\ position'[w][p] <= position[w][p]
                                      \/ position'[w][p] <= committed'[p]
            BY <2>1 DEF IInv, TypeOK
        <3> QED
            BY <1>1, <1>2, <3>1, RedoShrinks
    <2>3. Pending(w)' = Pending(w)
        BY <2>1 DEF Pending
    <2> QED
        BY <2>1, <2>2, <2>3, RedoKept
<1> QED
    BY <1>3, <1>4, <1>5, <1>6

LEMMA CommittingRedo ==
    ASSUME IInv, IInv', NEW w \in Workers, Revoked(w) \/ Close(w) \/ Commit(w), ~commitFailed'
    PROVE  RedoOf(w)'
<1>1. UNCHANGED log /\ phase[w] # "down" /\ phase[w] # "handling"
    BY DEF Revoked, Close, Commit
<1>2. since'[w] = 0
    BY DEF Revoked, Close, Commit, CommitCall, CommitOk, CommitRaises, IInv, TypeOK
<1>3. \A p \in assigned'[w] : position'[w][p] <= committed'[p]
    <2>1. CASE Revoked(w) \/ Close(w)
        BY <2>1 DEF Revoked, Close, IInv, TypeOK
    <2>2. CASE Commit(w)
        <3>1. member[w] /\ committed' = Advanced(w) /\ UNCHANGED <<assigned, position>>
            BY <2>2 DEF Commit, CommitCall, CommitOk, CommitRaises
        <3>2. \A p \in assigned[w] : p \in Partitions /\ position[w][p] \in Nat
            BY DEF IInv, TypeOK
        <3> QED
            BY <1>1, <3>1, <3>2, AdvancedIsSafe
    <2> QED
        BY <2>1, <2>2
<1> QED
    BY <1>1, <1>2, <1>3, RedoNothing, RedoAnew

LEMMA PollRedo ==
    ASSUME IInv, IInv', NEW w \in Workers, NEW p \in Partitions, Poll(w, p), RedoOf(w)
    PROVE  RedoOf(w)'
<1>1. /\ UNCHANGED <<log, committed, assigned, since>>
      /\ phase[w] = "polling" /\ phase'[w] = "handling" /\ current'[w] = p /\ p \in assigned[w]
      /\ position'[w] = [position[w] EXCEPT ![p] = @ + 1]
    BY DEF Poll, group, IInv, TypeOK
<1>2. position[w] \in [Partitions -> Nat] /\ since[w] \in Nat
    BY DEF IInv, TypeOK
<1>3. position'[w][p] = position[w][p] + 1 /\ \A q \in Partitions : q # p => position'[w][q] = position[w][q]
    BY <1>1, <1>2
<1>4. Pending(w) = 0 /\ Pending(w)' = IF log[p][position[w][p] + 1] # "poison" THEN 1 ELSE 0
    BY <1>1, <1>3 DEF Pending, KindOf
<1> DEFINE next == <<p, position[w][p]>>
<1>5. ASSUME NEW q \in assigned[w], NEW o \in Offsets, committed[q] <= o, o < position'[w][q],
             log[q][o + 1] # "poison"
      PROVE  <<q, o>> \in ToRedo(w) \/ (<<q, o>> = next /\ log[p][position[w][p] + 1] # "poison")
    <2>1. o \in Nat /\ q \in Partitions /\ position[w][p] \in Nat
        BY <1>2, OffsetsNat DEF IInv, TypeOK
    <2>2. CASE q = p /\ o = position[w][p]
        BY <1>5, <2>2
    <2>3. CASE ~(q = p /\ o = position[w][p])
        <3>1. o < position[w][q]
            BY <1>3, <1>5, <2>1, <2>3
        <3> QED
            BY <1>5, <3>1 DEF ToRedo
    <2> QED
        BY <2>2, <2>3
<1>6. \A m \in ToRedo(w)' : m \in ToRedo(w) \/ (m = next /\ log[p][position[w][p] + 1] # "poison")
    BY <1>1, <1>5 DEF ToRedo, Offsets
<1>7. AtMost(ToRedo(w), since[w])
    BY <1>2, <1>4 DEF RedoOf
<1>8. AtMost(ToRedo(w)', since[w] + Pending(w)')
    <2>1. CASE log[p][position[w][p] + 1] = "poison"
        <3>1. ToRedo(w)' \subseteq ToRedo(w)
            BY <1>6, <2>1
        <3> QED
            BY <1>2, <1>4, <1>7, <2>1, <3>1, AtMostSubset
    <2>2. CASE log[p][position[w][p] + 1] # "poison"
        <3>1. AtMost(ToRedo(w) \cup {next}, since[w] + 1)
            BY <1>2, <1>7, AtMostOneMore
        <3>2. ToRedo(w)' \subseteq ToRedo(w) \cup {next}
            BY <1>6
        <3>3. since[w] + 1 \in Nat
            BY <1>2
        <3>4. AtMost(ToRedo(w)', since[w] + 1)
            BY <3>1, <3>2, <3>3, AtMostSubset
        <3> QED
            BY <1>4, <2>2, <3>4
    <2> QED
        BY <2>1, <2>2
<1> QED
    BY <1>1, <1>8 DEF RedoOf, AtMost

LEMMA HandledRedo ==
    ASSUME IInv, IInv', NEW w \in Workers, RedoOf(w),
           Emit(w) \/ Drop(w) \/ FailMessage(w) \/ Count(w)
    PROVE  RedoOf(w)'
<1>1. UNCHANGED <<log, committed, assigned, position>>
    BY DEF Emit, Drop, FailMessage, Count, group
<1>2. ToRedo(w)' = ToRedo(w)
    BY <1>1 DEF ToRedo, Offsets
<1>3. CASE Emit(w) \/ Drop(w)
    <2>1. /\ phase[w] = "handling" /\ KindOf(w) # "poison" /\ phase'[w] = "counting"
          /\ since' = since
        BY <1>3 DEF Emit, Drop, IInv, TypeOK
    <2>2. Pending(w)' = Pending(w)
        BY <2>1 DEF Pending
    <2> QED
        BY <1>2, <2>1, <2>2, RedoKept
<1>4. CASE FailMessage(w)
    <2>1. /\ phase[w] = "handling" /\ KindOf(w) = "poison" /\ phase'[w] = "polling"
          /\ since' = since
        BY <1>4 DEF FailMessage, IInv, TypeOK
    <2>2. Pending(w)' = Pending(w)
        BY <2>1 DEF Pending
    <2> QED
        BY <1>2, <2>1, <2>2, RedoKept
<1>5. CASE Count(w)
    <2>1. /\ phase[w] = "counting" /\ since[w] \in Nat /\ since'[w] = since[w] + 1
          /\ phase'[w] = IF since[w] + 1 >= CommitInterval THEN "committing" ELSE "polling"
        BY <1>5 DEF Count, CommitDue, IInv, TypeOK
    <2>2. Pending(w) = 1 /\ Pending(w)' = 0
        BY <2>1 DEF Pending
    <2>3. AtMost(ToRedo(w)', since'[w] + Pending(w)')
        BY <1>2, <2>1, <2>2 DEF RedoOf
    <2>4. since'[w] + (IF phase'[w] = "committing" THEN 0 ELSE 1) <= CommitInterval
        BY <2>1, LineageAssumption DEF RedoOf
    <2> QED
        BY <2>3, <2>4 DEF RedoOf, AtMost
<1> QED
    BY <1>3, <1>4, <1>5

LEMMA RedoStep == IInv /\ IInv' /\ RedoInv /\ [Next]_vars => RedoInv'
<1> SUFFICES ASSUME IInv, IInv', RedoInv, [Next]_vars, ~commitFailed', NEW v \in Workers
             PROVE  RedoOf(v)'
    BY DEF RedoInv, RedoOf, AtMost
<1>1. CASE UNCHANGED vars
    <2>1. UNCHANGED <<log, committed, commitFailed, phase, current, position, since, assigned>>
        BY <1>1 DEF vars, group, worker
    <2>2. RedoOf(v) /\ \A p \in Partitions : committed'[p] >= committed[p]
        BY <2>1 DEF RedoInv, RedoOf, IInv, TypeOK
    <2> QED
        BY <2>1, <2>2, OthersKept
<1>2. ASSUME NEW w \in Workers,
             \/ Start(w) \/ Signal(w) \/ Crash(w) \/ Expire(w) \/ Evict(w) \/ Revoked(w) \/ Loop(w)
             \/ \E S \in SUBSET Partitions : Assign(w, S)
      PROVE  RedoOf(v)'
    <2>1. UNCHANGED log /\ (commitFailed' = commitFailed \/ commitFailed' = TRUE)
        BY <1>2 DEF Start, Signal, Crash, Expire, Evict, Revoked, Assign, Loop, Poll, Emit, Drop,
                    FailMessage, Count, Commit, Close, CommitCall, CommitOk, CommitRaises
    <2>2. RedoOf(v)
        BY <2>1 DEF RedoInv, RedoOf
    <2>3. CASE v = w
        BY <1>2, <2>2, <2>3, LifeRedo, CommittingRedo, PollRedo, HandledRedo DEF Loop
    <2>4. CASE v # w
        <3>1. UNCHANGED <<phase[v], current[v], position[v], since[v], assigned[v]>>
            <4>1. CASE Revoked(w) \/ Close(w) \/ Commit(w)
                BY <2>4, <4>1 DEF Revoked, Close, Commit, CommitCall, CommitOk, CommitRaises, IInv, TypeOK
            <4>2. CASE Start(w) \/ Signal(w) \/ Crash(w) \/ Expire(w) \/ Evict(w)
                BY <2>4, <4>2 DEF Start, Signal, Crash, Expire, Evict, group, worker, IInv, TypeOK
            <4>3. ASSUME NEW S \in SUBSET Partitions, Assign(w, S)
                  PROVE  UNCHANGED <<phase[v], current[v], position[v], since[v], assigned[v]>>
                BY <2>4, <4>3 DEF Assign, IInv, TypeOK
            <4>4. ASSUME NEW p \in Partitions, Poll(w, p)
                  PROVE  UNCHANGED <<phase[v], current[v], position[v], since[v], assigned[v]>>
                BY <2>4, <4>4 DEF Poll, group, IInv, TypeOK
            <4>5. CASE Emit(w) \/ Drop(w) \/ FailMessage(w) \/ Count(w)
                BY <2>4, <4>5 DEF Emit, Drop, FailMessage, Count, group, IInv, TypeOK
            <4> QED
                BY <1>2, <4>1, <4>2, <4>3, <4>4, <4>5 DEF Loop
        <3>2. \A p \in Partitions : committed'[p] >= committed[p]
            <4>1. CASE Revoked(w) \/ Close(w) \/ Commit(w)
                BY <4>1, CommittingStep
            <4>2. CASE UNCHANGED committed
                BY <4>2 DEF IInv, TypeOK
            <4> QED
                BY <1>2, <4>1, <4>2
                   DEF Start, Signal, Crash, Expire, Evict, Assign, Loop, Poll, Emit, Drop,
                       FailMessage, Count, group
        <3> QED
            BY <2>1, <2>2, <3>1, <3>2, OthersKept
    <2> QED
        BY <2>3, <2>4
<1> QED
    BY <1>1, <1>2 DEF Next

\* While no commit has failed, a crash makes at most CommitInterval of a
\* worker's messages be emitted again, however its partitions moved.
THEOREM RedoIsBounded == Spec => []RedoBounded
<1>1. Init => RedoInv
    <2> SUFFICES ASSUME Init, NEW w \in Workers
                 PROVE  /\ AtMost(ToRedo(w), since[w] + Pending(w))
                        /\ since[w] + (IF phase[w] = "committing" THEN 0 ELSE 1) <= CommitInterval
        BY DEF RedoInv
    <2>1. ToRedo(w) = {} /\ since[w] = 0 /\ Pending(w) = 0
        BY DEF Init, ToRedo, Pending
    <2> QED
        BY <2>1, AtMostNone, LineageAssumption
<1>2. IInv /\ RedoInv => RedoBounded
    <2> SUFFICES ASSUME IInv, NEW w \in Workers, ~commitFailed, RedoInv
                 PROVE  Cardinality(ToRedo(w)) <= CommitInterval
        BY DEF RedoBounded
    <2>1. /\ IsFiniteSet(ToRedo(w)) /\ Cardinality(ToRedo(w)) <= since[w] + Pending(w)
          /\ since[w] + (IF phase[w] = "committing" THEN 0 ELSE 1) <= CommitInterval
        BY DEF RedoInv, AtMost
    <2>2. since[w] + Pending(w) <= CommitInterval
        BY <2>1, LineageAssumption DEF Pending, IInv, TypeOK
    <2> QED
        BY <2>1, <2>2, FS_CardinalityType, LineageAssumption DEF Pending, IInv, TypeOK
<1> QED
    BY <1>1, <1>2, RedoStep, IInvHolds, PTL DEF Spec
=============================================================================
