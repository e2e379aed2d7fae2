------------------------ MODULE ContractStore_proofs ------------------------
(***************************************************************************)
(* What ActivateVersion guarantees for any number of contracts, versions   *)
(* and sessions: no gap without an ACTIVE version, supersession of what a  *)
(* transaction saw, and exclusivity of an activation nobody raced.         *)
(***************************************************************************)
EXTENDS ContractStore, FiniteSetTheorems, WellFoundedInduction, TLAPS

\* A session between calls has no snapshot and no uncommitted row.
IdleInv == \A s \in Sessions : ~Open(s) =>
    todo[s] = {} /\ saw[s] = {} /\ \A v \in Versions : writes[s][v] = Unwritten

\* Only the holder of a row's lock has an uncommitted value of it.
LockInv == \A s \in Sessions, v \in Versions : writes[s][v] # Unwritten => holder[v] = s

\* The first UPDATE writes rows it saw, the second its target.
WriteInv == \A s \in Sessions, v \in Versions :
    /\ writes[s][v] = "DEPRECATED" => v \in saw[s]
    /\ writes[s][v] = "ACTIVE" => v = target[s] /\ pc[s] = "commit"

\* A row the first UPDATE has visited stays locked, and is deprecated by
\* this transaction or was no longer ACTIVE when it was locked.
SawInv == \A s \in Sessions :
    /\ todo[s] \subseteq saw[s]
    /\ target[s] \notin saw[s]
    /\ \A w \in saw[s] :
         /\ ContractOf[w] = contract[s]
         /\ status[w] # Absent
         /\ w \notin todo[s] => /\ holder[w] = s
                                /\ writes[s][w] = "DEPRECATED" \/ status[w] # "ACTIVE"

\* Both UPDATEs have run when a transaction commits.
CommitInv == \A s \in Sessions : pc[s] = "commit" =>
    /\ todo[s] = {}
    /\ StrictCallers => writes[s][target[s]] = "ACTIVE"

\* What StrictCallers makes of the arguments of a call.
CallInv == \A s \in Sessions : Open(s) /\ StrictCallers =>
    ContractOf[target[s]] = contract[s] /\ status[target[s]] # Absent

\* A call nobody raced saw every ACTIVE row of its contract.
SoloInv == \A s \in Sessions : Open(s) /\ s \notin overlapped =>
    /\ \A t \in Sessions : Open(t) /\ contract[t] = contract[s] => t = s
    /\ \A v \in ActiveOf(contract[s]) : v \in saw[s] \cup {target[s]}

IInv == TypeOK /\ IdleInv /\ LockInv /\ WriteInv /\ SawInv /\ CommitInv /\ CallInv

-----------------------------------------------------------------------------
(***************************************************************************)
(* TypeOK is inductive by itself.                                          *)
(***************************************************************************)
LEMMA TypeStep == TypeOK /\ [Next]_vars => TypeOK'
<1> SUFFICES ASSUME TypeOK, [Next]_vars PROVE TypeOK'
    OBVIOUS
<1> USE StoreAssumption DEF TypeOK, Statuses, Absent, Unwritten, Open
<1>1. ASSUME NEW v \in Versions, NEW st \in CreateStatuses, CreateVersion(v, st)
      PROVE TypeOK'
    BY <1>1 DEF CreateVersion, session
<1>2. ASSUME NEW s \in Sessions, NEW c \in Contracts, NEW v \in Versions, Begin(s, c, v)
      PROVE TypeOK'
    BY <1>2 DEF Begin, Matching, ActiveOf
<1>3. ASSUME NEW s \in Sessions, NEW w \in Versions, DeprecateRow(s, w)
      PROVE TypeOK'
    BY <1>3 DEF DeprecateRow, history
<1>4. ASSUME NEW s \in Sessions, NEW w \in Versions, WaitForRow(s, w)
      PROVE TypeOK'
    BY <1>4 DEF WaitForRow, history
<1>5. ASSUME NEW s \in Sessions, ActivateRow(s)
      PROVE TypeOK'
    <2>1. target[s] \in Versions
        BY <1>5 DEF ActivateRow, Activating
    <2>2. CASE status[target[s]] = Absent
        BY <1>5, <2>2 DEF ActivateRow, Activating, history
    <2>3. CASE status[target[s]] # Absent
        <3>1. /\ writes' = [writes EXCEPT ![s] = [writes[s] EXCEPT ![target[s]] = "ACTIVE"]]
              /\ wait' = [wait EXCEPT ![s] = NoVersion]
              /\ holder' = [holder EXCEPT ![target[s]] = s]
              /\ pc' = [pc EXCEPT ![s] = "commit"]
              /\ pc[s] = "deprecate"
              /\ UNCHANGED <<status, contract, target, todo, saw, overlapped, everActive>>
            BY <1>5, <2>3 DEF ActivateRow, Activating, history
        <3>2. [writes[s] EXCEPT ![target[s]] = "ACTIVE"]
                \in [Versions -> {Unwritten, "ACTIVE", "DEPRECATED"}]
            BY <2>1
        <3>3. writes' \in [Sessions -> [Versions -> {Unwritten, "ACTIVE", "DEPRECATED"}]]
            BY <3>1, <3>2
        <3>4. \A t \in Sessions : Open(t)' => target'[t] \in Versions
            BY <2>1, <3>1
        <3> QED
            BY <2>1, <3>1, <3>3, <3>4
    <2> QED
        BY <2>2, <2>3
<1>6. ASSUME NEW s \in Sessions, Commit(s)
      PROVE TypeOK'
    BY <1>6 DEF Commit, Release
<1>7. ASSUME NEW s \in Sessions, Rollback(s)
      PROVE TypeOK'
    BY <1>7 DEF Rollback, Release
<1>8. CASE UNCHANGED vars
    BY <1>8 DEF vars, session, history
<1>9. ASSUME NEW s \in Sessions, ActivateWait(s)
      PROVE TypeOK'
    <2>1. target[s] \in Versions /\ WaitForRow(s, target[s])
        BY <1>9 DEF ActivateWait, Activating
    <2> QED
        BY <2>1, <1>4
<1>10. ASSUME NEW s \in Sessions, Step(s)
       PROVE TypeOK'
    BY <1>3, <1>4, <1>5, <1>6, <1>9, <1>10 DEF Step, DeprecateWait
<1> HIDE DEF TypeOK
<1> QED
    BY <1>1, <1>2, <1>7, <1>8, <1>10 DEF Next, DeadlockVictim

(***************************************************************************)
(* Every reachable state has the types TypeOK gives the table, the locks   *)
(* and the sessions of ActivateVersion.                                    *)
(***************************************************************************)
THEOREM TypeCorrect == Spec => []TypeOK
<1>1. Init => TypeOK
    BY StoreAssumption DEF Init, TypeOK, Absent, Unwritten, Open
<1> QED
    BY <1>1, TypeStep, PTL DEF Spec

-----------------------------------------------------------------------------
LEMMA CreateVersionStep ==
    ASSUME IInv, TypeOK', NEW v \in Versions, NEW st \in CreateStatuses, CreateVersion(v, st)
    PROVE  IInv'
<1> USE StoreAssumption DEF IInv, TypeOK, Statuses, Absent, Unwritten, Open
<1>1. IdleInv'
    BY DEF IdleInv, CreateVersion, session
<1>2. LockInv'
    BY DEF LockInv, IdleInv, CreateVersion, session
<1>3. WriteInv'
    BY DEF WriteInv, IdleInv, SawInv, CreateVersion, session
<1>4. SawInv'
    BY DEF SawInv, LockInv, WriteInv, IdleInv, CreateVersion, session
<1>5. CommitInv'
    BY DEF CommitInv, CallInv, WriteInv, CreateVersion, session
<1>6. CallInv'
    BY DEF CallInv, SawInv, CommitInv, CreateVersion, session
<1> QED
    BY <1>1, <1>2, <1>3, <1>4, <1>5, <1>6

LEMMA BeginStep ==
    ASSUME IInv, TypeOK', NEW s \in Sessions, NEW c \in Contracts, NEW v \in Versions, Begin(s, c, v)
    PROVE  IInv'
<1> USE StoreAssumption DEF IInv, TypeOK, Statuses, Absent, Unwritten, Open
<1>1. IdleInv'
    BY DEF IdleInv, Begin, Matching, ActiveOf
<1>2. LockInv'
    BY DEF LockInv, IdleInv, Begin, Matching, ActiveOf
<1>3. WriteInv'
    BY DEF WriteInv, IdleInv, SawInv, Begin, Matching, ActiveOf
<1>4. SawInv'
    BY DEF SawInv, LockInv, WriteInv, IdleInv, Begin, Matching, ActiveOf
<1>5. CommitInv'
    BY DEF CommitInv, CallInv, WriteInv, Begin, Matching, ActiveOf
<1>6. CallInv'
    BY DEF CallInv, SawInv, CommitInv, Begin, Matching, ActiveOf
<1> QED
    BY <1>1, <1>2, <1>3, <1>4, <1>5, <1>6

LEMMA DeprecateRowStep ==
    ASSUME IInv, TypeOK', NEW s \in Sessions, NEW w \in Versions, DeprecateRow(s, w)
    PROVE  IInv'
<1> USE StoreAssumption DEF IInv, TypeOK, Statuses, Absent, Unwritten, Open
<1>1. IdleInv'
    BY DEF IdleInv, DeprecateRow, CanLock, history
<1>2. LockInv'
    BY DEF LockInv, IdleInv, DeprecateRow, CanLock, history
<1>3. WriteInv'
    BY DEF WriteInv, IdleInv, SawInv, DeprecateRow, CanLock, history
<1>4. SawInv'
    BY DEF SawInv, LockInv, WriteInv, IdleInv, DeprecateRow, CanLock, history
<1>5. CommitInv'
    BY DEF CommitInv, CallInv, WriteInv, DeprecateRow, CanLock, history
<1>6. CallInv'
    BY DEF CallInv, SawInv, CommitInv, DeprecateRow, CanLock, history
<1> QED
    BY <1>1, <1>2, <1>3, <1>4, <1>5, <1>6

LEMMA WaitStep ==
    ASSUME IInv, TypeOK', NEW s \in Sessions, NEW w \in Versions, WaitForRow(s, w)
    PROVE  IInv'
<1> USE StoreAssumption DEF IInv, TypeOK, Statuses, Absent, Unwritten, Open
<1>1. IdleInv'
    BY DEF IdleInv, WaitForRow, history
<1>2. LockInv'
    BY DEF LockInv, IdleInv, WaitForRow, history
<1>3. WriteInv'
    BY DEF WriteInv, IdleInv, SawInv, WaitForRow, history
<1>4. SawInv'
    BY DEF SawInv, LockInv, WriteInv, IdleInv, WaitForRow, history
<1>5. CommitInv'
    BY DEF CommitInv, CallInv, WriteInv, WaitForRow, history
<1>6. CallInv'
    BY DEF CallInv, SawInv, CommitInv, WaitForRow, history
<1> QED
    BY <1>1, <1>2, <1>3, <1>4, <1>5, <1>6

\* The second UPDATE, row by row: it writes and locks its target, if there is one.
LEMMA ActivateRowEffect ==
    ASSUME TypeOK, NEW s \in Sessions, ActivateRow(s)
    PROVE  /\ target[s] \in Versions /\ pc[s] = "deprecate" /\ todo[s] = {}
           /\ pc' = [pc EXCEPT ![s] = "commit"]
           /\ UNCHANGED <<status, contract, target, todo, saw, overlapped, everActive>>
           /\ status[target[s]] # Absent => holder[target[s]] \in {NoSession, s}
           /\ \A v \in Versions : holder'[v] =
                IF v = target[s] /\ status[v] # Absent THEN s ELSE holder[v]
           /\ \A t \in Sessions, v \in Versions : writes'[t][v] =
                IF t = s /\ v = target[s] /\ status[v] # Absent THEN "ACTIVE" ELSE writes[t][v]
<1>1. /\ target[s] \in Versions /\ pc[s] = "deprecate" /\ todo[s] = {}
      /\ pc' = [pc EXCEPT ![s] = "commit"]
      /\ UNCHANGED <<status, contract, target, todo, saw, overlapped, everActive>>
    BY DEF TypeOK, Open, ActivateRow, Activating, history
<1>2. CASE status[target[s]] = Absent
    <2>1. UNCHANGED <<wait, holder, writes>>
        BY <1>2 DEF ActivateRow
    <2> QED
        BY <1>1, <1>2, <2>1
<1>3. CASE status[target[s]] # Absent
    <2>1. /\ writes' = [writes EXCEPT ![s] = [writes[s] EXCEPT ![target[s]] = "ACTIVE"]]
          /\ holder' = [holder EXCEPT ![target[s]] = s]
          /\ holder[target[s]] \in {NoSession, s}
        BY <1>3 DEF ActivateRow, CanLock
    <2>2. \A v \in Versions : holder'[v] =
             IF v = target[s] /\ status[v] # Absent THEN s ELSE holder[v]
        BY <1>3, <2>1 DEF TypeOK
    <2>3. \A t \in Sessions, v \in Versions : writes'[t][v] =
             IF t = s /\ v = target[s] /\ status[v] # Absent THEN "ACTIVE" ELSE writes[t][v]
        BY <1>3, <2>1 DEF TypeOK
    <2> QED
        BY <1>1, <2>1, <2>2, <2>3
<1> QED
    BY <1>2, <1>3

LEMMA ActivateRowStep ==
    ASSUME IInv, TypeOK', NEW s \in Sessions, ActivateRow(s)
    PROVE  IInv'
<1> DEFINE Hit(v) == v = target[s] /\ status[v] # Absent
<1>1. /\ target[s] \in Versions /\ pc[s] = "deprecate" /\ todo[s] = {}
      /\ pc' = [pc EXCEPT ![s] = "commit"]
      /\ UNCHANGED <<status, contract, target, todo, saw, overlapped, everActive>>
      /\ \A v \in Versions : Hit(v) => holder[v] \in {NoSession, s}
      /\ \A v \in Versions : holder'[v] = IF Hit(v) THEN s ELSE holder[v]
      /\ \A t \in Sessions, v \in Versions :
            writes'[t][v] = IF t = s /\ Hit(v) THEN "ACTIVE" ELSE writes[t][v]
    BY ActivateRowEffect DEF IInv
<1> HIDE DEF Hit
<1> USE StoreAssumption DEF IInv, TypeOK
<1>2. IdleInv'
    BY <1>1 DEF IdleInv, Open
<1>3. LockInv'
    BY <1>1 DEF LockInv
<1>4. WriteInv'
    <2> SUFFICES ASSUME NEW t \in Sessions, NEW v \in Versions
                 PROVE  /\ writes'[t][v] = "DEPRECATED" => v \in saw'[t]
                        /\ writes'[t][v] = "ACTIVE" => v = target'[t] /\ pc'[t] = "commit"
        BY DEF WriteInv
    <2>1. CASE t = s /\ Hit(v)
        BY <1>1, <2>1 DEF Hit
    <2>2. CASE ~(t = s /\ Hit(v))
        BY <1>1, <2>2 DEF WriteInv
    <2> QED
        BY <2>1, <2>2
<1>5. SawInv'
    BY <1>1 DEF SawInv, Hit
<1>6. CommitInv'
    BY <1>1 DEF CommitInv, CallInv, Open, Hit
<1>7. CallInv'
    BY <1>1 DEF CallInv, Open
<1> QED
    BY <1>2, <1>3, <1>4, <1>5, <1>6, <1>7

LEMMA CommitStep ==
    ASSUME IInv, TypeOK', NEW s \in Sessions, Commit(s)
    PROVE  IInv'
<1> USE StoreAssumption DEF IInv, TypeOK, Statuses, Absent, Unwritten, Open
<1>1. IdleInv'
    BY DEF IdleInv, Commit, Release
<1>2. LockInv'
    BY DEF LockInv, IdleInv, Commit, Release
<1>3. WriteInv'
    BY DEF WriteInv, IdleInv, SawInv, Commit, Release
<1>4. SawInv'
    BY DEF SawInv, LockInv, WriteInv, IdleInv, Commit, Release
<1>5. CommitInv'
    BY DEF CommitInv, CallInv, WriteInv, Commit, Release
<1>6. CallInv'
    BY DEF CallInv, SawInv, CommitInv, Commit, Release
<1> QED
    BY <1>1, <1>2, <1>3, <1>4, <1>5, <1>6

LEMMA RollbackStep ==
    ASSUME IInv, TypeOK', NEW s \in Sessions, Rollback(s)
    PROVE  IInv'
<1> USE StoreAssumption DEF IInv, TypeOK, Statuses, Absent, Unwritten, Open
<1>1. IdleInv'
    BY DEF IdleInv, Rollback, Release
<1>2. LockInv'
    BY DEF LockInv, IdleInv, Rollback, Release
<1>3. WriteInv'
    BY DEF WriteInv, IdleInv, SawInv, Rollback, Release
<1>4. SawInv'
    BY DEF SawInv, LockInv, WriteInv, IdleInv, Rollback, Release
<1>5. CommitInv'
    BY DEF CommitInv, CallInv, WriteInv, Rollback, Release
<1>6. CallInv'
    BY DEF CallInv, SawInv, CommitInv, Rollback, Release
<1> QED
    BY <1>1, <1>2, <1>3, <1>4, <1>5, <1>6

-----------------------------------------------------------------------------
LEMMA IInvInit == Init => IInv
<1> SUFFICES ASSUME Init PROVE IInv
    OBVIOUS
<1>1. TypeOK
    BY StoreAssumption DEF Init, TypeOK, Absent, Unwritten, Open
<1>2. IdleInv /\ LockInv /\ WriteInv /\ SawInv /\ CommitInv /\ CallInv
    BY StoreAssumption
    DEF Init, IdleInv, LockInv, WriteInv, SawInv, CommitInv, CallInv, Open, Unwritten
<1> QED
    BY <1>1, <1>2 DEF IInv

LEMMA IInvStep == IInv /\ [Next]_vars => IInv'
<1> SUFFICES ASSUME IInv, [Next]_vars PROVE IInv'
    OBVIOUS
<1>1. TypeOK'
    BY TypeStep DEF IInv
<1>2. ASSUME NEW s \in Sessions, Step(s) PROVE IInv'
    <2>1. ASSUME NEW w \in Versions, DeprecateRow(s, w) PROVE IInv'
        BY <1>1, <2>1, DeprecateRowStep
    <2>2. ASSUME NEW w \in Versions, WaitForRow(s, w) PROVE IInv'
        BY <1>1, <2>2, WaitStep
    <2>3. CASE ActivateWait(s)
        <3>1. target[s] \in Versions /\ WaitForRow(s, target[s])
            BY <2>3 DEF ActivateWait, Activating, IInv, TypeOK, Open
        <3> QED
            BY <3>1, <2>2
    <2> QED
        BY <1>1, <1>2, <2>1, <2>2, <2>3, ActivateRowStep, CommitStep DEF Step, DeprecateWait
<1>3. CASE UNCHANGED vars
    BY <1>3 DEF vars, session, history, IInv, TypeOK, IdleInv, LockInv, WriteInv, SawInv,
                CommitInv, CallInv, Open
<1> QED
    BY <1>1, <1>2, <1>3, CreateVersionStep, BeginStep, RollbackStep DEF Next, DeadlockVictim

LEMMA IInvHolds == Spec => []IInv
    BY IInvInit, IInvStep, PTL DEF Spec

(***************************************************************************)
(* For any number of contracts, versions and racing or failing sessions,   *)
(* ActivateVersion never leaves a contract that has had an ACTIVE version  *)
(* without one, provided callers name an existing version of the contract. *)
(***************************************************************************)
THEOREM NoGap == ASSUME StrictCallers PROVE Spec => []NoActiveGap
<1>1. Init => NoActiveGap
    BY DEF Init, NoActiveGap
<1>2. IInv /\ NoActiveGap /\ [Next]_vars => NoActiveGap'
    <2> SUFFICES ASSUME IInv, NoActiveGap, [Next]_vars PROVE NoActiveGap'
        OBVIOUS
    <2>1. ASSUME NEW v \in Versions, NEW st \in CreateStatuses, CreateVersion(v, st)
          PROVE  NoActiveGap'
        BY <2>1, StoreAssumption
        DEF CreateVersion, NoActiveGap, ActiveOf, IInv, TypeOK, Absent, Statuses
    <2>2. ASSUME NEW s \in Sessions, Commit(s)
          PROVE  NoActiveGap'
        <3>1. PICK c \in Contracts, v \in Versions :
                 /\ c = contract[s] /\ v = target[s]
                 /\ ContractOf[v] = c
                 /\ writes[s][v] = "ACTIVE"
            BY <2>2, StoreAssumption DEF Commit, IInv, TypeOK, CallInv, CommitInv, Open
        <3>2. \A w \in Versions : status'[w] =
                 IF writes[s][w] = Unwritten THEN status[w] ELSE writes[s][w]
            BY <2>2 DEF Commit
        <3>3. \A w \in Versions : ContractOf[w] # c => writes[s][w] = Unwritten
            BY <3>1 DEF IInv, TypeOK, WriteInv, SawInv
        <3>4. ASSUME NEW d \in everActive' PROVE d = c \/ d \in everActive
            <4>1. everActive' = everActive \cup
                    {ContractOf[w] : w \in {x \in Versions : writes[s][x] = "ACTIVE"}}
                BY <2>2 DEF Commit
            <4> QED
                BY <3>3, <3>4, <4>1 DEF Unwritten
        <3>5. ActiveOf(c)' # {}
            <4>1. v \in ActiveOf(c)'
                BY <3>1, <3>2 DEF ActiveOf, Unwritten
            <4> QED
                BY <4>1
        <3>6. ASSUME NEW d \in everActive, d # c PROVE ActiveOf(d)' # {}
            <4>1. PICK w \in Versions : ContractOf[w] = d /\ status[w] = "ACTIVE"
                BY <3>6 DEF NoActiveGap, ActiveOf
            <4>2. status'[w] = "ACTIVE"
                BY <3>2, <3>3, <3>6, <4>1
            <4>3. w \in ActiveOf(d)'
                BY <4>1, <4>2 DEF ActiveOf
            <4> QED
                BY <4>3
        <3> QED
            BY <3>4, <3>5, <3>6 DEF NoActiveGap
    <2>3. ASSUME UNCHANGED <<status, everActive>>
          PROVE  NoActiveGap'
        BY <2>3 DEF NoActiveGap, ActiveOf
    <2> QED
        BY <2>1, <2>2, <2>3
        DEF Next, Step, Begin, DeprecateRow, DeprecateWait, WaitForRow, ActivateRow,
            ActivateWait, Rollback, DeadlockVictim, vars, history, session
<1> QED
    BY <1>1, <1>2, IInvHolds, PTL DEF Spec

(***************************************************************************)
(* A committed activation leaves none of the versions its first UPDATE saw *)
(* ACTIVE, because it keeps every row it visited locked until it ends.     *)
(***************************************************************************)
THEOREM Supersedes == Spec => SupersedesWhatItSaw
<1>1. ASSUME IInv, NEW s \in Sessions, Commit(s), NEW w \in saw[s]
      PROVE  status'[w] # "ACTIVE"
    <2>1. w \in Versions /\ writes[s][w] # "ACTIVE"
        BY <1>1 DEF IInv, TypeOK, SawInv, WriteInv
    <2>2. writes[s][w] = "DEPRECATED" \/ status[w] # "ACTIVE"
        BY <1>1 DEF IInv, SawInv, CommitInv, Commit
    <2> QED
        BY <1>1, <2>1, <2>2 DEF Commit, Unwritten
<1>2. IInv /\ [Next]_vars =>
        [\A s \in Sessions : Commit(s) => \A w \in saw[s] : status'[w] # "ACTIVE"]_vars
    BY <1>1
<1> QED
    BY <1>2, IInvHolds, PTL DEF Spec, SupersedesWhatItSaw

LEMMA SoloStep ==
    ASSUME StrictCallers, "ACTIVE" \notin CreateStatuses
    PROVE  IInv /\ SoloInv /\ [Next]_vars => SoloInv'
<1> SUFFICES ASSUME IInv, SoloInv, [Next]_vars PROVE SoloInv'
    OBVIOUS
<1> USE StoreAssumption
<1>1. ASSUME NEW v \in Versions, NEW st \in CreateStatuses, CreateVersion(v, st)
      PROVE  SoloInv'
    BY <1>1 DEF CreateVersion, session, SoloInv, ActiveOf, Open, IInv, TypeOK
<1>2. ASSUME NEW s \in Sessions, NEW c \in Contracts, NEW v \in Versions, Begin(s, c, v)
      PROVE  SoloInv'
    BY <1>2 DEF Begin, SoloInv, ActiveOf, Matching, Open, IInv, TypeOK
<1>3. ASSUME NEW s \in Sessions, Commit(s)
      PROVE  SoloInv'
    <2>1. SUFFICES ASSUME NEW t \in Sessions, Open(t)', t \notin overlapped'
                   PROVE  /\ \A u \in Sessions :
                               Open(u)' /\ contract'[u] = contract'[t] => u = t
                          /\ \A v \in Versions :
                               ContractOf[v] = contract'[t] /\ status'[v] = "ACTIVE"
                                   => v \in saw'[t] \cup {target'[t]}
        BY DEF SoloInv, ActiveOf
    <2>2. /\ t # s /\ Open(t) /\ Open(s) /\ t \notin overlapped
          /\ contract'[t] = contract[t] /\ saw'[t] = saw[t] /\ target'[t] = target[t]
          /\ \A u \in Sessions : Open(u)' => u # s /\ Open(u) /\ contract'[u] = contract[u]
        BY <1>3, <2>1 DEF Commit, Release, Open, IInv, TypeOK
    <2>3. contract[s] # contract[t]
        BY <2>2 DEF SoloInv
    <2>4. \A v \in Versions : ContractOf[v] = contract[t] =>
             writes[s][v] # "ACTIVE" \/ v = target[s]
        BY DEF IInv, WriteInv
    <2>5. \A v \in Versions : ContractOf[v] = contract[t] /\ status'[v] = "ACTIVE" =>
             status[v] = "ACTIVE"
        BY <1>3, <2>2, <2>3, <2>4 DEF Commit, IInv, CallInv, Unwritten, TypeOK
    <2> QED
        BY <2>2, <2>5 DEF SoloInv, ActiveOf
<1>4. ASSUME NEW s \in Sessions, Rollback(s)
      PROVE  SoloInv'
    BY <1>4 DEF Rollback, Release, SoloInv, ActiveOf, Open, IInv, TypeOK
<1>5. ASSUME UNCHANGED <<status, contract, target, saw, overlapped>>,
             \A s \in Sessions : Open(s)' => Open(s)
      PROVE  SoloInv'
    BY <1>5 DEF SoloInv, ActiveOf
<1> QED
    BY <1>1, <1>2, <1>3, <1>4, <1>5
    DEF Next, Step, DeprecateRow, DeprecateWait, WaitForRow, ActivateRow, Activating,
        ActivateWait, DeadlockVictim, vars, history, session, Open, IInv, TypeOK

LEMMA SoloCommit ==
    ASSUME StrictCallers, IInv, SoloInv, NEW s \in Sessions, Commit(s), s \notin overlapped
    PROVE  {v \in Versions : ContractOf[v] = contract[s] /\ status'[v] = "ACTIVE"} = {target[s]}
<1>1. /\ target[s] \in Versions
      /\ ContractOf[target[s]] = contract[s]
      /\ writes[s][target[s]] = "ACTIVE"
    BY DEF Commit, IInv, TypeOK, CallInv, CommitInv, Open
<1>2. \A v \in Versions : status'[v] =
         IF writes[s][v] = Unwritten THEN status[v] ELSE writes[s][v]
    BY DEF Commit
<1>3. status'[target[s]] = "ACTIVE"
    BY <1>1, <1>2 DEF Unwritten
<1>4. ASSUME NEW v \in Versions, ContractOf[v] = contract[s], v # target[s]
      PROVE  status'[v] # "ACTIVE"
    <2>1. writes[s][v] # "ACTIVE"
        BY <1>4 DEF IInv, WriteInv
    <2>2. CASE status[v] = "ACTIVE"
        <3>1. v \in saw[s]
            BY <1>4, <2>2 DEF SoloInv, ActiveOf, Open, Commit
        <3>2. todo[s] = {}
            BY DEF IInv, CommitInv, Commit
        <3>3. writes[s][v] = "DEPRECATED"
            BY <2>2, <3>1, <3>2 DEF IInv, SawInv
        <3> QED
            BY <1>2, <3>3 DEF Unwritten
    <2>3. CASE status[v] # "ACTIVE"
        BY <1>2, <2>1, <2>3 DEF Unwritten
    <2> QED
        BY <2>2, <2>3
<1> QED
    BY <1>1, <1>3, <1>4

(***************************************************************************)
(* An activation that met no other on its contract leaves its target the   *)
(* only ACTIVE version, provided callers create versions in another status *)
(* and name an existing version of the contract they activate.             *)
(***************************************************************************)
THEOREM SoloExclusive ==
    ASSUME StrictCallers, "ACTIVE" \notin CreateStatuses
    PROVE  Spec => SoloActivationIsExclusive
<1>1. Init => SoloInv
    BY DEF Init, SoloInv, Open
<1>2. IInv /\ SoloInv => \A s \in Sessions : Commit(s) /\ s \notin overlapped
            => {v \in Versions : ContractOf[v] = contract[s] /\ status'[v] = "ACTIVE"}
                 = {target[s]}
    BY SoloCommit
<1>3. IInv /\ SoloInv /\ [Next]_vars =>
        [\A s \in Sessions : Commit(s) /\ s \notin overlapped
            => {v \in Versions : ContractOf[v] = contract[s] /\ status'[v] = "ACTIVE"}
                 = {target[s]}]_vars
    BY <1>2
<1> QED
    BY <1>1, <1>3, SoloStep, IInvHolds, PTL DEF Spec, SoloActivationIsExclusive

-----------------------------------------------------------------------------
(* What the service shows its clients.                                     *)

\* ORDER BY created_at DESC LIMIT 1: a set of versions has a newest.
LEMMA NewestIn ==
    ASSUME NEW S \in SUBSET Versions, S # {}
    PROVE  Newest(S) \in S
<1> DEFINE R == OpToRel(<, Nat)
           T == {MaxVersions - v : v \in S}
<1> HIDE DEF R
<1>0. \A v \in S : MaxVersions - v \in Nat
    BY StoreAssumption DEF Versions
<1>1. T \in SUBSET Nat /\ T # {}
    BY <1>0
<1> USE DEF R
<1>2. \E x \in T : \A y \in T : <<y, x>> \notin R
    <2> HIDE DEF T
    <2> QED
        BY <1>1, NatLessThanWellFounded, WFMin
<1>3. \A x, y \in Nat : <<y, x>> \notin R => x <= y
    BY DEF OpToRel
<1> HIDE DEF R
<1>4. PICK v \in S : \A w \in S : <<MaxVersions - w, MaxVersions - v>> \notin R
    BY <1>2
<1>5. \A w \in S : MaxVersions - v \in Nat /\ MaxVersions - w \in Nat /\ v \in Nat /\ w \in Nat
    BY StoreAssumption DEF Versions
<1>6. \A w \in S : MaxVersions - v <= MaxVersions - w
    BY <1>3, <1>4, <1>5
<1>7. \A w \in S : w <= v
    BY <1>5, <1>6, StoreAssumption
<1> QED
    BY <1>7 DEF Newest

\* A commit replaces rows of its own contract only, and leaves one ACTIVE.
LEMMA CommitOfContract ==
    ASSUME StrictCallers, IInv, NEW s \in Sessions, Commit(s)
    PROVE  /\ contract[s] \in Contracts
           /\ \A w \in Versions : ContractOf[w] # contract[s] => status'[w] = status[w]
           /\ target[s] \in Versions /\ ContractOf[target[s]] = contract[s]
           /\ status'[target[s]] = "ACTIVE"
<1>1. /\ target[s] \in Versions /\ ContractOf[target[s]] = contract[s]
      /\ writes[s][target[s]] = "ACTIVE"
    BY DEF Commit, IInv, TypeOK, CallInv, CommitInv, Open
<1>2. \A w \in Versions : status'[w] =
         IF writes[s][w] = Unwritten THEN status[w] ELSE writes[s][w]
    BY DEF Commit
<1>3. \A w \in Versions : ContractOf[w] # contract[s] => writes[s][w] = Unwritten
    BY <1>1 DEF IInv, TypeOK, WriteInv, SawInv
<1>4. contract[s] \in Contracts
    BY <1>1, StoreAssumption
<1> QED
    BY <1>1, <1>2, <1>3, <1>4 DEF Unwritten

\* The listed rows of a topic none of whose rows becomes or ceases to be ACTIVE.
LEMMA SameRows ==
    ASSUME NEW t \in Topics,
           \A v \in Versions : TopicOf[ContractOf[v]] = t =>
               (status'[v] = "ACTIVE" <=> status[v] = "ACTIVE")
    PROVE  ActiveOn(t)' = ActiveOn(t)
<1>1. \A c \in Contracts : TopicOf[c] = t => ActiveOf(c)' = ActiveOf(c)
    BY DEF ActiveOf
<1> QED
    BY <1>1 DEF ActiveOn, ActiveOf

\* A topic with an ACTIVE row has rows to show.
LEMMA ListedWhenActive ==
    ASSUME NEW v \in Versions, status'[v] = "ACTIVE"
    PROVE  LET S == ActiveOn(TopicOf[ContractOf[v]])' IN S \subseteq Versions /\ S # {}
BY StoreAssumption DEF ActiveOn, ActiveOf

Listed == [t \in Topics |-> ActiveOn(t)]

LEMMA PlaneStep ==
    ASSUME StrictCallers, IInv, [Next]_vars
    PROVE  Plane!PlaneNext \/ Listed' = Listed
<1>1. ASSUME NEW v \in Versions, status'[v] = "ACTIVE",
             \A w \in Versions : TopicOf[ContractOf[w]] # TopicOf[ContractOf[v]] =>
                 status'[w] = status[w]
      PROVE  Plane!PlaneNext \/ Listed' = Listed
    <2> DEFINE t == TopicOf[ContractOf[v]]
    <2>1. t \in Topics
        BY StoreAssumption
    <2>2. ActiveOn(t)' \subseteq Versions /\ ActiveOn(t)' # {}
        BY <1>1, ListedWhenActive
    <2>3. \A u \in Topics : u # t => ActiveOn(u)' = ActiveOn(u)
        BY <1>1, SameRows
    <2> HIDE DEF t
    <2>4. Listed' = [Listed EXCEPT ![t] = ActiveOn(t)'] /\ Listed'[t] = ActiveOn(t)'
        BY <2>1, <2>3 DEF Listed
    <2>5. Plane!Supersede(t, Listed'[t])
        BY <2>2, <2>4 DEF Plane!Supersede, Listed
    <2> QED
        BY <2>1, <2>5 DEF Plane!PlaneNext, Listed
<1>2. ASSUME NEW v \in Versions, NEW st \in CreateStatuses, CreateVersion(v, st)
      PROVE  Plane!PlaneNext \/ Listed' = Listed
    <2>1. status \in [Versions -> Statuses \cup {Absent}] /\ status[v] = Absent
          /\ status' = [status EXCEPT ![v] = st]
        BY <1>2 DEF CreateVersion, IInv, TypeOK
    <2>2. CASE st = "ACTIVE"
        BY <1>1, <2>1, <2>2
    <2>3. CASE st # "ACTIVE"
        <3>1. \A w \in Versions : status'[w] = "ACTIVE" <=> status[w] = "ACTIVE"
            BY <2>1, <2>3 DEF Absent
        <3> QED
            BY <3>1, SameRows DEF Listed
    <2> QED
        BY <2>2, <2>3
<1>3. ASSUME NEW s \in Sessions, Commit(s)
      PROVE  Plane!PlaneNext \/ Listed' = Listed
    BY <1>1, <1>3, CommitOfContract
<1>4. ASSUME UNCHANGED status
      PROVE  Listed' = Listed
    BY <1>4, SameRows DEF Listed
<1> QED
    BY <1>2, <1>3, <1>4
    DEF Next, Step, Begin, DeprecateRow, DeprecateWait, WaitForRow, ActivateRow,
        ActivateWait, Rollback, DeadlockVictim, vars, session

(***************************************************************************)
(* The rows the service lists implement ControlPlane, on which the models  *)
(* of the gateway's cache and of the SDK's resolver are built: whatever    *)
(* races or fails, they change for one topic at a time and never run out,  *)
(* provided callers name a version of the contract.                        *)
(***************************************************************************)
THEOREM ServesControlPlane == ASSUME StrictCallers PROVE Spec => ServesLikeControlPlane
<1>1. Init => Plane!PlaneInit
    <2> SUFFICES ASSUME Init PROVE \A t \in Topics : ActiveOn(t) = {}
        BY DEF Plane!PlaneInit
    <2> QED
        BY DEF Init, ActiveOn, ActiveOf, Absent
<1>2. IInv /\ [Next]_vars => [Plane!PlaneNext]_Listed
    BY PlaneStep
<1> QED
    BY <1>1, <1>2, IInvHolds, PTL
    DEF Spec, ServesLikeControlPlane, Plane!PlaneSpec, Listed

StayFound == \A t \in Topics : GetActiveVersion(t) # NoVersion =>
                                     GetActiveVersion(t)' # NoVersion

(***************************************************************************)
(* GetActiveVersion, which takes the newest of these rows, never goes back *)
(* to "not found".                                                         *)
(***************************************************************************)
THEOREM StaysFound == ASSUME StrictCallers PROVE Spec => [][StayFound]_vars
<1>1. ASSUME IInv, [Next]_vars, NEW t \in Topics, GetActiveVersion(t) # NoVersion
      PROVE  GetActiveVersion(t)' # NoVersion
    <2>1. ActiveOn(t) # {}
        BY <1>1 DEF GetActiveVersion, Newest
    <2>2. Plane!PlaneNext \/ Listed' = Listed
        BY <1>1, PlaneStep
    <2>3. ActiveOn(t)' # {}
        <3>1. CASE Plane!PlaneNext
            <4>1. PICK u \in Topics : Plane!Supersede(u, Listed'[u])
                BY <3>1 DEF Plane!PlaneNext, Listed
            <4>2. Listed' = [Listed EXCEPT ![u] = Listed'[u]] /\ Listed'[u] # {}
                BY <4>1 DEF Plane!Supersede, Listed
            <4>3. Listed'[t] # {}
                BY <2>1, <4>2 DEF Listed
            <4> QED
                BY <4>3 DEF Listed
        <3>2. CASE Listed' = Listed
            <4>1. Listed'[t] = Listed[t]
                BY <3>2
            <4> QED
                BY <2>1, <4>1 DEF Listed
        <3> QED
            BY <2>2, <3>1, <3>2
    <2>4. ActiveOn(t)' \in SUBSET Versions
        BY DEF ActiveOn, ActiveOf
    <2>5. Newest(ActiveOn(t)') \in Versions
        BY <2>3, <2>4, NewestIn
    <2> QED
        BY <2>5, StoreAssumption DEF GetActiveVersion
<1>2. IInv /\ [Next]_vars => [StayFound]_vars
    BY <1>1 DEF StayFound
<1> QED
    BY <1>2, IInvHolds, PTL DEF Spec

-----------------------------------------------------------------------------
(* One activation at a time.                                               *)

Unique == \A v, w \in Versions :
    ContractOf[v] = ContractOf[w] /\ status[v] = "ACTIVE" /\ status[w] = "ACTIVE" => v = w

(***************************************************************************)
(* "deprecates any previously active version for the same contract" is     *)
(* true of AtMostOneActive as long as no two calls on one contract         *)
(* overlap, whichever of them fail: two transactions at READ COMMITTED are *)
(* the only way to two ACTIVE versions.                                    *)
(***************************************************************************)
THEOREM SerialCallsLeaveOneActive ==
    ASSUME StrictCallers, "ACTIVE" \notin CreateStatuses
    PROVE  Spec /\ [](overlapped = {}) => []AtMostOneActive
<1>1. Init => SoloInv /\ Unique
    BY DEF Init, SoloInv, Open, Unique, Absent
<1>2. IInv /\ SoloInv /\ Unique /\ overlapped = {} /\ [Next]_vars => Unique'
    <2> SUFFICES ASSUME IInv, SoloInv, Unique, overlapped = {}, [Next]_vars PROVE Unique'
        OBVIOUS
    <2>1. ASSUME NEW s \in Sessions, Commit(s) PROVE Unique'
        <3>1. {v \in Versions : ContractOf[v] = contract[s] /\ status'[v] = "ACTIVE"} = {target[s]}
            BY <2>1, SoloCommit
        <3>2. \A v \in Versions : ContractOf[v] # contract[s] => status'[v] = status[v]
            BY <2>1, CommitOfContract
        <3> SUFFICES ASSUME NEW v \in Versions, NEW w \in Versions, ContractOf[v] = ContractOf[w],
                            status'[v] = "ACTIVE", status'[w] = "ACTIVE"
                     PROVE  v = w
            BY DEF Unique
        <3>3. CASE ContractOf[v] = contract[s]
            <4>1. \A u \in Versions : ContractOf[u] = contract[s] /\ status'[u] = "ACTIVE" => u = target[s]
                BY <3>1
            <4> QED
                BY <3>3, <4>1
        <3>4. CASE ContractOf[v] # contract[s]
            BY <3>2, <3>4 DEF Unique
        <3> QED
            BY <3>3, <3>4
    <2>2. ASSUME NEW v \in Versions, NEW st \in CreateStatuses, CreateVersion(v, st) PROVE Unique'
        BY <2>2 DEF CreateVersion, Unique, IInv, TypeOK
    <2>3. ASSUME UNCHANGED status PROVE Unique'
        BY <2>3 DEF Unique
    <2> QED
        BY <2>1, <2>2, <2>3
        DEF Next, Step, Begin, DeprecateRow, DeprecateWait, WaitForRow, ActivateRow,
            ActivateWait, Rollback, DeadlockVictim, vars, session
<1>3. Unique => AtMostOneActive
    <2> SUFFICES ASSUME Unique, NEW c \in Contracts PROVE Cardinality(ActiveOf(c)) <= 1
        BY DEF AtMostOneActive
    <2>1. CASE ActiveOf(c) = {}
        BY <2>1, FS_EmptySet
    <2>2. CASE ActiveOf(c) # {}
        <3>1. PICK v \in ActiveOf(c) : TRUE
            BY <2>2
        <3>2. ActiveOf(c) = {v}
            BY <3>1 DEF Unique, ActiveOf
        <3> QED
            BY <3>2, FS_Singleton
    <2> QED
        BY <2>1, <2>2
<1>4. IInv /\ SoloInv /\ [Next]_vars => SoloInv'
    BY SoloStep
<1> QED
    BY <1>1, <1>2, <1>3, <1>4, IInvHolds, PTL DEF Spec

-----------------------------------------------------------------------------
(* Row locks.                                                              *)

\* Rows that exist are locked, and by transactions that have not ended.
HolderInv == \A v \in Versions : holder[v] # NoSession => Open(holder[v]) /\ status[v] # Absent

\* A session waits for a row it still has to visit, or for its target.
WaitInv == \A s \in Sessions : wait[s] # NoVersion =>
    /\ pc[s] = "deprecate" /\ status[wait[s]] # Absent
    /\ wait[s] \in todo[s] \/ (todo[s] = {} /\ wait[s] = target[s])

\* The session can lock its next row, or queue for it, or commit.
MayLock(s, w) == CanLock(s, w) \/ (wait[s] = NoVersion /\ holder[w] \notin {NoSession, s})
CanGo(s) ==
    \/ pc[s] = "commit"
    \/ pc[s] = "deprecate" /\ \E w \in todo[s] : MayLock(s, w)
    \/ Activating(s) /\ (status[target[s]] = Absent \/ MayLock(s, target[s]))

StuckIsDeadlock ==
    (\E s \in Sessions : Open(s)) =>
      \/ \E s \in Sessions : CanGo(s)
      \/ \E S \in SUBSET Sessions : S # {} /\ Deadlocked(S)

\* No row disappears.
LEMMA RowsStay ==
    ASSUME IInv, [Next]_vars
    PROVE  \A v \in Versions : status[v] # Absent => status'[v] # Absent
<1> USE StoreAssumption DEF IInv, TypeOK, Statuses, Absent, Unwritten
<1>1. ASSUME NEW v \in Versions, NEW st \in CreateStatuses, CreateVersion(v, st)
      PROVE  \A w \in Versions : status[w] # Absent => status'[w] # Absent
    BY <1>1 DEF CreateVersion
<1>2. ASSUME NEW s \in Sessions, Commit(s)
      PROVE  \A w \in Versions : status[w] # Absent => status'[w] # Absent
    BY <1>2 DEF Commit
<1> QED
    BY <1>1, <1>2
    DEF Next, Step, Begin, DeprecateRow, DeprecateWait, WaitForRow, ActivateRow,
        ActivateWait, Rollback, DeadlockVictim, vars, session

LEMMA LocksStep ==
    ASSUME IInv, HolderInv, WaitInv, [Next]_vars
    PROVE  HolderInv' /\ WaitInv'
<1>0. \A v \in Versions : status[v] # Absent => status'[v] # Absent
    BY RowsStay
<1> USE StoreAssumption DEF IInv, TypeOK, HolderInv, WaitInv, Open
<1>1. ASSUME NEW v \in Versions, NEW st \in CreateStatuses, CreateVersion(v, st)
      PROVE  HolderInv' /\ WaitInv'
    BY <1>0, <1>1 DEF CreateVersion, session
<1>2. ASSUME NEW s \in Sessions, NEW c \in Contracts, NEW v \in Versions, Begin(s, c, v)
      PROVE  HolderInv' /\ WaitInv'
    BY <1>0, <1>2 DEF Begin
<1>3. ASSUME NEW s \in Sessions, NEW w \in Versions, DeprecateRow(s, w)
      PROVE  HolderInv' /\ WaitInv'
    <2>1. status[w] # Absent
        BY <1>3 DEF DeprecateRow, SawInv
    <2> QED
        BY <1>0, <1>3, <2>1 DEF DeprecateRow
<1>4. ASSUME NEW s \in Sessions, NEW w \in Versions, WaitForRow(s, w),
             pc[s] = "deprecate", w \in todo[s] \/ (todo[s] = {} /\ w = target[s])
      PROVE  HolderInv' /\ WaitInv'
    <2>1. status[w] # Absent
        BY <1>4 DEF WaitForRow
    <2> QED
        BY <1>0, <1>4, <2>1 DEF WaitForRow
<1>5. ASSUME NEW s \in Sessions, ActivateRow(s)
      PROVE  HolderInv' /\ WaitInv'
    <2>1. HolderInv'
        BY <1>5, ActivateRowEffect
    <2>2. /\ pc[s] = "deprecate" /\ todo[s] = {} /\ pc' = [pc EXCEPT ![s] = "commit"]
          /\ UNCHANGED <<status, target, todo>>
          /\ \/ status[target[s]] = Absent /\ wait' = wait
             \/ wait' = [wait EXCEPT ![s] = NoVersion]
        BY <1>5 DEF ActivateRow, Activating
    <2>3. wait'[s] = NoVersion
        BY <2>2
    <2>4. \A t \in Sessions : t # s => wait'[t] = wait[t]
        BY <2>2
    <2>5. WaitInv'
        BY <2>2, <2>3, <2>4
    <2> QED
        BY <2>1, <2>5
<1>6. ASSUME NEW s \in Sessions, Release(s)
      PROVE  HolderInv' /\ WaitInv'
    BY <1>0, <1>6 DEF Release
<1>7. CASE UNCHANGED vars
    BY <1>7 DEF vars, session
<1> HIDE DEF IInv, TypeOK, HolderInv, WaitInv
<1>8. ASSUME NEW s \in Sessions, ActivateWait(s)
      PROVE  HolderInv' /\ WaitInv'
    BY <1>4, <1>8 DEF ActivateWait, Activating, IInv, TypeOK
<1> QED
    BY <1>1, <1>2, <1>3, <1>4, <1>5, <1>6, <1>7, <1>8
    DEF Next, Step, DeprecateWait, DeadlockVictim, Commit, Rollback

(***************************************************************************)
(* When no transaction of ActivateVersion can go on, some of them hold     *)
(* each other's rows, so that PostgreSQL's deadlock detector has a victim: *)
(* nobody waits for a lock that a finished call has left behind.           *)
(***************************************************************************)
THEOREM StuckOnlyInDeadlock == Spec => []StuckIsDeadlock
<1>1. Init => HolderInv /\ WaitInv
    BY DEF Init, HolderInv, WaitInv
<1>2. IInv /\ HolderInv /\ WaitInv => StuckIsDeadlock
    <2> SUFFICES ASSUME IInv, HolderInv, WaitInv, NEW one \in Sessions, Open(one),
                        \A s \in Sessions : ~CanGo(s)
                 PROVE  \E S \in SUBSET Sessions : S # {} /\ Deadlocked(S)
        BY DEF StuckIsDeadlock
    <2> DEFINE S == {s \in Sessions : Open(s)}
    <2>1. ASSUME NEW s \in S
          PROVE  wait[s] # NoVersion /\ holder[wait[s]] \in S
        <3>1. pc[s] = "deprecate"
            BY <2>1 DEF CanGo, IInv, TypeOK, Open
        <3>2. \E w \in Versions : ~MayLock(s, w) /\ (w \in todo[s] \/ (todo[s] = {} /\ w = target[s]))
            BY <2>1, <3>1 DEF CanGo, Activating, IInv, TypeOK, Open
        <3>3. wait[s] # NoVersion
            BY <3>2 DEF MayLock, CanLock
        <3>4. wait[s] \in Versions /\ ~MayLock(s, wait[s])
            BY <2>1, <3>1, <3>3 DEF CanGo, Activating, WaitInv, IInv, TypeOK, Open
        <3>5. holder[wait[s]] \in Sessions
            BY <3>4 DEF MayLock, CanLock, IInv, TypeOK
        <3> QED
            BY <3>3, <3>4, <3>5, StoreAssumption DEF HolderInv
    <2>2. S \in SUBSET Sessions /\ S # {} /\ Deadlocked(S)
        BY <2>1 DEF Deadlocked
    <2> QED
        BY <2>2
<1>3. IInv /\ HolderInv /\ WaitInv /\ [Next]_vars => HolderInv' /\ WaitInv'
    BY LocksStep
<1> QED
    BY <1>1, <1>2, <1>3, IInvHolds, PTL DEF Spec
=============================================================================
