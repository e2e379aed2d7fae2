---------------------------- MODULE ContractStore ----------------------------
(***************************************************************************)
(* The contract_versions table and the operations of ContractStore that    *)
(* write it.  CreateVersion is one autocommitted INSERT.  ActivateVersion  *)
(* is a transaction of two UPDATEs: the first deprecates the ACTIVE rows   *)
(* of the contract other than the target, the second makes the target      *)
(* ACTIVE.  The pool opens transactions at PostgreSQL's default isolation, *)
(* READ COMMITTED, so the model gives each UPDATE its own snapshot, takes  *)
(* row locks one row at a time, and re-reads a row after waiting for it.   *)
(*                                                                         *)
(* One Begin .. Commit/Rollback of a session is one call of                *)
(* ActivateVersion.  A crash of the service or of the database is a        *)
(* Rollback of every open session, in any order.                           *)
(***************************************************************************)
EXTENDS Integers, FiniteSets

CONSTANTS
    Contracts,       \* rows of the table contracts
    MaxVersions,     \* bound: rows of contract_versions ever created
    ContractOf,      \* the contract_id of each version
    TopicOf,         \* the topic of each contract (not unique in init.sql)
    Topics,
    Sessions,        \* database sessions, each running one activation at a time
    CreateStatuses,  \* the v.Status callers pass to CreateVersion
    StrictCallers,   \* TRUE: activations name an existing version of the contract
    NoVersion, NoSession, NoContract

Statuses == {"DRAFT", "PENDING_APPROVAL", "ACTIVE", "DEPRECATED"}
Absent == "ABSENT"       \* no row with this id
Unwritten == "UNWRITTEN" \* the transaction has not written this row

\* Row ids are opaque, so a row is named by its rank in created_at order.
Versions == 1 .. MaxVersions

ASSUME StoreAssumption ==
    /\ MaxVersions \in Nat
    /\ ContractOf \in [Versions -> Contracts]
    /\ TopicOf \in [Contracts -> Topics]
    /\ CreateStatuses \subseteq Statuses
    /\ StrictCallers \in BOOLEAN
    /\ NoVersion \notin Versions
    /\ NoSession \notin Sessions
    /\ NoContract \notin Contracts

VARIABLES
    status,     \* committed status of each row
    pc,         \* where each session's transaction stands
    contract,   \* contractID of the session's call
    target,     \* versionID of the session's call
    todo,       \* rows of the first UPDATE's snapshot still to visit
    wait,       \* the row whose lock the session waits for
    writes,     \* uncommitted row values of each session
    holder,     \* the session holding each row's lock
    saw,        \* history: rows in the snapshot of the first UPDATE
    overlapped, \* history: sessions whose call met another on its contract
    everActive  \* history: contracts that have had an ACTIVE version

session == <<pc, contract, target, todo, wait, writes>>
history == <<saw, overlapped, everActive>>
vars    == <<status, session, holder, history>>

Open(s) == pc[s] # "idle"
ActiveOf(c) == {v \in Versions : ContractOf[v] = c /\ status[v] = "ACTIVE"}
ActiveOn(topic) == UNION {ActiveOf(c) : c \in {d \in Contracts : TopicOf[d] = topic}}

(***************************************************************************)
(* Reads: SELECT ... ORDER BY created_at DESC LIMIT 1.                     *)
(***************************************************************************)
Newest(S) == IF S = {} THEN NoVersion
             ELSE CHOOSE v \in S : \A w \in S : w <= v

GetActiveVersion(topic) == Newest(ActiveOn(topic))
GetLatestVersion(c) == Newest({v \in Versions : ContractOf[v] = c /\ status[v] # Absent})

-----------------------------------------------------------------------------
Init ==
    /\ status = [v \in Versions |-> Absent]
    /\ pc = [s \in Sessions |-> "idle"]
    /\ contract = [s \in Sessions |-> NoContract]
    /\ target = [s \in Sessions |-> NoVersion]
    /\ todo = [s \in Sessions |-> {}]
    /\ wait = [s \in Sessions |-> NoVersion]
    /\ writes = [s \in Sessions |-> [v \in Versions |-> Unwritten]]
    /\ holder = [v \in Versions |-> NoSession]
    /\ saw = [s \in Sessions |-> {}]
    /\ overlapped = {}
    /\ everActive = {}

(***************************************************************************)
(* CreateVersion inserts the row with the status its caller chose.         *)
(***************************************************************************)
CreateVersion(v, st) ==
    /\ status[v] = Absent
    /\ \A w \in 1 .. v - 1 : status[w] # Absent
    /\ status' = [status EXCEPT ![v] = st]
    /\ everActive' = IF st = "ACTIVE" THEN everActive \cup {ContractOf[v]} ELSE everActive
    /\ UNCHANGED <<session, holder, saw, overlapped>>

(***************************************************************************)
(* The rows the first UPDATE finds in its snapshot:                        *)
(*   contract_id = $1 AND status = 'ACTIVE' AND id != $2.                  *)
(***************************************************************************)
\* Mutants: the WHERE clause without contract_id; only the newest ACTIVE row.
MatchingForgetsContract(c, v) == {w \in Versions : status[w] = "ACTIVE" /\ w # v}
MatchingOnlyNewest(c, v) == {Newest(ActiveOf(c))} \ {v, NoVersion}

Matching(c, v) == ActiveOf(c) \ {v}

(***************************************************************************)
(* ActivateVersion: begin the transaction and take the first UPDATE's      *)
(* snapshot (nothing is read in between, so they are one step).            *)
(***************************************************************************)
Begin(s, c, v) ==
    /\ ~Open(s)
    /\ StrictCallers => ContractOf[v] = c /\ status[v] # Absent
    /\ pc' = [pc EXCEPT ![s] = "deprecate"]
    /\ contract' = [contract EXCEPT ![s] = c]
    /\ target' = [target EXCEPT ![s] = v]
    /\ todo' = [todo EXCEPT ![s] = Matching(c, v)]
    /\ saw' = [saw EXCEPT ![s] = Matching(c, v)]
    /\ LET rivals == {t \in Sessions : Open(t) /\ contract[t] = c}
       IN overlapped' = IF rivals = {} THEN overlapped \ {s}
                        ELSE overlapped \cup rivals \cup {s}
    /\ UNCHANGED <<status, wait, writes, holder, everActive>>

(***************************************************************************)
(* A statement that reaches a row locked by another transaction waits.     *)
(***************************************************************************)
WaitForRow(s, w) ==
    /\ wait[s] = NoVersion
    /\ holder[w] \notin {NoSession, s}
    /\ wait' = [wait EXCEPT ![s] = w]
    /\ UNCHANGED <<status, pc, contract, target, todo, writes, holder, history>>

\* May the session lock row w now?
CanLock(s, w) == wait[s] \in {NoVersion, w} /\ holder[w] \in {NoSession, s}

(***************************************************************************)
(* The first UPDATE visits one row: it locks it, reads its latest          *)
(* committed state, and deprecates it if the WHERE clause still holds.     *)
(* The lock is kept even if it does not.                                   *)
(***************************************************************************)
\* Mutant: a row that no longer matches is skipped without keeping its lock.
DeprecateRowUnlocked(s, w) ==
    /\ pc[s] = "deprecate" /\ w \in todo[s] /\ CanLock(s, w)
    /\ todo' = [todo EXCEPT ![s] = @ \ {w}]
    /\ wait' = [wait EXCEPT ![s] = NoVersion]
    /\ holder' = IF status[w] = "ACTIVE" THEN [holder EXCEPT ![w] = s] ELSE holder
    /\ writes' = [writes EXCEPT ![s][w] = IF status[w] = "ACTIVE" THEN "DEPRECATED" ELSE @]
    /\ UNCHANGED <<status, pc, contract, target, history>>

DeprecateRow(s, w) ==
    /\ pc[s] = "deprecate" /\ w \in todo[s] /\ CanLock(s, w)
    /\ todo' = [todo EXCEPT ![s] = @ \ {w}]
    /\ wait' = [wait EXCEPT ![s] = NoVersion]
    /\ holder' = [holder EXCEPT ![w] = s]
    /\ writes' = [writes EXCEPT ![s][w] = IF status[w] = "ACTIVE" THEN "DEPRECATED" ELSE @]
    /\ UNCHANGED <<status, pc, contract, target, history>>

DeprecateWait(s, w) == pc[s] = "deprecate" /\ w \in todo[s] /\ WaitForRow(s, w)

(***************************************************************************)
(* The second UPDATE: WHERE id = $1 alone.  When no row has that id it     *)
(* updates nothing and reports no error.                                   *)
(***************************************************************************)
Activating(s) == pc[s] = "deprecate" /\ todo[s] = {}

ActivateRow(s) ==
    /\ Activating(s)
    /\ IF status[target[s]] = Absent
       THEN UNCHANGED <<wait, holder, writes>>
       ELSE /\ CanLock(s, target[s])
            /\ wait' = [wait EXCEPT ![s] = NoVersion]
            /\ holder' = [holder EXCEPT ![target[s]] = s]
            /\ writes' = [writes EXCEPT ![s][target[s]] = "ACTIVE"]
    /\ pc' = [pc EXCEPT ![s] = "commit"]
    /\ UNCHANGED <<status, contract, target, todo, history>>

ActivateWait(s) == Activating(s) /\ WaitForRow(s, target[s])

-----------------------------------------------------------------------------
\* The transaction ends: its locks, its snapshot and its writes are gone.
Release(s) ==
    /\ pc' = [pc EXCEPT ![s] = "idle"]
    /\ contract' = [contract EXCEPT ![s] = NoContract]
    /\ target' = [target EXCEPT ![s] = NoVersion]
    /\ todo' = [todo EXCEPT ![s] = {}]
    /\ wait' = [wait EXCEPT ![s] = NoVersion]
    /\ writes' = [writes EXCEPT ![s] = [v \in Versions |-> Unwritten]]
    /\ holder' = [v \in Versions |-> IF holder[v] = s THEN NoSession ELSE holder[v]]
    /\ saw' = [saw EXCEPT ![s] = {}]

\* Mutant: every column of the transaction's image is stored, written or not.
CommitEveryRow(s) ==
    /\ pc[s] = "commit"
    /\ status' = writes[s]
    /\ everActive' = everActive
    /\ Release(s)
    /\ UNCHANGED overlapped

Commit(s) ==
    /\ pc[s] = "commit"
    /\ status' = [v \in Versions |->
                    IF writes[s][v] = Unwritten THEN status[v] ELSE writes[s][v]]
    /\ everActive' = everActive \cup
           {ContractOf[v] : v \in {w \in Versions : writes[s][w] = "ACTIVE"}}
    /\ Release(s)
    /\ UNCHANGED overlapped

(***************************************************************************)
(* An Exec or the Commit returns an error (context cancelled, connection   *)
(* lost, process or database down): the deferred tx.Rollback runs, or      *)
(* PostgreSQL aborts the transaction of the lost session.                  *)
(***************************************************************************)
\* Mutant: without the deferred Rollback the pooled session keeps its locks.
RollbackForgotten(s) ==
    /\ Open(s)
    /\ pc' = [pc EXCEPT ![s] = "idle"]
    /\ todo' = [todo EXCEPT ![s] = {}]
    /\ wait' = [wait EXCEPT ![s] = NoVersion]
    /\ UNCHANGED <<status, contract, target, writes, holder, history>>

Rollback(s) ==
    /\ Open(s)
    /\ Release(s)
    /\ UNCHANGED <<status, overlapped, everActive>>

\* A set of sessions each waiting for a row that another of them holds.
Deadlocked(S) == \A s \in S : wait[s] # NoVersion /\ holder[wait[s]] \in S

\* PostgreSQL's deadlock detector aborts one session of a cycle.
DeadlockVictim(s) ==
    /\ \E S \in SUBSET Sessions : s \in S /\ Deadlocked(S)
    /\ Rollback(s)

Step(s) ==
    \/ \E w \in Versions : DeprecateRow(s, w)
    \/ \E w \in Versions : DeprecateWait(s, w)
    \/ ActivateRow(s)
    \/ ActivateWait(s)
    \/ Commit(s)

Next ==
    \/ \E v \in Versions, st \in CreateStatuses : CreateVersion(v, st)
    \/ \E s \in Sessions, c \in Contracts, v \in Versions : Begin(s, c, v)
    \/ \E s \in Sessions : Step(s)
    \/ \E s \in Sessions : Rollback(s)
    \/ \E s \in Sessions : DeadlockVictim(s)

(***************************************************************************)
(* PostgreSQL runs every statement it was given and detects deadlocks.     *)
(* Waiters for a row queue on its tuple lock, so a session is not          *)
(* overtaken for ever (strong fairness of the two locking steps).  Nothing *)
(* obliges callers to create or to activate, or a statement to fail.       *)
(***************************************************************************)
Fairness ==
    \A s \in Sessions :
        /\ WF_vars(Step(s))
        /\ SF_vars(\E w \in Versions : DeprecateRow(s, w))
        /\ SF_vars(ActivateRow(s))
        /\ WF_vars(DeadlockVictim(s))

Spec == Init /\ [][Next]_vars
FairSpec == Spec /\ Fairness

-----------------------------------------------------------------------------
TypeOK ==
    /\ status \in [Versions -> Statuses \cup {Absent}]
    /\ pc \in [Sessions -> {"idle", "deprecate", "commit"}]
    /\ contract \in [Sessions -> Contracts \cup {NoContract}]
    /\ target \in [Sessions -> Versions \cup {NoVersion}]
    /\ \A s \in Sessions : Open(s) => target[s] \in Versions
    /\ todo \in [Sessions -> SUBSET Versions]
    /\ wait \in [Sessions -> Versions \cup {NoVersion}]
    /\ writes \in [Sessions -> [Versions -> {Unwritten, "ACTIVE", "DEPRECATED"}]]
    /\ holder \in [Versions -> Sessions \cup {NoSession}]
    /\ saw \in [Sessions -> SUBSET Versions]
    /\ overlapped \subseteq Sessions
    /\ everActive \subseteq Contracts

(***************************************************************************)
(* "We do this atomically to prevent a window where a topic has no active  *)
(* contract" (ActivateVersion): once a contract has had an ACTIVE version, *)
(* every committed state has one, whatever activations race and wherever   *)
(* one of them fails, deadlocks or is cut off.                             *)
(***************************************************************************)
NoActiveGap == \A c \in everActive : ActiveOf(c) # {}

(***************************************************************************)
(* An activation supersedes every version that was ACTIVE when its first   *)
(* UPDATE looked, even one that another transaction deprecated and put     *)
(* back, or is about to put back, in the meantime.                         *)
(***************************************************************************)
SupersedesWhatItSaw ==
    [][\A s \in Sessions :
         Commit(s) => \A w \in saw[s] : status'[w] # "ACTIVE"]_vars

(***************************************************************************)
(* "deprecates any previously active version": an activation that met no   *)
(* other on its contract leaves its target the only ACTIVE version, even   *)
(* when earlier races had left several.                                    *)
(***************************************************************************)
SoloActivationIsExclusive ==
    [][\A s \in Sessions :
         Commit(s) /\ s \notin overlapped
             => {v \in Versions : ContractOf[v] = contract[s] /\ status'[v] = "ACTIVE"}
                  = {target[s]}]_vars

\* The rows that ListActiveVersions lists and GetActiveVersion chooses from.
Plane == INSTANCE ControlPlane WITH active <- [t \in Topics |-> ActiveOn(t)]

(***************************************************************************)
(* GetActiveVersion and ListActiveVersions show their callers what the     *)
(* caches and the SDK take for granted: a transaction changes the ACTIVE   *)
(* rows of one topic only, and a topic that had one is never without, so   *)
(* it is never "not found" again and never missing from the list.          *)
(***************************************************************************)
ServesLikeControlPlane == Plane!PlaneSpec

(***************************************************************************)
(* Every call of ActivateVersion returns: row locks taken in opposite      *)
(* orders cost one of the callers an error, and nobody waits for ever.     *)
(***************************************************************************)
CallsReturn == \A s \in Sessions : Open(s) ~> ~Open(s)

(***************************************************************************)
(* What "deprecates any previously active version for the same contract"   *)
(* claims of concurrent activations too, and GetActiveVersion relies on    *)
(* ("the currently ACTIVE contract version").                              *)
(***************************************************************************)
AtMostOneActive == \A c \in Contracts : Cardinality(ActiveOf(c)) <= 1
=============================================================================
