---------------------------- MODULE LineageWorker ----------------------------
(***************************************************************************)
(* The lineage workers: a Kafka consumer group whose members turn each     *)
(* message into an event for Marquez and commit offsets by hand.  The      *)
(* group coordinator hands partitions out, takes them back in poll(), and  *)
(* may evict a worker that lives on; workers stop on a signal or crash.    *)
(*                                                                         *)
(* A message is an "event" (a lineage event is sent), "unparsable" (a      *)
(* violation record that is no JSON, dropped) or "poison" (its handler     *)
(* raises).  Message o of a partition is the one at offset o, from 0.      *)
(* The partitions hold all their messages from the start: to a worker, a   *)
(* message it has not polled yet is one that was not produced yet.         *)
(***************************************************************************)
EXTENDS Integers, Sequences, FiniteSets

CONSTANTS
    Workers, Partitions,
    CommitInterval,   \* kafka_commit_interval
    Logs,             \* what the partitions may hold
    MarquezMayFail,   \* may a post go unrecorded?  No worker can tell.
    MaxFaults,        \* bound: signals, crashes, evictions and rebalances
    NoPartition

Kinds == {"event", "unparsable", "poison"}

ASSUME LineageAssumption ==
    /\ CommitInterval \in Nat \ {0}
    /\ Logs \subseteq [Partitions -> Seq(Kinds)]
    /\ MarquezMayFail \in BOOLEAN
    /\ MaxFaults \in Nat
    /\ NoPartition \notin Partitions

Phases == {"down", "polling", "handling", "counting", "committing"}

VARIABLES
    log,            \* each partition
    committed,      \* the group's offset in each partition
    recorded,       \* messages whose event Marquez has
    handled,        \* messages some worker has dealt with, in whatever way
    phase,          \* where each worker's run() is
    running,        \* its _running
    member,         \* does the coordinator accept its generation?
    assigned,       \* the partitions it works on
    position,       \* the next offset poll() will return to it
    current,        \* the partition of the message in hand
    since,          \* _messages_since_commit
    faults,
    commitFailed    \* has a commit ever raised?

group == <<committed, member, assigned>>
worker == <<phase, running, position, current, since>>
marquez == <<recorded, handled>>
vars == <<log, group, worker, marquez, faults, commitFailed>>

Free(p) == ~\E w \in Workers : member[w] /\ p \in assigned[w]
InHand(w) == <<current[w], position[w][current[w]] - 1>>
KindOf(w) == log[current[w]][position[w][current[w]]]

Nowhere == [p \in Partitions |-> 0]

Init ==
    /\ log \in Logs
    /\ committed = [p \in Partitions |-> 0]
    /\ recorded = {} /\ handled = {}
    /\ phase = [w \in Workers |-> "down"]
    /\ running = [w \in Workers |-> FALSE]
    /\ member = [w \in Workers |-> FALSE]
    /\ assigned = [w \in Workers |-> {}]
    /\ position = [w \in Workers |-> Nowhere]
    /\ current = [w \in Workers |-> NoPartition]
    /\ since = [w \in Workers |-> 0]
    /\ faults = 0
    /\ commitFailed = FALSE

Fault == faults < MaxFaults /\ faults' = faults + 1

-----------------------------------------------------------------------------
(* Processes and the group.                                                *)

\* A new process under the old name; its predecessor's membership has ended.
Start(w) ==
    /\ phase[w] = "down" /\ ~member[w]
    /\ phase' = [phase EXCEPT ![w] = "polling"]
    /\ running' = [running EXCEPT ![w] = TRUE]
    /\ assigned' = [assigned EXCEPT ![w] = {}]
    /\ UNCHANGED <<log, committed, member, position, current, since, marquez, faults,
                   commitFailed>>

\* SIGTERM or SIGINT, at any moment.
Signal(w) ==
    /\ phase[w] # "down" /\ running[w] /\ Fault
    /\ running' = [running EXCEPT ![w] = FALSE]
    /\ UNCHANGED <<log, group, phase, position, current, since, marquez, commitFailed>>

\* Its membership lasts until the coordinator notices.
Crash(w) ==
    /\ phase[w] # "down" /\ Fault
    /\ phase' = [phase EXCEPT ![w] = "down"]
    /\ running' = [running EXCEPT ![w] = FALSE]
    /\ current' = [current EXCEPT ![w] = NoPartition]
    /\ since' = [since EXCEPT ![w] = 0]
    /\ position' = [position EXCEPT ![w] = Nowhere]
    /\ UNCHANGED <<log, group, marquez, commitFailed>>

\* The session of a dead worker expires.
Expire(w) ==
    /\ phase[w] = "down" /\ member[w]
    /\ member' = [member EXCEPT ![w] = FALSE]
    /\ assigned' = [assigned EXCEPT ![w] = {}]
    /\ UNCHANGED <<log, committed, worker, marquez, faults, commitFailed>>

\* The session of a live worker expires: it goes on with partitions that are
\* no longer its own until poll() tells it.
Evict(w) ==
    /\ phase[w] # "down" /\ member[w] /\ Fault
    /\ member' = [member EXCEPT ![w] = FALSE]
    /\ UNCHANGED <<log, committed, assigned, worker, marquez, commitFailed>>

\* Mutant: every assignment starts from the beginning of the partition.
StartAtBeginning(p) == 0

\* auto.offset.reset = earliest.
StartAt(p) == committed[p]

Assign(w, S) ==
    /\ phase[w] = "polling" /\ running[w]
    /\ member[w] \/ assigned[w] = {}
    /\ S # {} /\ \A p \in S : Free(p)
    /\ member' = [member EXCEPT ![w] = TRUE]
    /\ assigned' = [assigned EXCEPT ![w] = @ \cup S]
    /\ position' = [position EXCEPT ![w] =
                      [p \in Partitions |-> IF p \in S THEN StartAt(p) ELSE @[p]]]
    /\ UNCHANGED <<log, committed, phase, running, current, since, marquez, faults, commitFailed>>

-----------------------------------------------------------------------------
(* _commit: the offsets of everything polled so far, if the coordinator    *)
(* still accepts the worker's generation.  An error leaves the count; the  *)
(* offsets may have been stored all the same.                              *)

Advanced(w) == [p \in Partitions |-> IF p \in assigned[w] THEN position[w][p] ELSE committed[p]]

CommitOk(w) ==
    /\ member[w]
    /\ committed' = Advanced(w)
    /\ since' = [since EXCEPT ![w] = 0]
    /\ UNCHANGED commitFailed

CommitRaises(w) ==
    /\ committed' \in IF member[w] THEN {committed, Advanced(w)} ELSE {committed}
    /\ commitFailed' = TRUE
    /\ UNCHANGED since

CommitCall(w) == CommitOk(w) \/ CommitRaises(w)

\* _on_revoke, inside poll(): a rebalance, or the news of an eviction.
Revoked(w) ==
    /\ phase[w] = "polling" /\ assigned[w] # {}
    /\ IF member[w] THEN Fault ELSE UNCHANGED faults
    /\ CommitCall(w)
    /\ assigned' = [assigned EXCEPT ![w] = {}]
    /\ member' = [member EXCEPT ![w] = FALSE]
    /\ position' = [position EXCEPT ![w] = Nowhere]
    /\ UNCHANGED <<log, phase, running, current, marquez>>

\* The loop ends: a last commit, close() leaves the group, run() returns.
Close(w) ==
    /\ phase[w] = "polling" /\ ~running[w]
    /\ \/ member[w] /\ committed' \in {committed, Advanced(w)}
       \/ ~member[w] /\ UNCHANGED committed
    /\ phase' = [phase EXCEPT ![w] = "down"]
    /\ assigned' = [assigned EXCEPT ![w] = {}]
    /\ member' = [member EXCEPT ![w] = FALSE]
    /\ since' = [since EXCEPT ![w] = 0]
    /\ position' = [position EXCEPT ![w] = Nowhere]
    /\ UNCHANGED <<log, running, current, marquez, faults, commitFailed>>

-----------------------------------------------------------------------------
(* The loop.                                                               *)

\* Mutant: enable.auto.commit commits what poll() returns.
PollAutoCommits(w, p) ==
    /\ phase[w] = "polling" /\ running[w]
    /\ p \in assigned[w] /\ position[w][p] < Len(log[p])
    /\ position' = [position EXCEPT ![w][p] = @ + 1]
    /\ committed' = IF member[w] THEN [committed EXCEPT ![p] = position[w][p] + 1]
                                 ELSE committed
    /\ current' = [current EXCEPT ![w] = p]
    /\ phase' = [phase EXCEPT ![w] = "handling"]
    /\ UNCHANGED <<log, member, assigned, running, since, marquez, faults, commitFailed>>

Poll(w, p) ==
    /\ phase[w] = "polling" /\ running[w]
    /\ p \in assigned[w] /\ position[w][p] < Len(log[p])
    /\ position' = [position EXCEPT ![w][p] = @ + 1]
    /\ current' = [current EXCEPT ![w] = p]
    /\ phase' = [phase EXCEPT ![w] = "handling"]
    /\ UNCHANGED <<log, group, running, since, marquez, faults, commitFailed>>

\* Mutant: the event is left to a thread, which a crash may end too early.
EmitInBackground(w) ==
    /\ phase[w] = "handling" /\ KindOf(w) = "event"
    /\ recorded' \in {recorded, recorded \cup {InHand(w)}}
    /\ handled' = handled \cup {InHand(w)}
    /\ phase' = [phase EXCEPT ![w] = "counting"]
    /\ UNCHANGED <<log, group, running, position, current, since, faults, commitFailed>>

\* _send swallows every failure: Marquez may be down, or may have recorded
\* the event although the answer did not arrive.
Emit(w) ==
    /\ phase[w] = "handling" /\ KindOf(w) = "event"
    /\ \/ recorded' = recorded \cup {InHand(w)}
       \/ MarquezMayFail /\ UNCHANGED recorded
    /\ handled' = handled \cup {InHand(w)}
    /\ phase' = [phase EXCEPT ![w] = "counting"]
    /\ UNCHANGED <<log, group, running, position, current, since, faults, commitFailed>>

Drop(w) ==
    /\ phase[w] = "handling" /\ KindOf(w) = "unparsable"
    /\ handled' = handled \cup {InHand(w)}
    /\ phase' = [phase EXCEPT ![w] = "counting"]
    /\ UNCHANGED <<log, group, running, position, current, since, recorded, faults, commitFailed>>

FailAndSeekTo(w, o) ==
    /\ phase[w] = "handling" /\ KindOf(w) = "poison"
    /\ position' = [position EXCEPT ![w][current[w]] = o]
    /\ phase' = [phase EXCEPT ![w] = "polling"]
    /\ current' = [current EXCEPT ![w] = NoPartition]
    /\ UNCHANGED <<log, group, running, since, marquez, faults, commitFailed>>

\* Mutant: a message whose handler raised is polled again.
FailAndSeek(w) == FailAndSeekTo(w, position[w][current[w]] - 1)

\* Mutant: it seeks to Kafka's OFFSET_END, and a position is no offset any more.
FailAndSeekEnd(w) == FailAndSeekTo(w, -1)

\* The exception is logged and the message is not counted.
FailMessage(w) ==
    /\ phase[w] = "handling" /\ KindOf(w) = "poison"
    /\ handled' = handled \cup {InHand(w)}
    /\ phase' = [phase EXCEPT ![w] = "polling"]
    /\ current' = [current EXCEPT ![w] = NoPartition]
    /\ UNCHANGED <<log, group, running, position, since, recorded, faults, commitFailed>>

\* Mutant: the commit comes one message late.
CommitDueLate(n) == n > CommitInterval

CommitDue(n) == n >= CommitInterval

Count(w) ==
    /\ phase[w] = "counting"
    /\ since' = [since EXCEPT ![w] = @ + 1]
    /\ phase' = [phase EXCEPT ![w] = IF CommitDue(since[w] + 1) THEN "committing" ELSE "polling"]
    /\ current' = [current EXCEPT ![w] = NoPartition]
    /\ UNCHANGED <<log, group, running, position, marquez, faults, commitFailed>>

Commit(w) ==
    /\ phase[w] = "committing"
    /\ CommitCall(w)
    /\ phase' = [phase EXCEPT ![w] = "polling"]
    /\ UNCHANGED <<log, member, assigned, running, position, current, marquez, faults>>

Loop(w) ==
    \/ Emit(w) \/ Drop(w) \/ FailMessage(w) \/ Count(w) \/ Commit(w) \/ Close(w)
    \/ \E p \in Partitions : Poll(w, p)

Next ==
    \E w \in Workers :
        \/ Start(w) \/ Signal(w) \/ Crash(w) \/ Expire(w) \/ Evict(w) \/ Revoked(w) \/ Loop(w)
        \/ \E S \in SUBSET Partitions : Assign(w, S)

(***************************************************************************)
(* A worker that lives runs on (its requests time out), Kubernetes         *)
(* restarts one that ended, the coordinator lets dead sessions expire,     *)
(* tells a worker that it was evicted, and hands free partitions out.      *)
(* Nothing says that a commit ever succeeds or that Marquez is up.         *)
(***************************************************************************)
Fairness ==
    /\ \A w \in Workers :
         /\ WF_vars(Loop(w)) /\ WF_vars(Start(w)) /\ WF_vars(Expire(w))
         /\ WF_vars(~member[w] /\ Revoked(w))
    /\ WF_vars(\E w \in Workers, S \in SUBSET Partitions : Assign(w, S))

Spec == Init /\ [][Next]_vars
FairSpec == Spec /\ Fairness

-----------------------------------------------------------------------------
Messages == Partitions \X Nat

TypeOK ==
    /\ log \in [Partitions -> Seq(Kinds)]
    /\ committed \in [Partitions -> Nat]
    /\ recorded \subseteq handled /\ handled \subseteq Messages
    /\ phase \in [Workers -> Phases]
    /\ running \in [Workers -> BOOLEAN]
    /\ member \in [Workers -> BOOLEAN]
    /\ assigned \in [Workers -> SUBSET Partitions]
    /\ position \in [Workers -> [Partitions -> Nat]]
    /\ current \in [Workers -> Partitions \cup {NoPartition}]
    /\ since \in [Workers -> Nat]
    /\ faults \in Nat
    /\ commitFailed \in BOOLEAN

(***************************************************************************)
(* "A worker crash before commit means messages are reprocessed on         *)
(* restart": whatever crashes, evictions, rebalances and failed commits    *)
(* come together, the group's offset never passes a message that no worker *)
(* has dealt with.                                                         *)
(***************************************************************************)
CommittedWasHandled ==
    \A p \in Partitions : \A o \in 0 .. committed[p] - 1 : <<p, o>> \in handled

(***************************************************************************)
(* A worker that was evicted and works on, or restarts, never drags the    *)
(* group's offset back behind what another worker has committed.           *)
(***************************************************************************)
CommittedNeverRegresses ==
    [][\A p \in Partitions : committed'[p] >= committed[p]]_vars

(***************************************************************************)
(* "Higher values improve throughput but increase reprocessing on restart" *)
(* (kafka_commit_interval): while commits succeed, at most CommitInterval  *)
(* of a worker's messages would be emitted again after a crash, across all *)
(* its partitions and however often partitions moved.                      *)
(***************************************************************************)
Offsets == UNION {0 .. Len(log[p]) - 1 : p \in Partitions}

ToRedo(w) ==
    {m \in assigned[w] \X Offsets :
       /\ committed[m[1]] <= m[2] /\ m[2] < position[w][m[1]]
       /\ log[m[1]][m[2] + 1] # "poison"}

RedoBounded ==
    \A w \in Workers : ~commitFailed => Cardinality(ToRedo(w)) <= CommitInterval

(***************************************************************************)
(* Every message is dealt with in the end: poison, lost commits, a Marquez *)
(* outage and rebalances delay a partition but never block it.             *)
(***************************************************************************)
EveryMessageHandled ==
    \A p \in Partitions : <>(\A o \in 0 .. Len(log[p]) - 1 : <<p, o>> \in handled)

(***************************************************************************)
(* "We use manual offset commit after successful processing to ensure      *)
(* at-least-once delivery semantics": an event whose offset is committed   *)
(* has reached Marquez.  This is so only while no post goes unrecorded:    *)
(* _send counts a failure as a success.                                    *)
(***************************************************************************)
CommittedWasRecorded ==
    \A p \in Partitions : \A o \in 0 .. committed[p] - 1 :
        log[p][o + 1] = "event" => <<p, o>> \in recorded

RecordedWhileMarquezAnswers == ~MarquezMayFail => CommittedWasRecorded
=============================================================================
