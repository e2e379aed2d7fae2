------------------------------ MODULE Analyzer ------------------------------
(***************************************************************************)
(* The blast-radius analyzer: POST /v1/blast-radius with its report cache, *)
(* the request to Marquez, and the breadth-first search of the graph the   *)
(* reply describes.  The handler is a coroutine that never awaits, so the  *)
(* service works on one request at a time, and none sees another half way. *)
(*                                                                         *)
(* Time is kept as ages (see ContractCache).  Only the request to Marquez  *)
(* takes time; building, searching and scoring take less than a tick.      *)
(***************************************************************************)
EXTENDS BlastRadius, Integers, Sequences

CONSTANTS
    Graphs,        \* the graphs that Marquez's replies may describe
    Worlds,        \* sets of graphs: those one history of Marquez shows
    Changes,       \* the sets of changed fields that requests name
    MaxDepth,      \* max_traversal_depth
    TTL,           \* report_cache_ttl_seconds, in ticks
    FetchTimeout,  \* how long the request to Marquez may take
    Outage,
    Unknown,       \* before the first thing Marquez does
    NoEntry, NoAnswer

Bound == TTL + FetchTimeout
Never == Bound + 1  \* "has not been shown yet"

\* What Marquez does for a topic: it answers with a graph, or not (in time).
Replies == Graphs \cup {Outage}
Keys == Topics \X Changes

Consumer == [node : Nodes, depth : 0 .. MaxDepth, affected : SUBSET Fields,
             impact : {"CRITICAL", "HIGH", "MEDIUM"}]
Reports == [consumers : SUBSET Consumer, approvals : SUBSET Teams]

\* from is history: the reply the report was made of.
Entry == [from : Replies, report : Reports, age : 0 .. TTL]
Answers == [topic : Topics, how : {"fresh", "error"}, from : Replies, report : Reports]

ASSUME AnalyzerAssumption ==
    /\ Graphs \subseteq Graph
    /\ Worlds \subseteq SUBSET Graphs
    /\ Changes \subseteq SUBSET Fields
    /\ MaxDepth \in Nat /\ TTL \in Nat \ {0} /\ FetchTimeout \in Nat \ {0}
    /\ Outage \notin Graphs /\ Unknown \notin Replies
    /\ NoEntry \notin Entry
    /\ NoAnswer \notin Answers

VARIABLES
    world,    \* the graphs of this history
    shown,    \* what Marquez does now, for each topic
    idleFor,  \* ticks since it last did each other thing, counted up to Bound
    cache,    \* _cache
    phase,    \* "idle", "sent", "served", "searching" or "found"
    key,      \* the request's topic and changed fields
    elapsed,  \* how long the request to Marquez has been out
    resp,     \* its reply
    visited, depth, queue,  \* find_reachable's; depth of what is visited
    answer    \* what the service answered last

marquez == <<world, shown, idleFor>>
search == <<visited, depth, queue>>
vars == <<marquez, cache, phase, key, elapsed, resp, search, answer>>

Topic == key[1]
Changed == key[2]
Unsearched == [n \in Nodes |-> 0]

Init ==
    /\ world \in Worlds
    /\ shown = [t \in Topics |-> Unknown]
    /\ idleFor = [t \in Topics |-> [g \in Replies |-> Never]]
    /\ cache = [k \in Keys |-> NoEntry]
    /\ phase = "idle"
    /\ key \in Keys
    /\ elapsed = 0
    /\ resp = Outage
    /\ visited = {} /\ depth = Unsearched /\ queue = << >>
    /\ answer = NoAnswer

-----------------------------------------------------------------------------
(* Marquez and the clock.                                                  *)

Shows(t, g) ==
    /\ shown' = [shown EXCEPT ![t] = g]
    /\ idleFor' = [idleFor EXCEPT ![t][g] = 0]
    /\ UNCHANGED world

MarquezShows(t, g) ==
    /\ g \in world \cup {Outage} /\ g # shown[t]
    /\ Shows(t, g)
    /\ UNCHANGED <<cache, phase, key, elapsed, resp, search, answer>>

Waiting == phase \in {"sent", "served"}

\* A timeout that is due fires before the clock moves on.
Tick ==
    /\ phase = "idle" \/ (Waiting /\ elapsed < FetchTimeout)
    /\ idleFor' = [t \in Topics |-> [g \in Replies |->
                     IF g = shown[t] THEN 0
                     ELSE IF idleFor[t][g] < Bound THEN idleFor[t][g] + 1
                     ELSE idleFor[t][g]]]
    /\ cache' = [k \in Keys |->
                   IF cache[k] = NoEntry THEN NoEntry
                   ELSE [cache[k] EXCEPT !.age = IF @ < TTL THEN @ + 1 ELSE @]]
    /\ elapsed' = IF Waiting THEN elapsed + 1 ELSE 0
    /\ UNCHANGED <<world, shown, phase, key, resp, search, answer>>

-----------------------------------------------------------------------------
(* compute_blast_radius.                                                   *)

Answer(t, how, from, report) ==
    answer' = [topic |-> t, how |-> how, from |-> from, report |-> report]

\* Mutant: a report is served whatever its age.
FreshForever(k) == cache[k] # NoEntry

Fresh(k) == cache[k] # NoEntry /\ cache[k].age < TTL

Hit(k) ==
    /\ phase = "idle" /\ Fresh(k)
    /\ Answer(k[1], "fresh", cache[k].from, cache[k].report)
    /\ UNCHANGED <<marquez, cache, phase, key, elapsed, resp, search>>

Miss(k) ==
    /\ phase = "idle" /\ ~Fresh(k)
    /\ phase' = "sent"
    /\ key' = k
    /\ elapsed' = 0
    /\ answer' = NoAnswer
    /\ UNCHANGED <<marquez, cache, resp, search>>

\* Marquez reads its lineage for the topic.
Serve ==
    /\ phase = "sent" /\ shown[Topic] \in Graphs
    /\ phase' = "served"
    /\ resp' = shown[Topic]
    /\ UNCHANGED <<marquez, cache, key, elapsed, search, answer>>

\* An error status, no connection, a lost reply, a timeout: build_for_topic
\* returns the empty graph.  Marquez is out until it shows a graph again.
FetchFails ==
    /\ Waiting
    /\ Shows(Topic, Outage)
    /\ phase' = "found"
    /\ resp' = Outage
    /\ UNCHANGED <<cache, key, elapsed, search, answer>>

\* Mutant: an httpx.Client without timeout.
TimeoutNever == FALSE /\ FetchFails

TimeoutDue == elapsed = FetchTimeout /\ FetchFails

\* The locals go; the next request starts from nothing.
Return ==
    /\ phase' = "idle"
    /\ elapsed' = 0
    /\ resp' = Outage
    /\ visited' = {} /\ depth' = Unsearched /\ queue' = << >>

\* HTTP 500, nothing cached: the reply does not decode or has a node whose
\* list of owners is empty, or the graph has nodes but not the topic.
Fails ==
    /\ phase = "served"
    /\ Answer(Topic, "error", resp, NoLineage)
    /\ Return
    /\ UNCHANGED <<marquez, cache, key>>

NoNodes ==
    /\ phase = "served" /\ NodesOf(resp) = {}
    /\ phase' = "found"
    /\ UNCHANGED <<marquez, cache, key, elapsed, resp, search, answer>>

-----------------------------------------------------------------------------
(* find_reachable: one neighbour at a time.                                *)

StartSearch(s) ==
    /\ phase = "served"
    /\ s \in Sources(resp, Topic)
    /\ phase' = "searching"
    /\ visited' = {s}
    /\ queue' = <<s>>
    /\ UNCHANGED <<marquez, cache, key, elapsed, resp, depth, answer>>

Current == Head(queue)

\* Mutant: the depth test is off by one.
UnvisitedOneMore ==
    IF depth[Current] <= MaxDepth THEN Successors(resp, Current) \ visited ELSE {}

Unvisited == IF depth[Current] < MaxDepth THEN Successors(resp, Current) \ visited ELSE {}

\* Mutant: a neighbour keeps the depth of the node it was found from when
\* that node is not the source.
VisitSameDepth(n) ==
    /\ phase = "searching" /\ queue # << >>
    /\ n \in Unvisited
    /\ visited' = visited \cup {n}
    /\ depth' = [depth EXCEPT ![n] = IF depth[Current] = 0 THEN 1 ELSE depth[Current]]
    /\ queue' = Append(queue, n)
    /\ UNCHANGED <<marquez, cache, phase, key, elapsed, resp, answer>>

\* Mutant: the neighbour is put in front of the queue (depth first).
VisitInFront(n) ==
    /\ phase = "searching" /\ queue # << >>
    /\ n \in Unvisited
    /\ visited' = visited \cup {n}
    /\ depth' = [depth EXCEPT ![n] = depth[Current] + 1]
    /\ queue' = <<n>> \o queue
    /\ UNCHANGED <<marquez, cache, phase, key, elapsed, resp, answer>>

Visit(n) ==
    /\ phase = "searching" /\ queue # << >>
    /\ n \in Unvisited
    /\ visited' = visited \cup {n}
    /\ depth' = [depth EXCEPT ![n] = depth[Current] + 1]
    /\ queue' = Append(queue, n)
    /\ UNCHANGED <<marquez, cache, phase, key, elapsed, resp, answer>>

\* pop(0), once the neighbours of the node in front are all visited.
Leave ==
    /\ phase = "searching" /\ queue # << >>
    /\ Unvisited = {}
    /\ queue' = Tail(queue)
    /\ UNCHANGED <<marquez, cache, phase, key, elapsed, resp, visited, depth, answer>>

EndSearch ==
    /\ phase = "searching" /\ queue = << >>
    /\ phase' = "found"
    /\ UNCHANGED <<marquez, cache, key, elapsed, resp, search, answer>>

Result == IF visited = {} THEN NoLineage ELSE Report(resp, depth, Changed)

\* The report is cached and stamped with the time of its completion.
Assemble ==
    /\ phase = "found"
    /\ cache' = [cache EXCEPT ![key] = [from |-> resp, report |-> Result, age |-> 0]]
    /\ Answer(Topic, "fresh", resp, Result)
    /\ Return
    /\ UNCHANGED <<marquez, key>>

\* The process ends and starts again with an empty cache.
Restart ==
    /\ cache' = [k \in Keys |-> NoEntry]
    /\ Return
    /\ answer' = NoAnswer
    /\ UNCHANGED <<marquez, key>>

Steps == Fails \/ NoNodes \/ Leave \/ EndSearch \/ Assemble \/ \E n \in Nodes : StartSearch(n) \/ Visit(n)

Next ==
    \/ \E t \in Topics, g \in Replies : MarquezShows(t, g)
    \/ Tick
    \/ \E k \in Keys : Hit(k) \/ Miss(k)
    \/ Serve \/ FetchFails
    \/ Steps
    \/ Restart

(***************************************************************************)
(* The service's thread runs, time passes, and the client's timeout fires  *)
(* when it is due; Marquez need not answer.                                *)
(***************************************************************************)
Fairness == WF_vars(Steps) /\ WF_vars(Tick) /\ WF_vars(TimeoutDue)

Spec == Init /\ [][Next]_vars
FairSpec == Spec /\ Fairness

-----------------------------------------------------------------------------
TypeOK ==
    /\ world \in Worlds
    /\ shown \in [Topics -> Replies \cup {Unknown}]
    /\ idleFor \in [Topics -> [Replies -> 0 .. Never]]
    /\ cache \in [Keys -> Entry \cup {NoEntry}]
    /\ phase \in {"idle", "sent", "served", "searching", "found"}
    /\ key \in Keys
    /\ elapsed \in 0 .. FetchTimeout
    /\ resp \in Replies
    /\ visited \subseteq Nodes
    /\ depth \in [Nodes -> 0 .. MaxDepth]
    /\ queue \in Seq(Nodes)
    /\ answer \in Answers \cup {NoAnswer}

(***************************************************************************)
(* d gives the nodes found their distance from the topic's node: only that *)
(* one is at 0, every other has a neighbour one hop nearer, no node has a  *)
(* neighbour more than one hop further, and none within MaxDepth is left   *)
(* out.                                                                    *)
(***************************************************************************)
AreHops(g, t, found, d) ==
    /\ \E s \in Sources(g, t) \cap found : \A n \in found : d[n] = 0 <=> n = s
    /\ \A n \in Nodes \ found : d[n] = 0
    /\ \A n \in found : d[n] > 0 =>
         \E m \in found : n \in Successors(g, m) /\ d[n] = d[m] + 1
    /\ \A m \in found : d[m] < MaxDepth =>
         \A n \in Successors(g, m) : n \in found /\ d[n] <= d[m] + 1

(***************************************************************************)
(* When the search is over, depths are "the minimum depth at which a       *)
(* consumer is affected" (DAGTraverser), cycles or not.                    *)
(***************************************************************************)
Layered == phase = "found" /\ visited # {} => AreHops(resp, Topic, visited, depth)

(***************************************************************************)
(* Every report in the cache says of the reply it was made of exactly what *)
(* the distances of its nodes give, and of an outage that nothing is       *)
(* affected.                                                               *)
(***************************************************************************)
ReportIsExact ==
    \A k \in Keys : cache[k] # NoEntry =>
        cache[k].report \in IF cache[k].from = Outage THEN {NoLineage}
                            ELSE ExactReports(cache[k].from, k[1], k[2], MaxDepth)

(***************************************************************************)
(* "Teams that must approve before a CRITICAL or HIGH change is deployed"  *)
(* (BlastRadiusReport): whoever owns a consumer that uses a changed field, *)
(* however far down within MaxDepth hops, is asked.                        *)
(***************************************************************************)
OwnersAsked ==
    \A k \in Keys : cache[k] # NoEntry /\ cache[k].from # Outage =>
        LET g == cache[k].from
            exposed == {n \in Nodes : g.fields[n] \cap k[2] # {} /\ g.team[n] # NoTeam} IN
        NodesOf(g) # {} =>
            \E s \in Sources(g, k[1]) : \A n \in exposed :
                Hops(g, s, MaxDepth)[n] > 0 => g.team[n] \in cache[k].report.approvals

\* An answer in ContractView's terms; the service is its one reader.
Promised ==
    IF answer = NoAnswer THEN NoAnswer
    ELSE [topic |-> answer.topic, how |-> answer.how,
          version |-> IF answer.how = "fresh" THEN answer.from ELSE Unknown]

View == INSTANCE ContractView WITH
    Versions <- Replies,
    Readers <- {"analyzer"},
    FailOpen <- {},
    active <- [t \in Topics |-> {shown[t]} \ {Unknown}],
    answer <- [r \in {"analyzer"} |-> Promised],
    NoVersion <- Unknown

(***************************************************************************)
(* A report is about lineage that Marquez showed less than the cache's TTL *)
(* and one request ago, and one that says "no lineage" because of an       *)
(* outage is no older either, whatever else was asked in between.          *)
(***************************************************************************)
KeepsFreshnessPromise == View!ViewSpec

(***************************************************************************)
(* Every analysis ends: the search of any graph terminates, and a Marquez  *)
(* that does not answer is given up on.                                    *)
(***************************************************************************)
AnalysisReturns == phase # "idle" ~> phase = "idle"
=============================================================================
