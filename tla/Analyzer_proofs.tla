--------------------------- MODULE Analyzer_proofs ---------------------------
(***************************************************************************)
(* For every lineage graph, depth limit, TTL and FetchTimeout: the search  *)
(* finds the distances of exactly the nodes within MaxDepth hops, every    *)
(* report is the one those distances give, and the cache implements        *)
(* ContractView.                                                           *)
(***************************************************************************)
EXTENDS Analyzer, WellFoundedInduction, TLAPS

Searched == phase = "searching" \/ (phase = "found" /\ visited # {})
HasReply == phase \in {"served", "searching", "found"}
Queued(n) == \E i \in 1 .. Len(queue) : queue[i] = n

\* Between requests and before the search, nothing is left of an earlier one.
CleanInv ==
    /\ ~Searched => visited = {} /\ depth = Unsearched /\ queue = << >>
    /\ phase = "served" \/ Searched => resp \in Graphs
    /\ phase = "found" => queue = << >>
    /\ phase = "found" /\ visited = {} => resp = Outage \/ NodesOf(resp) = {}

\* One node is at distance 0; every other has been found from one nearer.
TreeInv == Searched =>
    /\ \E s \in Sources(resp, Topic) \cap visited : \A n \in visited : depth[n] = 0 <=> n = s
    /\ \A n \in Nodes \ visited : depth[n] = 0
    /\ \A n \in visited : depth[n] > 0 =>
         \E m \in visited : n \in Successors(resp, m) /\ depth[n] = depth[m] + 1

\* The queue is in the order of depth, and spans two depths at most.
QueueInv ==
    /\ \A i \in 1 .. Len(queue) : queue[i] \in visited
    /\ \A i, j \in 1 .. Len(queue) : i <= j => depth[queue[i]] <= depth[queue[j]]
    /\ queue # << >> => \A n \in visited : depth[n] <= depth[queue[1]] + 1

\* What has left the queue has been expanded.
ExpandedInv == Searched =>
    \A m \in visited : ~Queued(m) /\ depth[m] < MaxDepth =>
        \A n \in Successors(resp, m) : n \in visited /\ depth[n] <= depth[m] + 1

Was(t, g) == g \in Replies /\ idleFor[t][g] <= Bound

ShownInv == \A t \in Topics : shown[t] # Unknown => idleFor[t][shown[t]] = 0

\* The reply was true when it was written, and that was after the request.
ReplyInv == HasReply => Was(Topic, resp) /\ idleFor[Topic][resp] <= elapsed

\* An unexpired report's reply was true at most FetchTimeout before it was cached.
EntryInv == \A k \in Keys : cache[k] # NoEntry =>
    /\ Was(k[1], cache[k].from)
    /\ cache[k].age < TTL => idleFor[k[1]][cache[k].from] <= cache[k].age + FetchTimeout

\* A report is empty when there was no graph or nothing in it, and otherwise
\* made of distances.
OfHops(k, e) ==
    IF e.from = Outage THEN e.report = NoLineage
    ELSE IF NodesOf(e.from) = {} THEN e.report = NoLineage
    ELSE \E found \in SUBSET Nodes, d \in [Nodes -> 0 .. MaxDepth] :
           AreHops(e.from, k[1], found, d) /\ e.report = Report(e.from, d, k[2])

ReportInv == \A k \in Keys : cache[k] # NoEntry => OfHops(k, cache[k])

SearchInv == CleanInv /\ TreeInv /\ QueueInv /\ ExpandedInv
CacheInv == ShownInv /\ ReplyInv /\ EntryInv /\ ReportInv
IInv == TypeOK /\ SearchInv /\ CacheInv

-----------------------------------------------------------------------------
LEMMA BoundFacts ==
    /\ TTL \in Nat /\ TTL > 0 /\ FetchTimeout \in Nat /\ FetchTimeout > 0 /\ MaxDepth \in Nat
    /\ Bound \in Nat /\ Bound = TTL + FetchTimeout /\ Never = Bound + 1
BY AnalyzerAssumption DEF Bound, Never

LEMMA ReplyFacts ==
    /\ Outage \in Replies /\ Unknown \notin Replies /\ Graphs \subseteq Replies
    /\ Outage \notin Graphs /\ Graphs \subseteq Graph
BY AnalyzerAssumption DEF Replies

LEMMA KeyFacts ==
    ASSUME NEW k \in Keys
    PROVE  k[1] \in Topics /\ k[2] \in Changes /\ k[2] \subseteq Fields /\ k = <<k[1], k[2]>>
BY AnalyzerAssumption DEF Keys

\* Reports have the right type whatever the depths they are made of.
LEMMA ReportType ==
    ASSUME NEW g \in Graph, NEW d \in [Nodes -> 0 .. MaxDepth], NEW changed \in SUBSET Fields
    PROVE  Report(g, d, changed) \in Reports
<1>1. \A f, e : Impact(f, changed, e) \in {"CRITICAL", "HIGH", "MEDIUM", "NONE"}
    BY DEF Impact
<1>2. ASSUME NEW n \in Nodes, Impact(g.fields[n], changed, d[n]) # "NONE"
      PROVE  [node |-> n, depth |-> d[n], affected |-> g.fields[n] \cap changed,
              impact |-> Impact(g.fields[n], changed, d[n])] \in Consumer
    <2>1. g.fields[n] \cap changed \in SUBSET Fields
        OBVIOUS
    <2>2. Impact(g.fields[n], changed, d[n]) \in {"CRITICAL", "HIGH", "MEDIUM"}
        BY <1>1, <1>2
    <2> QED
        BY <2>1, <2>2 DEF Consumer
<1>3. Consumers(g, d, changed) \subseteq Consumer
    BY <1>2 DEF Consumers
<1>4. ASSUME NEW cs \in SUBSET Consumer
      PROVE  Approvals(g, cs) \subseteq Teams
    BY DEF Approvals, Consumer, Graph
<1> QED
    BY <1>3, <1>4 DEF Report, Reports

LEMMA NoLineageType == NoLineage \in Reports
BY DEF NoLineage, Reports

LEMMA IInvInit == Init => IInv
<1> SUFFICES ASSUME Init PROVE IInv
    OBVIOUS
<1> USE BoundFacts, ReplyFacts DEF Init
<1>1. TypeOK
    BY DEF TypeOK, Unsearched
<1>2. SearchInv
    BY DEF SearchInv, CleanInv, TreeInv, QueueInv, ExpandedInv, Searched
<1>3. CacheInv
    BY DEF CacheInv, ShownInv, ReplyInv, EntryInv, ReportInv, HasReply
<1> QED
    BY <1>1, <1>2, <1>3 DEF IInv

\* What a step that only changes what Marquez shows, the clock or the answer
\* leaves of the search.
LEMMA SearchKept ==
    ASSUME SearchInv, UNCHANGED <<phase, key, resp, search>>
    PROVE  SearchInv'
BY DEF SearchInv, CleanInv, TreeInv, QueueInv, ExpandedInv, Searched, Queued, search, Topic

\* Reports say nothing of the clock.
LEMMA ReportsKept ==
    ASSUME ReportInv, UNCHANGED cache
    PROVE  ReportInv'
BY DEF ReportInv, OfHops

-----------------------------------------------------------------------------
(* Hops, by induction over the layers.                                     *)

\* Every inhabited set of naturals has a least element.
LEMMA LeastNat ==
    ASSUME NEW T \in SUBSET Nat, T # {}
    PROVE  \E x \in T : \A y \in T : x <= y
<1> DEFINE R == OpToRel(<, Nat)
<1>1. \E x \in T : \A y \in T : <<y, x>> \notin R
    BY NatLessThanWellFounded, WFMin
<1>2. \A x, y \in Nat : <<y, x>> \notin R => x <= y
    BY DEF OpToRel
<1> HIDE DEF R
<1>3. PICK x \in T : \A y \in T : <<y, x>> \notin R
    BY <1>1
<1>4. x \in Nat /\ \A y \in T : y \in Nat
    OBVIOUS
<1> QED
    BY <1>2, <1>3, <1>4

\* Induction up to N, on the set of the numbers that have the property.
LEMMA InductSet ==
    ASSUME NEW T, NEW N \in Nat, 0 \in T, \A k \in 0 .. N - 1 : k \in T => k + 1 \in T
    PROVE  \A k \in 0 .. N : k \in T
<1> SUFFICES ASSUME NEW k \in 0 .. N, k \notin T PROVE FALSE
    OBVIOUS
<1> DEFINE B == {j \in 0 .. N : j \notin T}
<1>1. PICK x \in B : \A y \in B : x <= y
    <2>1. B \in SUBSET Nat /\ B # {}
        OBVIOUS
    <2> HIDE DEF B
    <2> QED
        BY <2>1, LeastNat
<1>2. x - 1 \in 0 .. N - 1 /\ x - 1 \in T
    BY <1>1
<1> QED
    BY <1>1, <1>2

\* The nodes of X and what they point to.
Layer(g, X) == X \cup {n \in Nodes : \E m \in X : <<m, n>> \in g.edges}

\* The layers are those the recursion describes: there is such a function.
LEMMA WithinIs ==
    ASSUME NEW g, NEW s \in Nodes, NEW bound \in Nat
    PROVE  LET w == Within(g, s, bound) IN
           w = [k \in 0 .. bound |-> IF k = 0 THEN {s} ELSE Layer(g, w[k - 1])]
<1> DEFINE Body(f) == [k \in 0 .. bound |-> IF k = 0 THEN {s} ELSE Layer(g, f[k - 1])]
           Upto(k) == {f \in [0 .. k -> SUBSET Nodes] :
                         f[0] = {s} /\ \A j \in 1 .. k : f[j] = Layer(g, f[j - 1])}
           T == {k \in 0 .. bound : Upto(k) # {}}
<1>0. \A X \in SUBSET Nodes : Layer(g, X) \in SUBSET Nodes
    BY DEF Layer
<1>1. 0 \in T
    <2>1. [k \in 0 .. 0 |-> {s}] \in Upto(0)
        OBVIOUS
    <2> QED
        BY <2>1
<1>2. ASSUME NEW k \in 0 .. bound - 1, k \in T PROVE k + 1 \in T
    <2>1. PICK f \in [0 .. k -> SUBSET Nodes] :
            f[0] = {s} /\ \A j \in 1 .. k : f[j] = Layer(g, f[j - 1])
        BY <1>2
    <2> DEFINE h == [j \in 0 .. k + 1 |-> IF j = k + 1 THEN Layer(g, f[k]) ELSE f[j]]
    <2>2. h \in [0 .. k + 1 -> SUBSET Nodes]
        BY <1>0
    <2>3. h[0] = {s} /\ \A j \in 1 .. k + 1 : h[j] = Layer(g, h[j - 1])
        BY <2>1
    <2>4. h \in Upto(k + 1)
        BY <2>2, <2>3
    <2> HIDE DEF h, Upto
    <2>5. k + 1 \in 0 .. bound /\ Upto(k + 1) # {}
        BY <2>4
    <2> QED
        BY <2>5
<1>3. bound \in T
    <2> HIDE DEF T
    <2> QED
        BY <1>1, <1>2, InductSet
<1>4. \E f : f = Body(f)
    BY <1>3
<1>5. Within(g, s, bound) = CHOOSE f : f = Body(f)
    BY DEF Within, Layer
<1> QED
    BY <1>4, <1>5

\* Distances in the sense of AreHops are the numbers of hops: there is only
\* one way to be consistent.
LEMMA HopsIs ==
    ASSUME NEW g, NEW s \in Nodes, NEW bound \in Nat, NEW found \in SUBSET Nodes,
           NEW d \in [Nodes -> 0 .. bound], s \in found,
           \A n \in found : d[n] = 0 <=> n = s,
           \A n \in Nodes \ found : d[n] = 0,
           \A n \in found : d[n] > 0 => \E m \in found : n \in Successors(g, m) /\ d[n] = d[m] + 1,
           \A m \in found : d[m] < bound =>
             \A n \in Successors(g, m) : n \in found /\ d[n] <= d[m] + 1
    PROVE  Hops(g, s, bound) = d
<1> DEFINE w == Within(g, s, bound)
           T == {k \in 0 .. bound : w[k] = {n \in found : d[n] <= k}}
<1>1. w[0] = {s} /\ \A k \in 1 .. bound : w[k] = Layer(g, w[k - 1])
    <2> HIDE DEF w
    <2>1. w = [k \in 0 .. bound |-> IF k = 0 THEN {s} ELSE Layer(g, w[k - 1])]
        BY WithinIs DEF w
    <2> DEFINE f == [k \in 0 .. bound |-> IF k = 0 THEN {s} ELSE Layer(g, w[k - 1])]
    <2>2. f[0] = {s} /\ \A k \in 1 .. bound : f[k] = Layer(g, w[k - 1])
        OBVIOUS
    <2> HIDE DEF f
    <2> QED
        BY <2>1, <2>2 DEF f
<1> HIDE DEF w
<1>2. 0 \in T
    BY <1>1
<1>3. ASSUME NEW k \in 0 .. bound - 1, k \in T
      PROVE  k + 1 \in T
    <2>1. w[k] = {n \in found : d[n] <= k}
        BY <1>3
    <2>2. w[k + 1] = Layer(g, w[k])
        BY <1>1
    <2>3. ASSUME NEW n \in w[k + 1]
          PROVE  n \in found /\ d[n] <= k + 1
        <3>1. CASE n \in w[k]
            BY <2>1, <3>1
        <3>2. CASE n \notin w[k]
            <4>1. PICK m \in w[k] : n \in Successors(g, m)
                BY <2>2, <3>2 DEF Layer, Successors
            <4>2. m \in found /\ d[m] <= k /\ d[m] < bound
                BY <2>1
            <4>3. n \in found /\ d[n] <= d[m] + 1
                BY <4>1, <4>2
            <4> QED
                BY <4>2, <4>3
        <3> QED
            BY <3>1, <3>2
    <2>4. ASSUME NEW n \in found, d[n] <= k + 1
          PROVE  n \in w[k + 1]
        <3>1. CASE d[n] <= k
            BY <2>1, <2>2, <3>1 DEF Layer
        <3>2. CASE d[n] = k + 1
            <4>1. PICK m \in found : n \in Successors(g, m) /\ d[n] = d[m] + 1
                BY <3>2
            <4>2. m \in w[k]
                BY <2>1, <3>2, <4>1
            <4> QED
                BY <2>2, <4>1, <4>2 DEF Layer, Successors
        <3> QED
            BY <2>4, <3>1, <3>2
    <2>5. w[k + 1] = {n \in found : d[n] <= k + 1}
        BY <2>2, <2>3, <2>4
    <2> QED
        BY <2>5
<1>4. \A k \in 0 .. bound : w[k] = {n \in found : d[n] <= k}
    <2>1. \A k \in 0 .. bound : k \in T
        <3> HIDE DEF T
        <3> QED
            BY <1>2, <1>3, InductSet
    <2> QED
        BY <2>1
<1>5. ASSUME NEW n \in Nodes
      PROVE  Hops(g, s, bound)[n] = d[n]
    <2>1. CASE n \notin found
        BY <1>4, <2>1 DEF Hops, w
    <2>2. CASE n \in found
        <3>1. n \in w[bound]
            BY <1>4, <2>2
        <3>2. d[n] \in 0 .. bound /\ n \in w[d[n]] /\ \A j \in 0 .. d[n] - 1 : n \notin w[j]
            BY <1>4, <2>2
        <3>3. \A k \in 0 .. bound : n \in w[k] /\ (\A j \in 0 .. k - 1 : n \notin w[j]) => k = d[n]
            BY <1>4, <2>2
        <3>4. (CHOOSE k \in 0 .. bound : n \in w[k] /\ \A j \in 0 .. k - 1 : n \notin w[j]) = d[n]
            BY <3>2, <3>3
        <3> QED
            BY <3>1, <3>4 DEF Hops, w
    <2> QED
        BY <2>1, <2>2
<1> QED
    BY <1>5 DEF Hops

LEMMA AreHopsIsHops ==
    ASSUME NEW g, NEW t \in Topics, NEW found \in SUBSET Nodes, NEW d \in [Nodes -> 0 .. MaxDepth],
           AreHops(g, t, found, d)
    PROVE  \E s \in Sources(g, t) : Hops(g, s, MaxDepth) = d
<1>1. PICK s \in Sources(g, t) \cap found : \A n \in found : d[n] = 0 <=> n = s
    BY DEF AreHops
<1>2. Hops(g, s, MaxDepth) = d
    BY <1>1, HopsIs, BoundFacts DEF AreHops
<1> QED
    BY <1>1, <1>2

\* The source is a node of the graph.
LEMMA HopsHaveNodes ==
    ASSUME NEW g, NEW t, NEW found, NEW d, AreHops(g, t, found, d)
    PROVE  NodesOf(g) # {}
BY DEF AreHops, Sources

-----------------------------------------------------------------------------
(* Marquez and the clock.                                                  *)

LEMMA ShowsFacts ==
    ASSUME IInv, NEW t \in Topics, NEW g \in Replies, Shows(t, g)
    PROVE  /\ shown' \in [Topics -> Replies \cup {Unknown}]
           /\ idleFor' \in [Topics -> [Replies -> 0 .. Never]]
           /\ ShownInv'
           /\ idleFor'[t][g] = 0
           /\ \A u \in Topics : \A h : Was(u, h) => idleFor'[u][h] <= Bound /\ idleFor'[u][h] <= idleFor[u][h]
<1> USE BoundFacts, ReplyFacts
<1>0. /\ shown \in [Topics -> Replies \cup {Unknown}]
      /\ idleFor \in [Topics -> [Replies -> 0 .. Never]]
      /\ ShownInv
    BY DEF IInv, TypeOK, CacheInv
<1>1. /\ shown' \in [Topics -> Replies \cup {Unknown}]
      /\ idleFor' \in [Topics -> [Replies -> 0 .. Never]]
      /\ idleFor'[t][g] = 0
    BY <1>0 DEF Shows
<1>2. ShownInv'
    BY <1>0 DEF Shows, ShownInv
<1>3. \A u \in Topics : \A h : Was(u, h) => idleFor'[u][h] <= Bound /\ idleFor'[u][h] <= idleFor[u][h]
    BY <1>0 DEF Shows, Was
<1> QED
    BY <1>1, <1>2, <1>3

LEMMA MarquezStep ==
    ASSUME IInv, NEW t \in Topics, NEW g \in Replies, MarquezShows(t, g)
    PROVE  IInv'
<1>1. /\ Shows(t, g)
      /\ UNCHANGED <<world, cache, phase, key, elapsed, resp, visited, depth, queue, search, answer>>
    BY DEF MarquezShows, Shows, search
<1>2. /\ shown' \in [Topics -> Replies \cup {Unknown}]
      /\ idleFor' \in [Topics -> [Replies -> 0 .. Never]]
      /\ ShownInv'
      /\ \A u \in Topics : \A h : Was(u, h) => idleFor'[u][h] <= Bound /\ idleFor'[u][h] <= idleFor[u][h]
    BY <1>1, ShowsFacts
<1>3. TypeOK'
    BY <1>1, <1>2 DEF IInv, TypeOK
<1>4. SearchInv' /\ ReportInv'
    BY <1>1, SearchKept, ReportsKept DEF IInv, CacheInv
<1>5. Topic \in Topics
    BY KeyFacts DEF IInv, TypeOK, Topic
<1>6. ReplyInv'
    <2> SUFFICES ASSUME HasReply
                 PROVE  /\ resp \in Replies /\ idleFor'[Topic][resp] <= Bound
                        /\ idleFor'[Topic][resp] <= elapsed
        BY <1>1 DEF ReplyInv, Was, Topic, HasReply
    <2>1. Was(Topic, resp) /\ idleFor[Topic][resp] <= elapsed
        BY DEF IInv, CacheInv, ReplyInv
    <2>2. resp \in Replies /\ idleFor'[Topic][resp] <= Bound
          /\ idleFor'[Topic][resp] <= idleFor[Topic][resp]
        BY <1>2, <1>5, <2>1 DEF Was
    <2>3. idleFor[Topic][resp] \in Nat /\ idleFor'[Topic][resp] \in Nat /\ elapsed \in Nat
        BY <1>2, <1>5, <2>2, BoundFacts DEF IInv, TypeOK
    <2> QED
        BY <2>1, <2>2, <2>3
<1>7. EntryInv'
    <2> SUFFICES ASSUME NEW k \in Keys, cache[k] # NoEntry
                 PROVE  /\ cache[k].from \in Replies /\ idleFor'[k[1]][cache[k].from] <= Bound
                        /\ cache[k].age < TTL =>
                             idleFor'[k[1]][cache[k].from] <= cache[k].age + FetchTimeout
        BY <1>1 DEF EntryInv, Was
    <2>1. /\ Was(k[1], cache[k].from)
          /\ cache[k].age < TTL => idleFor[k[1]][cache[k].from] <= cache[k].age + FetchTimeout
        BY DEF IInv, CacheInv, EntryInv
    <2>2. k[1] \in Topics /\ cache[k] \in Entry
        BY KeyFacts DEF IInv, TypeOK
    <2>3. /\ idleFor'[k[1]][cache[k].from] <= Bound
          /\ idleFor'[k[1]][cache[k].from] <= idleFor[k[1]][cache[k].from]
        BY <1>2, <2>1, <2>2
    <2>4. /\ cache[k].age \in Nat /\ cache[k].from \in Replies
          /\ idleFor[k[1]][cache[k].from] \in Nat /\ idleFor'[k[1]][cache[k].from] \in Nat
        BY <1>2, <2>2, BoundFacts DEF Entry, IInv, TypeOK
    <2> QED
        BY <2>1, <2>3, <2>4, BoundFacts
<1> QED
    BY <1>2, <1>3, <1>4, <1>6, <1>7 DEF IInv, CacheInv

LEMMA TickStep ==
    ASSUME IInv, Tick
    PROVE  IInv'
<1> USE BoundFacts, ReplyFacts
<1>1. /\ UNCHANGED <<world, shown, phase, key, resp, visited, depth, queue, search, answer>>
      /\ HasReply => phase = "served" /\ elapsed < FetchTimeout /\ elapsed' = elapsed + 1
    BY DEF Tick, search, Waiting, HasReply
<1>2. idleFor \in [Topics -> [Replies -> 0 .. Never]] /\ cache \in [Keys -> Entry \cup {NoEntry}]
    BY DEF IInv, TypeOK
<1>3. idleFor' \in [Topics -> [Replies -> 0 .. Never]]
    BY <1>2 DEF Tick
<1>4. elapsed' \in 0 .. FetchTimeout
    BY DEF Tick, Waiting, IInv, TypeOK
<1>5. ASSUME NEW k \in Keys, cache[k] # NoEntry
      PROVE  /\ cache'[k] \in Entry
             /\ cache'[k].from = cache[k].from /\ cache'[k].report = cache[k].report
             /\ cache'[k].age = IF cache[k].age < TTL THEN cache[k].age + 1 ELSE cache[k].age
    BY <1>2, <1>5, AnalyzerAssumption DEF Tick, Entry
<1>6. \A k \in Keys : cache[k] = NoEntry => cache'[k] = NoEntry
    BY DEF Tick
<1>7. cache' \in [Keys -> Entry \cup {NoEntry}]
    <2>1. cache' = [k \in Keys |-> cache'[k]]
        BY DEF Tick
    <2> QED
        BY <1>5, <1>6, <2>1
<1>8. \A u \in Topics : \A h : Was(u, h) => idleFor'[u][h] <= Bound /\ idleFor'[u][h] <= idleFor[u][h] + 1
    BY <1>2 DEF Tick, Was
<1>9. TypeOK'
    BY <1>1, <1>3, <1>4, <1>7 DEF IInv, TypeOK
<1>10. ShownInv'
    BY <1>1, <1>2, <1>3 DEF ShownInv, Tick, IInv, TypeOK, CacheInv
<1>11. SearchInv'
    BY <1>1, SearchKept DEF IInv
<1>12. Topic \in Topics
    BY KeyFacts DEF IInv, TypeOK, Topic
<1>13. ReplyInv'
    <2> SUFFICES ASSUME HasReply
                 PROVE  /\ resp \in Replies /\ idleFor'[Topic][resp] <= Bound
                        /\ idleFor'[Topic][resp] <= elapsed'
        BY <1>1 DEF ReplyInv, Was, Topic, HasReply
    <2>1. Was(Topic, resp) /\ idleFor[Topic][resp] <= elapsed
        BY DEF IInv, CacheInv, ReplyInv
    <2>2. resp \in Replies /\ idleFor'[Topic][resp] <= Bound
          /\ idleFor'[Topic][resp] <= idleFor[Topic][resp] + 1
        BY <1>8, <1>12, <2>1 DEF Was
    <2>3. idleFor[Topic][resp] \in Nat /\ idleFor'[Topic][resp] \in Nat /\ elapsed \in Nat
        BY <1>2, <1>3, <1>12, <2>2 DEF IInv, TypeOK
    <2> QED
        BY <1>1, <2>1, <2>2, <2>3
<1>14. EntryInv'
    <2> SUFFICES ASSUME NEW k \in Keys, cache'[k] # NoEntry
                 PROVE  /\ cache'[k].from \in Replies /\ idleFor'[k[1]][cache'[k].from] <= Bound
                        /\ cache'[k].age < TTL =>
                             idleFor'[k[1]][cache'[k].from] <= cache'[k].age + FetchTimeout
        BY DEF EntryInv, Was
    <2>1. cache[k] # NoEntry /\ cache[k] \in Entry /\ k[1] \in Topics
        BY <1>2, <1>6, KeyFacts
    <2>2. PICK g \in Replies, a \in 0 .. TTL : cache[k].from = g /\ cache[k].age = a
        BY <2>1 DEF Entry
    <2>3. Was(k[1], g) /\ (a < TTL => idleFor[k[1]][g] <= a + FetchTimeout)
        BY <2>1, <2>2 DEF IInv, CacheInv, EntryInv
    <2>4. /\ idleFor'[k[1]][g] <= Bound
          /\ idleFor'[k[1]][g] <= idleFor[k[1]][g] + 1
          /\ idleFor'[k[1]][g] \in Nat /\ idleFor[k[1]][g] \in Nat
        BY <1>2, <1>3, <1>8, <2>1, <2>2, <2>3
    <2>5. cache'[k].from = g /\ cache'[k].age = IF a < TTL THEN a + 1 ELSE a
        BY <1>5, <2>1, <2>2
    <2>6. cache'[k].age < TTL => idleFor'[k[1]][g] <= cache'[k].age + FetchTimeout
        BY <2>3, <2>4, <2>5
    <2> QED
        BY <2>4, <2>5, <2>6
<1>15. ReportInv'
    BY <1>5, <1>6 DEF IInv, CacheInv, ReportInv, OfHops
<1> QED
    BY <1>9, <1>10, <1>11, <1>13, <1>14, <1>15 DEF IInv, CacheInv

-----------------------------------------------------------------------------
(* The request.                                                            *)

\* What CacheInv says of the cache does not change with the handler's steps.
LEMMA CacheKept ==
    ASSUME CacheInv, UNCHANGED <<shown, idleFor, cache>>
    PROVE  ShownInv' /\ EntryInv' /\ ReportInv'
<1>1. ShownInv'
    BY DEF CacheInv, ShownInv
<1>2. EntryInv'
    BY DEF CacheInv, EntryInv, Was
<1> QED
    BY <1>1, <1>2, ReportsKept DEF CacheInv

\* After Return nothing is left of the request.
LEMMA Returned ==
    ASSUME Return
    PROVE  SearchInv' /\ ReplyInv'
BY DEF Return, SearchInv, CleanInv, TreeInv, QueueInv, ExpandedInv, ReplyInv, Searched, HasReply,
       Unsearched

LEMMA RequestStep ==
    ASSUME IInv, NEW k \in Keys, Hit(k) \/ Miss(k)
    PROVE  IInv'
<1> USE BoundFacts, ReplyFacts
<1>1. CASE Hit(k)
    <2>1. /\ UNCHANGED <<world, shown, idleFor, cache, phase, key, elapsed, resp, visited, depth,
                         queue, search>>
          /\ answer' = [topic |-> k[1], how |-> "fresh", from |-> cache[k].from,
                        report |-> cache[k].report]
          /\ cache[k] # NoEntry
        BY <1>1 DEF Hit, Fresh, Answer, marquez, search
    <2>2. cache[k] \in Entry /\ k[1] \in Topics
        BY <2>1, KeyFacts DEF IInv, TypeOK
    <2>3. answer' \in Answers
        BY <2>1, <2>2 DEF Answers, Entry
    <2>4. TypeOK'
        BY <2>1, <2>3 DEF IInv, TypeOK
    <2>5. SearchInv' /\ ShownInv' /\ EntryInv' /\ ReportInv'
        BY <2>1, SearchKept, CacheKept DEF IInv
    <2>6. ReplyInv'
        BY <2>1 DEF IInv, CacheInv, ReplyInv, HasReply, Was, Topic
    <2> QED
        BY <2>4, <2>5, <2>6 DEF IInv, CacheInv
<1>2. CASE Miss(k)
    <2>1. /\ UNCHANGED <<world, shown, idleFor, cache, resp, visited, depth, queue>>
          /\ phase = "idle" /\ phase' = "sent" /\ key' = k /\ elapsed' = 0 /\ answer' = NoAnswer
        BY <1>2 DEF Miss, marquez, search
    <2>2. TypeOK'
        BY <2>1 DEF IInv, TypeOK
    <2>3. SearchInv'
        BY <2>1 DEF IInv, SearchInv, CleanInv, TreeInv, QueueInv, ExpandedInv, Searched
    <2>4. ShownInv' /\ EntryInv' /\ ReportInv'
        BY <2>1, CacheKept DEF IInv
    <2>5. ReplyInv'
        BY <2>1 DEF ReplyInv, HasReply
    <2> QED
        BY <2>2, <2>3, <2>4, <2>5 DEF IInv, CacheInv
<1> QED
    BY <1>1, <1>2

LEMMA ServeStep ==
    ASSUME IInv, Serve
    PROVE  IInv'
<1> USE BoundFacts, ReplyFacts
<1>1. /\ UNCHANGED <<world, shown, idleFor, cache, key, elapsed, visited, depth, queue, answer>>
      /\ phase = "sent" /\ phase' = "served" /\ resp' = shown[Topic] /\ shown[Topic] \in Graphs
    BY DEF Serve, marquez, search
<1>2. Topic \in Topics
    BY KeyFacts DEF IInv, TypeOK, Topic
<1>3. TypeOK'
    BY <1>1 DEF IInv, TypeOK
<1>4. SearchInv'
    BY <1>1 DEF IInv, SearchInv, CleanInv, TreeInv, QueueInv, ExpandedInv, Searched
<1>5. ShownInv' /\ EntryInv' /\ ReportInv'
    BY <1>1, CacheKept DEF IInv
<1>6. ReplyInv'
    <2>1. idleFor[Topic][shown[Topic]] = 0 /\ shown[Topic] \in Replies
        BY <1>1, <1>2 DEF IInv, CacheInv, ShownInv
    <2>2. elapsed \in Nat
        BY DEF IInv, TypeOK
    <2> QED
        BY <1>1, <2>1, <2>2 DEF ReplyInv, Was, Topic
<1> QED
    BY <1>3, <1>4, <1>5, <1>6 DEF IInv, CacheInv

LEMMA FailsStep ==
    ASSUME IInv, FetchFails
    PROVE  IInv'
<1> USE BoundFacts, ReplyFacts
<1>1. /\ Shows(Topic, Outage)
      /\ UNCHANGED <<world, cache, key, elapsed, visited, depth, queue, answer>>
      /\ phase \in {"sent", "served"} /\ phase' = "found" /\ resp' = Outage
    BY DEF FetchFails, Shows, search, Waiting
<1>2. Topic \in Topics
    BY KeyFacts DEF IInv, TypeOK, Topic
<1>3. /\ shown' \in [Topics -> Replies \cup {Unknown}]
      /\ idleFor' \in [Topics -> [Replies -> 0 .. Never]]
      /\ ShownInv'
      /\ idleFor'[Topic][Outage] = 0
      /\ \A u \in Topics : \A h : Was(u, h) => idleFor'[u][h] <= Bound /\ idleFor'[u][h] <= idleFor[u][h]
    BY <1>1, <1>2, ShowsFacts
<1>4. TypeOK'
    BY <1>1, <1>3 DEF IInv, TypeOK
<1>5. SearchInv'
    BY <1>1 DEF IInv, SearchInv, CleanInv, TreeInv, QueueInv, ExpandedInv, Searched
<1>6. ReplyInv'
    <2>1. elapsed \in Nat
        BY DEF IInv, TypeOK
    <2> QED
        BY <1>1, <1>3, <2>1 DEF ReplyInv, Was, Topic
<1>7. EntryInv'
    <2> SUFFICES ASSUME NEW k \in Keys, cache[k] # NoEntry
                 PROVE  /\ cache[k].from \in Replies /\ idleFor'[k[1]][cache[k].from] <= Bound
                        /\ cache[k].age < TTL =>
                             idleFor'[k[1]][cache[k].from] <= cache[k].age + FetchTimeout
        BY <1>1 DEF EntryInv, Was
    <2>1. /\ Was(k[1], cache[k].from)
          /\ cache[k].age < TTL => idleFor[k[1]][cache[k].from] <= cache[k].age + FetchTimeout
        BY DEF IInv, CacheInv, EntryInv
    <2>2. k[1] \in Topics /\ cache[k] \in Entry
        BY KeyFacts DEF IInv, TypeOK
    <2>3. /\ idleFor'[k[1]][cache[k].from] <= Bound
          /\ idleFor'[k[1]][cache[k].from] <= idleFor[k[1]][cache[k].from]
        BY <1>3, <2>1, <2>2
    <2>4. /\ cache[k].age \in Nat /\ cache[k].from \in Replies
          /\ idleFor[k[1]][cache[k].from] \in Nat /\ idleFor'[k[1]][cache[k].from] \in Nat
        BY <1>3, <2>2 DEF Entry, IInv, TypeOK
    <2> QED
        BY <2>1, <2>3, <2>4
<1>8. ReportInv'
    BY <1>1, ReportsKept DEF IInv, CacheInv
<1> QED
    BY <1>3, <1>4, <1>5, <1>6, <1>7, <1>8 DEF IInv, CacheInv

LEMMA NoReportStep ==
    ASSUME IInv, Fails \/ NoNodes
    PROVE  IInv'
<1> USE BoundFacts, ReplyFacts
<1>1. CASE Fails
    <2>1. /\ UNCHANGED <<world, shown, idleFor, cache, key>> /\ Return /\ phase = "served"
          /\ answer' = [topic |-> Topic, how |-> "error", from |-> resp, report |-> NoLineage]
        BY <1>1 DEF Fails, Answer, marquez
    <2>2. Topic \in Topics
        BY KeyFacts DEF IInv, TypeOK, Topic
    <2>3. answer' \in Answers
        BY <2>1, <2>2, NoLineageType DEF Answers, IInv, TypeOK
    <2>4. TypeOK'
        BY <2>1, <2>3 DEF IInv, TypeOK, Return, Unsearched
    <2> QED
        BY <2>1, <2>4, Returned, CacheKept DEF IInv, CacheInv
<1>2. CASE NoNodes
    <2>1. /\ UNCHANGED <<world, shown, idleFor, cache, key, elapsed, resp, visited, depth, queue, answer>>
          /\ phase = "served" /\ phase' = "found" /\ NodesOf(resp) = {}
        BY <1>2 DEF NoNodes, marquez, search
    <2>2. TypeOK'
        BY <2>1 DEF IInv, TypeOK
    <2>3. SearchInv'
        BY <2>1 DEF IInv, SearchInv, CleanInv, TreeInv, QueueInv, ExpandedInv, Searched
    <2>4. ReplyInv'
        BY <2>1 DEF IInv, CacheInv, ReplyInv, HasReply, Was, Topic
    <2> QED
        BY <2>1, <2>2, <2>3, <2>4, CacheKept DEF IInv, CacheInv
<1> QED
    BY <1>1, <1>2

LEMMA RestartStep ==
    ASSUME IInv, Restart
    PROVE  IInv'
<1>1. /\ UNCHANGED <<world, shown, idleFor, key>> /\ Return /\ answer' = NoAnswer
      /\ cache' = [k \in Keys |-> NoEntry]
    BY DEF Restart, marquez
<1>2. TypeOK'
    BY <1>1, ReplyFacts, BoundFacts DEF IInv, TypeOK, Return, Unsearched
<1>3. ShownInv' /\ EntryInv' /\ ReportInv'
    BY <1>1 DEF IInv, CacheInv, ShownInv, EntryInv, ReportInv
<1> QED
    BY <1>1, <1>2, <1>3, Returned DEF IInv, CacheInv

-----------------------------------------------------------------------------
(* The search.                                                             *)

\* A step of the search leaves the rest alone.
LEMMA CacheDuringSearch ==
    ASSUME IInv, UNCHANGED <<shown, idleFor, cache, key, elapsed, resp>>, HasReply
    PROVE  CacheInv'
<1>1. ReplyInv'
    BY DEF IInv, CacheInv, ReplyInv, Was, Topic
<1> QED
    BY <1>1, CacheKept DEF IInv, CacheInv

LEMMA StartStep ==
    ASSUME IInv, NEW s \in Nodes, StartSearch(s)
    PROVE  IInv'
<1> USE BoundFacts
<1>1. /\ UNCHANGED <<world, shown, idleFor, cache, key, elapsed, resp, depth, answer>>
      /\ phase = "served" /\ phase' = "searching" /\ s \in Sources(resp, Topic)
      /\ visited' = {s} /\ queue' = <<s>>
    BY DEF StartSearch, marquez
<1>2. depth = Unsearched /\ resp \in Graphs
    BY <1>1 DEF IInv, SearchInv, CleanInv, Searched
<1>3. /\ Len(queue') = 1 /\ queue'[1] = s /\ queue' # << >> /\ queue' \in Seq(Nodes)
      /\ \A n \in Nodes : depth'[n] = 0
    BY <1>1, <1>2 DEF Unsearched
<1>4. TypeOK'
    BY <1>1, <1>3 DEF IInv, TypeOK
<1>5. CleanInv'
    BY <1>1, <1>2 DEF CleanInv, Searched
<1>6. TreeInv'
    <2>1. Topic' = Topic
        BY <1>1 DEF Topic
    <2> QED
        BY <1>1, <1>3, <2>1 DEF TreeInv
<1>7. QueueInv'
    BY <1>1, <1>3 DEF QueueInv
<1>8. ExpandedInv'
    BY <1>1, <1>3 DEF ExpandedInv, Queued
<1>9. CacheInv'
    BY <1>1, CacheDuringSearch DEF HasReply
<1> QED
    BY <1>4, <1>5, <1>6, <1>7, <1>8, <1>9 DEF IInv, SearchInv

LEMMA VisitStep ==
    ASSUME IInv, NEW n \in Nodes, Visit(n)
    PROVE  IInv'
<1> USE BoundFacts
<1>1. /\ UNCHANGED <<world, shown, idleFor, cache, phase, key, elapsed, resp, answer>>
      /\ phase = "searching" /\ queue # << >>
      /\ n \in Unvisited
      /\ visited' = visited \cup {n} /\ queue' = Append(queue, n)
      /\ depth' = [depth EXCEPT ![n] = depth[Current] + 1]
    BY DEF Visit, marquez
<1>2. /\ queue \in Seq(Nodes) /\ visited \subseteq Nodes /\ depth \in [Nodes -> 0 .. MaxDepth]
    BY DEF IInv, TypeOK
<1>3. /\ Len(queue) \in Nat /\ Len(queue) > 0 /\ Current = queue[1] /\ Current \in Nodes
    BY <1>1, <1>2 DEF Current
<1>4. CleanInv /\ TreeInv /\ QueueInv /\ ExpandedInv
    BY DEF IInv, SearchInv
<1>5. Current \in visited
    BY <1>3, <1>4 DEF QueueInv
<1>6. n \notin visited /\ n \in Successors(resp, Current) /\ depth[Current] < MaxDepth
    BY <1>1 DEF Unvisited
<1>7. /\ depth' \in [Nodes -> 0 .. MaxDepth] /\ depth'[n] = depth[Current] + 1
      /\ \A m \in Nodes : m # n => depth'[m] = depth[m]
    BY <1>1, <1>2, <1>3, <1>6
<1>8. /\ queue' \in Seq(Nodes) /\ Len(queue') = Len(queue) + 1 /\ queue'[Len(queue) + 1] = n
      /\ \A i \in 1 .. Len(queue) : queue'[i] = queue[i]
      /\ queue' # << >>
    BY <1>1, <1>2
<1>9. TypeOK'
    BY <1>1, <1>2, <1>7, <1>8 DEF IInv, TypeOK
<1>10. CleanInv'
    BY <1>1, <1>4 DEF CleanInv, Searched
<1>11. TreeInv'
    <2>1. Topic' = Topic
        BY <1>1 DEF Topic
    <2>2. PICK s \in Sources(resp, Topic) \cap visited : \A m \in visited : depth[m] = 0 <=> m = s
        BY <1>1, <1>4 DEF TreeInv, Searched
    <2>3. \A m \in visited' : depth'[m] = 0 <=> m = s
        BY <1>1, <1>2, <1>3, <1>5, <1>6, <1>7, <2>2
    <2>4. \A m \in Nodes \ visited' : depth'[m] = 0
        BY <1>1, <1>4, <1>7 DEF TreeInv, Searched
    <2>5. \A m \in visited' : depth'[m] > 0 =>
             \E p \in visited' : m \in Successors(resp, p) /\ depth'[m] = depth'[p] + 1
        <3>1. \A m \in visited : depth[m] > 0 =>
                 \E p \in visited : m \in Successors(resp, p) /\ depth[m] = depth[p] + 1
            BY <1>1, <1>4 DEF TreeInv, Searched
        <3>2. \A m \in visited : depth'[m] = depth[m]
            BY <1>2, <1>6, <1>7
        <3>3. n \in Successors(resp, Current) /\ depth'[n] = depth'[Current] + 1
            BY <1>5, <1>6, <1>7, <3>2
        <3> QED
            BY <1>1, <1>5, <3>1, <3>2, <3>3
    <2> QED
        BY <1>1, <2>1, <2>2, <2>3, <2>4, <2>5 DEF TreeInv
<1>12. QueueInv'
    <2>1. /\ \A i \in 1 .. Len(queue) : queue[i] \in visited
          /\ \A i, j \in 1 .. Len(queue) : i <= j => depth[queue[i]] <= depth[queue[j]]
          /\ \A m \in visited : depth[m] <= depth[queue[1]] + 1
        BY <1>1, <1>4 DEF QueueInv
    <2>2. \A i \in 1 .. Len(queue) : depth'[queue'[i]] = depth[queue[i]]
        BY <1>2, <1>6, <1>7, <1>8, <2>1
    <2>3. \A i \in 1 .. Len(queue') : i \in 1 .. Len(queue) \/ i = Len(queue) + 1
        BY <1>3, <1>8
    <2>4. \A i \in 1 .. Len(queue') : queue'[i] \in visited'
        BY <1>1, <1>8, <2>1, <2>3
    <2>5. \A i \in 1 .. Len(queue) : depth[queue[i]] <= depth[Current] + 1
        BY <1>3, <2>1
    <2>6. ASSUME NEW i \in 1 .. Len(queue'), NEW j \in 1 .. Len(queue'), i <= j
          PROVE  depth'[queue'[i]] <= depth'[queue'[j]]
        <3>1. CASE j \in 1 .. Len(queue)
            <4>1. i \in 1 .. Len(queue)
                BY <1>3, <2>6, <3>1
            <4> QED
                BY <2>1, <2>2, <2>6, <3>1, <4>1
        <3>2. CASE j = Len(queue) + 1 /\ i \in 1 .. Len(queue)
            BY <1>7, <1>8, <2>2, <2>5, <3>2
        <3>3. CASE j = Len(queue) + 1 /\ i = Len(queue) + 1
            BY <1>2, <1>3, <1>7, <1>8, <3>3
        <3> QED
            BY <2>3, <3>1, <3>2, <3>3
    <2>7. \A m \in visited' : depth'[m] <= depth'[queue'[1]] + 1
        <3>1. depth'[queue'[1]] = depth[Current]
            BY <1>3, <2>2
        <3> QED
            BY <1>1, <1>2, <1>3, <1>6, <1>7, <2>1, <3>1
    <2> QED
        BY <2>4, <2>6, <2>7 DEF QueueInv
<1>13. ExpandedInv'
    <2>1. \A m \in visited : ~Queued(m) /\ depth[m] < MaxDepth =>
             \A p \in Successors(resp, m) : p \in visited /\ depth[p] <= depth[m] + 1
        BY <1>1, <1>4 DEF ExpandedInv, Searched
    <2>2. Queued(n)'
        BY <1>3, <1>8 DEF Queued
    <2>3. \A m : Queued(m) => Queued(m)'
        BY <1>3, <1>8 DEF Queued
    <2>4. \A m \in visited : depth'[m] = depth[m]
        BY <1>2, <1>6, <1>7
    <2> QED
        BY <1>1, <1>2, <2>1, <2>2, <2>3, <2>4 DEF ExpandedInv
<1>14. CacheInv'
    BY <1>1, CacheDuringSearch DEF HasReply
<1> QED
    BY <1>9, <1>10, <1>11, <1>12, <1>13, <1>14 DEF IInv, SearchInv

LEMMA LeaveStep ==
    ASSUME IInv, Leave
    PROVE  IInv'
<1> USE BoundFacts
<1>1. /\ UNCHANGED <<world, shown, idleFor, cache, phase, key, elapsed, resp, visited, depth, answer>>
      /\ phase = "searching" /\ queue # << >> /\ Unvisited = {} /\ queue' = Tail(queue)
    BY DEF Leave, marquez
<1>2. /\ queue \in Seq(Nodes) /\ visited \subseteq Nodes /\ depth \in [Nodes -> 0 .. MaxDepth]
    BY DEF IInv, TypeOK
<1>3. /\ Len(queue) \in Nat /\ Len(queue) > 0 /\ Current = queue[1] /\ Current \in Nodes
    BY <1>1, <1>2 DEF Current
<1>4. CleanInv /\ TreeInv /\ QueueInv /\ ExpandedInv
    BY DEF IInv, SearchInv
<1>5. /\ queue' \in Seq(Nodes) /\ Len(queue') = Len(queue) - 1
      /\ \A i \in 1 .. Len(queue') : i + 1 \in 1 .. Len(queue) /\ queue'[i] = queue[i + 1]
      /\ queue' # << >> => 1 \in 1 .. Len(queue')
    BY <1>1, <1>2, <1>3
<1>6. TypeOK'
    BY <1>1, <1>2, <1>5 DEF IInv, TypeOK
<1>7. CleanInv'
    BY <1>1, <1>4 DEF CleanInv, Searched
<1>8. TreeInv'
    BY <1>1, <1>4 DEF TreeInv, Searched, Topic
<1>9. /\ \A i \in 1 .. Len(queue) : queue[i] \in visited
      /\ \A i, j \in 1 .. Len(queue) : i <= j => depth[queue[i]] <= depth[queue[j]]
      /\ \A m \in visited : depth[m] <= depth[Current] + 1
    BY <1>1, <1>3, <1>4 DEF QueueInv
<1>10. QueueInv'
    <2>1. \A i \in 1 .. Len(queue') : queue'[i] \in visited'
        BY <1>1, <1>5, <1>9
    <2>2. ASSUME NEW i \in 1 .. Len(queue'), NEW j \in 1 .. Len(queue'), i <= j
          PROVE  depth'[queue'[i]] <= depth'[queue'[j]]
        <3>1. /\ i + 1 \in 1 .. Len(queue) /\ queue'[i] = queue[i + 1]
              /\ j + 1 \in 1 .. Len(queue) /\ queue'[j] = queue[j + 1]
            BY <1>5
        <3>2. i + 1 <= j + 1
            BY <2>2
        <3> QED
            BY <1>1, <1>9, <3>1, <3>2
    <2>3. ASSUME queue' # << >>, NEW m \in visited'
          PROVE  depth'[m] <= depth'[queue'[1]] + 1
        <3>1. 2 \in 1 .. Len(queue) /\ 1 \in 1 .. Len(queue) /\ queue'[1] = queue[2]
            BY <1>5, <2>3
        <3>2. depth[Current] <= depth[queue[2]]
            BY <1>3, <1>9, <3>1
        <3>3. /\ depth[m] \in Nat /\ depth[Current] \in Nat /\ depth[queue[2]] \in Nat
              /\ depth[m] <= depth[Current] + 1
            BY <1>1, <1>2, <1>3, <1>9, <2>3, <3>1
        <3> QED
            BY <1>1, <3>1, <3>2, <3>3
    <2> QED
        BY <2>1, <2>2, <2>3 DEF QueueInv
<1>11. ExpandedInv'
    <2> SUFFICES ASSUME NEW m \in visited, ~Queued(m)', depth[m] < MaxDepth,
                        NEW p \in Successors(resp, m)
                 PROVE  p \in visited /\ depth[p] <= depth[m] + 1
        BY <1>1 DEF ExpandedInv
    <2>1. CASE m = Current
        <3>1. p \in visited
            BY <1>1, <2>1 DEF Unvisited
        <3> QED
            BY <1>9, <2>1, <3>1
    <2>2. CASE m # Current
        <3>1. ~Queued(m)
            <4> SUFFICES ASSUME NEW i \in 1 .. Len(queue), queue[i] = m PROVE FALSE
                BY DEF Queued
            <4>1. i # 1 /\ i - 1 \in 1 .. Len(queue')
                BY <1>3, <1>5, <2>2
            <4>2. queue'[i - 1] = queue[i - 1 + 1] /\ i - 1 + 1 = i
                BY <1>5, <4>1
            <4> QED
                BY <4>1, <4>2 DEF Queued
        <3> QED
            BY <1>1, <1>4, <3>1 DEF ExpandedInv, Searched
    <2> QED
        BY <2>1, <2>2
<1>12. CacheInv'
    BY <1>1, CacheDuringSearch DEF HasReply
<1> QED
    BY <1>6, <1>7, <1>8, <1>10, <1>11, <1>12 DEF IInv, SearchInv

LEMMA EndStep ==
    ASSUME IInv, EndSearch
    PROVE  IInv'
<1>1. /\ UNCHANGED <<world, shown, idleFor, cache, key, elapsed, resp, visited, depth, queue, answer>>
      /\ phase = "searching" /\ queue = << >> /\ phase' = "found"
    BY DEF EndSearch, marquez, search
<1>2. visited # {}
    BY <1>1 DEF IInv, SearchInv, TreeInv, Searched
<1>3. TypeOK'
    BY <1>1 DEF IInv, TypeOK
<1>4. SearchInv'
    BY <1>1, <1>2 DEF IInv, SearchInv, CleanInv, TreeInv, QueueInv, ExpandedInv, Searched, Queued, Topic
<1>5. CacheInv'
    BY <1>1, CacheDuringSearch DEF HasReply
<1> QED
    BY <1>3, <1>4, <1>5 DEF IInv

LEMMA FoundHops == IInv => Layered
<1> SUFFICES ASSUME IInv, phase = "found", visited # {}
             PROVE  AreHops(resp, Topic, visited, depth)
    BY DEF Layered
<1>1. queue = << >> /\ Searched
    BY DEF IInv, SearchInv, CleanInv, Searched
<1>2. \A m : ~Queued(m)
    BY <1>1 DEF Queued
<1> QED
    BY <1>1, <1>2 DEF IInv, SearchInv, TreeInv, ExpandedInv, AreHops

-----------------------------------------------------------------------------
(* The report.                                                             *)

LEMMA ResultType ==
    ASSUME IInv, phase = "found"
    PROVE  Result \in Reports
<1>1. CASE visited = {}
    BY <1>1, NoLineageType DEF Result
<1>2. CASE visited # {}
    <2>1. resp \in Graph
        BY <1>2, ReplyFacts DEF IInv, SearchInv, CleanInv, Searched
    <2>2. depth \in [Nodes -> 0 .. MaxDepth] /\ Changed \in SUBSET Fields
        BY KeyFacts DEF IInv, TypeOK, Changed
    <2> QED
        BY <1>2, <2>1, <2>2, ReportType DEF Result
<1> QED
    BY <1>1, <1>2

LEMMA AssembleStep ==
    ASSUME IInv, Assemble
    PROVE  IInv'
<1> USE BoundFacts, ReplyFacts
<1>1. /\ UNCHANGED <<world, shown, idleFor, key>> /\ Return /\ phase = "found"
      /\ cache' = [cache EXCEPT ![key] = [from |-> resp, report |-> Result, age |-> 0]]
      /\ answer' = [topic |-> Topic, how |-> "fresh", from |-> resp, report |-> Result]
    BY DEF Assemble, Answer, marquez
<1>2. /\ key \in Keys /\ Topic \in Topics /\ Changed \in SUBSET Fields /\ Topic = key[1]
      /\ Changed = key[2]
      /\ resp \in Replies /\ elapsed \in 0 .. FetchTimeout /\ depth \in [Nodes -> 0 .. MaxDepth]
      /\ visited \subseteq Nodes
      /\ cache \in [Keys -> Entry \cup {NoEntry}]
      /\ idleFor \in [Topics -> [Replies -> 0 .. Never]]
    BY KeyFacts DEF IInv, TypeOK, Topic, Changed
<1>3. Result \in Reports
    BY <1>1, ResultType
<1>4. PICK made : made = [from |-> resp, report |-> Result, age |-> 0]
    OBVIOUS
<1>5. made \in Entry /\ made.from = resp /\ made.report = Result /\ made.age = 0
    BY <1>2, <1>3, <1>4 DEF Entry
<1>6. /\ cache' \in [Keys -> Entry \cup {NoEntry}] /\ cache'[key] = made
      /\ \A k \in Keys : k # key => cache'[k] = cache[k]
    BY <1>1, <1>2, <1>4, <1>5
<1>7. TypeOK'
    <2>1. answer' \in Answers
        BY <1>1, <1>2, <1>3 DEF Answers
    <2> QED
        BY <1>1, <1>6, <2>1 DEF IInv, TypeOK, Return, Unsearched
<1>8. ShownInv'
    BY <1>1 DEF IInv, CacheInv, ShownInv
<1>9. EntryInv'
    <2> SUFFICES ASSUME NEW k \in Keys, cache'[k] # NoEntry
                 PROVE  /\ cache'[k].from \in Replies /\ idleFor[k[1]][cache'[k].from] <= Bound
                        /\ cache'[k].age < TTL =>
                             idleFor[k[1]][cache'[k].from] <= cache'[k].age + FetchTimeout
        BY <1>1 DEF EntryInv, Was
    <2>1. CASE k = key
        <3>1. idleFor[Topic][resp] <= Bound /\ idleFor[Topic][resp] <= elapsed
            BY <1>1 DEF IInv, CacheInv, ReplyInv, HasReply, Was
        <3>2. idleFor[Topic][resp] \in Nat
            BY <1>2
        <3>3. idleFor[Topic][resp] <= 0 + FetchTimeout
            BY <1>2, <3>1, <3>2
        <3> QED
            BY <1>2, <1>5, <1>6, <2>1, <3>1, <3>3
    <2>2. CASE k # key
        BY <1>6, <2>2 DEF IInv, CacheInv, EntryInv, Was
    <2> QED
        BY <2>1, <2>2
<1>10. ReportInv'
    <2>1. OfHops(key, made)
        <3>1. CASE visited = {}
            <4>1. resp = Outage \/ NodesOf(resp) = {}
                BY <1>1, <3>1 DEF IInv, SearchInv, CleanInv
            <4> QED
                BY <1>5, <3>1, <4>1 DEF OfHops, Result
        <3>2. CASE visited # {}
            <4>1. AreHops(resp, Topic, visited, depth)
                BY <1>1, <3>2, FoundHops DEF Layered
            <4>2. Result = Report(resp, depth, Changed)
                BY <3>2 DEF Result
            <4>3. resp # Outage
                BY <1>1, <3>2 DEF IInv, SearchInv, CleanInv, Searched
            <4>4. NodesOf(resp) # {}
                BY <4>1, HopsHaveNodes
            <4> QED
                BY <1>2, <1>5, <4>1, <4>2, <4>3, <4>4 DEF OfHops
        <3> QED
            BY <3>1, <3>2
    <2>2. \A k \in Keys : k # key /\ cache[k] # NoEntry => OfHops(k, cache[k])
        BY DEF IInv, CacheInv, ReportInv
    <2>3. \A k \in Keys : cache'[k] # NoEntry => OfHops(k, cache'[k])
        BY <1>6, <2>1, <2>2
    <2> QED
        BY <2>3 DEF ReportInv, OfHops
<1> QED
    BY <1>1, <1>7, <1>8, <1>9, <1>10, Returned DEF IInv, CacheInv

LEMMA IInvStep == IInv /\ [Next]_vars => IInv'
<1> SUFFICES ASSUME IInv, [Next]_vars PROVE IInv'
    OBVIOUS
<1>1. CASE \E t \in Topics, g \in Replies : MarquezShows(t, g)
    BY <1>1, MarquezStep
<1>2. CASE Tick
    BY <1>2, TickStep
<1>3. CASE \E k \in Keys : Hit(k) \/ Miss(k)
    BY <1>3, RequestStep
<1>4. CASE Serve \/ FetchFails
    BY <1>4, ServeStep, FailsStep
<1>5. CASE Steps
    BY <1>5, NoReportStep, LeaveStep, EndStep, AssembleStep, StartStep, VisitStep DEF Steps
<1>6. CASE Restart
    BY <1>6, RestartStep
<1>7. CASE UNCHANGED vars
    <2>1. UNCHANGED <<world, shown, idleFor, cache, phase, key, elapsed, resp, visited, depth, queue,
                      search, answer>>
        BY <1>7 DEF vars, marquez, search
    <2>2. TypeOK'
        BY <2>1 DEF IInv, TypeOK
    <2>3. SearchInv'
        BY <2>1, SearchKept DEF IInv
    <2>4. ReplyInv'
        BY <2>1 DEF IInv, CacheInv, ReplyInv, HasReply, Was, Topic
    <2> QED
        BY <2>1, <2>2, <2>3, <2>4, CacheKept DEF IInv, CacheInv
<1> QED
    BY <1>1, <1>2, <1>3, <1>4, <1>5, <1>6, <1>7 DEF Next

LEMMA IInvHolds == Spec => []IInv
BY IInvInit, IInvStep, PTL DEF Spec

-----------------------------------------------------------------------------
\* The variables keep their types for every graph and every bound.
THEOREM TypeCorrect == Spec => []TypeOK
<1>1. IInv => TypeOK
    BY DEF IInv
<1> QED
    BY <1>1, IInvHolds, PTL

\* DAGTraverser's promise, on every finite or infinite graph, with cycles or
\* not: when the search ends, depth is the distance from the source.
THEOREM SearchIsLayered == Spec => []Layered
BY FoundHops, IInvHolds, PTL

\* A cached report is the one that the numbers of hops give, and says
\* "no lineage" only of an outage or of a graph without nodes.
LEMMA ExactInv == IInv => ReportIsExact
<1> SUFFICES ASSUME IInv, NEW k \in Keys, cache[k] # NoEntry
             PROVE  cache[k].report \in IF cache[k].from = Outage THEN {NoLineage}
                                        ELSE ExactReports(cache[k].from, k[1], k[2], MaxDepth)
    BY DEF ReportIsExact
<1>1. OfHops(k, cache[k])
    BY DEF IInv, CacheInv, ReportInv
<1>2. CASE cache[k].from = Outage \/ NodesOf(cache[k].from) = {}
    BY <1>1, <1>2 DEF OfHops, ExactReports
<1>3. CASE cache[k].from # Outage /\ NodesOf(cache[k].from) # {}
    <2>1. PICK found \in SUBSET Nodes, d \in [Nodes -> 0 .. MaxDepth] :
            AreHops(cache[k].from, k[1], found, d) /\ cache[k].report = Report(cache[k].from, d, k[2])
        BY <1>1, <1>3 DEF OfHops
    <2>2. PICK s \in Sources(cache[k].from, k[1]) : Hops(cache[k].from, s, MaxDepth) = d
        BY <2>1, KeyFacts, AreHopsIsHops
    <2> QED
        BY <1>3, <2>1, <2>2 DEF ExactReports
<1> QED
    BY <1>2, <1>3

\* Every cached report is the one that the numbers of hops in its graph give.
THEOREM ReportsAreExact == Spec => []ReportIsExact
BY ExactInv, IInvHolds, PTL

\* The report of a distance names every owner of a consumer that uses a changed field.
LEMMA OwnerInReport ==
    ASSUME NEW g \in Graph, NEW d \in [Nodes -> 0 .. MaxDepth], NEW changed, NEW n \in Nodes,
           d[n] > 0, g.fields[n] \cap changed # {}, g.team[n] # NoTeam
    PROVE  g.team[n] \in Report(g, d, changed).approvals
<1> DEFINE c == [node |-> n, depth |-> d[n], affected |-> g.fields[n] \cap changed,
                 impact |-> Impact(g.fields[n], changed, d[n])]
<1>1. Impact(g.fields[n], changed, d[n]) = "CRITICAL"
    BY DEF Impact
<1>2. c \in Consumers(g, d, changed)
    BY <1>1 DEF Consumers
<1>3. c.impact = "CRITICAL" /\ c.node = n
    BY <1>1
<1> HIDE DEF c
<1>4. g.team[n] \in Approvals(g, Consumers(g, d, changed))
    BY <1>2, <1>3 DEF Approvals
<1> QED
    BY <1>4 DEF Report

\* Whoever owns a consumer within reach that uses a changed field is asked, on
\* any graph and for any limit.
THEOREM OwnersAreAsked == Spec => []OwnersAsked
<1>1. IInv => OwnersAsked
    <2> SUFFICES ASSUME IInv, NEW k \in Keys, cache[k] # NoEntry, cache[k].from # Outage,
                        NodesOf(cache[k].from) # {}
                 PROVE  \E s \in Sources(cache[k].from, k[1]) : \A n \in Nodes :
                          /\ cache[k].from.fields[n] \cap k[2] # {}
                          /\ cache[k].from.team[n] # NoTeam
                          /\ Hops(cache[k].from, s, MaxDepth)[n] > 0
                          => cache[k].from.team[n] \in cache[k].report.approvals
        BY DEF OwnersAsked
    <2>1. PICK g \in Graphs : cache[k].from = g
        BY DEF IInv, TypeOK, Entry, Replies
    <2>2. PICK found \in SUBSET Nodes, d \in [Nodes -> 0 .. MaxDepth] :
            AreHops(g, k[1], found, d) /\ cache[k].report = Report(g, d, k[2])
        BY <2>1 DEF IInv, CacheInv, ReportInv, OfHops
    <2>3. PICK s \in Sources(g, k[1]) : Hops(g, s, MaxDepth) = d
        BY <2>2, KeyFacts, AreHopsIsHops
    <2>4. \A n \in Nodes : g.fields[n] \cap k[2] # {} /\ g.team[n] # NoTeam /\ d[n] > 0
                           => g.team[n] \in cache[k].report.approvals
        BY <2>1, <2>2, OwnerInReport, ReplyFacts
    <2> QED
        BY <2>1, <2>3, <2>4
<1> QED
    BY <1>1, IInvHolds, PTL

\* What the report cache promises is what the gateway's cache promises, with
\* Marquez's replies as the versions: a report is about lineage that Marquez
\* showed less than TTL + FetchTimeout ago.
THEOREM KeepsPromise == Spec => KeepsFreshnessPromise
<1>1. Init => View!ViewInit
    BY DEF Init, Promised, View!ViewInit, View!PlaneInit, View!Never, Never
<1>2. IInv /\ [Next]_vars => [View!ViewNext]_(View!viewVars)
    <2> SUFFICES ASSUME IInv, [Next]_vars PROVE View!ViewNext \/ UNCHANGED View!viewVars
        OBVIOUS
    <2> USE BoundFacts, ReplyFacts DEF View!ViewNext
    <2>1. ASSUME NEW t \in Topics, NEW g \in Replies, g # shown[t], Shows(t, g), UNCHANGED answer
          PROVE  View!ViewNext
        <3> DEFINE view == [u \in Topics |-> {shown[u]} \ {Unknown}]
        <3>1. /\ shown' = [shown EXCEPT ![t] = g]
              /\ idleFor' = [idleFor EXCEPT ![t][g] = 0]
              /\ UNCHANGED <<answer>> /\ g # Unknown
            BY <2>1 DEF Shows
        <3>2. view'[t] = {g} /\ view' = [view EXCEPT ![t] = {g}]
            <4>1. \A u \in Topics : shown'[u] = IF u = t THEN g ELSE shown[u]
                BY <3>1 DEF IInv, TypeOK
            <4>2. {g} \ {Unknown} = {g}
                BY <3>1
            <4> QED
                BY <4>1, <4>2
        <3>3. idleFor' = [idleFor EXCEPT ![t] =
                  [h \in Replies |-> IF h \in {g} THEN 0 ELSE idleFor[t][h]]]
            BY <3>1 DEF IInv, TypeOK
        <3>4. View!Supersede(t, {g})
            BY <3>2 DEF View!Supersede
        <3>5. View!Activate(t, {g})
            BY <3>1, <3>3, <3>4 DEF View!Activate, Promised
        <3> QED
            BY <3>2, <3>5
    <2>2. ASSUME NEW t \in Topics, Shows(t, shown[t]), UNCHANGED answer, shown[t] # Unknown
          PROVE  UNCHANGED View!viewVars
        <3>1. idleFor[t][shown[t]] = 0
            BY <2>2 DEF IInv, CacheInv, ShownInv
        <3>2. shown' = shown /\ idleFor' = idleFor
            BY <2>2, <3>1 DEF Shows, IInv, TypeOK
        <3> QED
            BY <2>2, <3>2 DEF View!viewVars, Promised
    <2>3. CASE FetchFails
        <3>1. Topic \in Topics /\ Shows(Topic, Outage) /\ UNCHANGED answer
            BY <2>3, KeyFacts DEF FetchFails, IInv, TypeOK, Topic
        <3>2. CASE shown[Topic] = Outage
            BY <2>2, <3>1, <3>2
        <3>3. CASE shown[Topic] # Outage
            BY <2>1, <3>1, <3>3
        <3> QED
            BY <3>2, <3>3
    <2>4. CASE \E t \in Topics, g \in Replies : MarquezShows(t, g)
        BY <2>1, <2>4 DEF MarquezShows
    <2>5. CASE Tick
        <3>1. View!Elapse
            BY <2>5 DEF Tick, View!Elapse, Promised
        <3> QED
            BY <3>1
    <2>6. ASSUME NEW t \in Topics, NEW g \in Replies, NEW report \in Reports, idleFor[t][g] < Bound,
                 Answer(t, "fresh", g, report), UNCHANGED <<shown, idleFor>>
          PROVE  View!ViewNext
        <3>1. Promised' = [topic |-> t, how |-> "fresh", version |-> g]
            <4>1. answer' = [topic |-> t, how |-> "fresh", from |-> g, report |-> report]
                BY <2>6 DEF Answer
            <4>2. answer' # NoAnswer
                <5>1. answer' \in Answers
                    BY <4>1 DEF Answers
                <5> QED
                    BY <5>1, AnalyzerAssumption
            <4> QED
                BY <4>1, <4>2 DEF Promised
        <3>2. View!AnswerFresh("analyzer", t, g)
            BY <2>6, <3>1 DEF View!AnswerFresh, View!Reply
        <3> QED
            BY <3>2
    <2>7. ASSUME NEW k \in Keys, Hit(k)
          PROVE  View!ViewNext
        <3>1. cache[k] \in Entry /\ cache[k] # NoEntry /\ cache[k].age < TTL /\ k[1] \in Topics
            BY <2>7, KeyFacts DEF Hit, Fresh, IInv, TypeOK
        <3>2. PICK g \in Replies : cache[k].from = g
            BY <3>1 DEF Entry
        <3>3. idleFor[k[1]][g] \in Nat /\ cache[k].age \in Nat
            BY <3>1, <3>2 DEF Entry, IInv, TypeOK
        <3>4. idleFor[k[1]][g] <= cache[k].age + FetchTimeout
            BY <3>1, <3>2 DEF IInv, CacheInv, EntryInv
        <3>5. idleFor[k[1]][g] < Bound
            BY <3>1, <3>3, <3>4
        <3> QED
            BY <2>6, <2>7, <3>1, <3>2, <3>5 DEF Hit, marquez, Entry
    <2>8. CASE Assemble
        <3>1. Topic \in Topics /\ resp \in Replies /\ elapsed \in 0 .. FetchTimeout
            BY KeyFacts DEF IInv, TypeOK, Topic
        <3>2. idleFor[Topic][resp] \in Nat /\ idleFor[Topic][resp] <= elapsed
            BY <2>8, <3>1 DEF Assemble, IInv, TypeOK, CacheInv, ReplyInv, HasReply
        <3>3. idleFor[Topic][resp] < Bound
            BY <3>1, <3>2
        <3>4. Result \in Reports
            BY <2>8, ResultType DEF Assemble
        <3> QED
            BY <2>6, <2>8, <3>1, <3>3, <3>4 DEF Assemble, marquez
    <2>9. CASE Fails
        <3>1. Topic \in Topics /\ UNCHANGED <<shown, idleFor>>
            BY <2>9, KeyFacts DEF Fails, marquez, IInv, TypeOK, Topic
        <3>2. Promised' = [topic |-> Topic, how |-> "error", version |-> Unknown]
            <4>1. answer' = [topic |-> Topic, how |-> "error", from |-> resp, report |-> NoLineage]
                BY <2>9 DEF Fails, Answer
            <4>2. answer' \in Answers
                BY <3>1, <4>1, NoLineageType DEF Answers, IInv, TypeOK
            <4> QED
                BY <4>1, <4>2, AnalyzerAssumption DEF Promised
        <3>3. View!Refuse("analyzer", Topic)
            BY <3>1, <3>2 DEF View!Refuse, View!Reply
        <3> QED
            BY <3>1, <3>3
    <2>10. ASSUME NEW k \in Keys, Miss(k)
           PROVE  View!ViewNext
        <3>1. View!Ask("analyzer")
            BY <2>10 DEF Miss, View!Ask, marquez, Promised
        <3> QED
            BY <3>1
    <2>11. CASE Restart
        <3>1. View!Forget
            BY <2>11 DEF Restart, View!Forget, marquez, Promised
        <3> QED
            BY <3>1
    <2>12. ASSUME UNCHANGED <<shown, idleFor, answer>>
           PROVE  UNCHANGED View!viewVars
        BY <2>12 DEF View!viewVars, Promised
    <2>13. ASSUME NEW n \in Nodes,
                  Serve \/ NoNodes \/ StartSearch(n) \/ Visit(n) \/ Leave \/ EndSearch \/ UNCHANGED vars
           PROVE  UNCHANGED View!viewVars
        BY <2>12, <2>13 DEF Serve, NoNodes, StartSearch, Visit, Leave, EndSearch, vars, marquez
    <2>14. ASSUME Serve \/ NoNodes \/ Leave \/ EndSearch \/ UNCHANGED vars
           PROVE  UNCHANGED View!viewVars
        BY <2>12, <2>14 DEF Serve, NoNodes, Leave, EndSearch, vars, marquez
    <2> HIDE DEF View!ViewNext
    <2> QED
        BY <2>3, <2>4, <2>5, <2>7, <2>8, <2>9, <2>10, <2>11, <2>13, <2>14 DEF Next, Steps
<1> QED
    BY <1>1, <1>2, IInvHolds, PTL DEF Spec, KeepsFreshnessPromise, View!ViewSpec
=============================================================================
