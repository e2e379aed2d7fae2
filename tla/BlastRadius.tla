----------------------------- MODULE BlastRadius -----------------------------
(***************************************************************************)
(* The pure part of the analyzer: the lineage graph it builds from what    *)
(* Marquez answers, the node its traversal starts at, the impact of a      *)
(* change on a consumer, and the report.  The report's wording and the     *)
(* order of its consumers are left out.                                    *)
(***************************************************************************)
EXTENDS Naturals

CONSTANTS
    Topics, Nodes, Fields, Teams,
    Canonical,  \* the node "dataset:{namespace}:{topic}" of each topic
    NoName, NoTeam

\* A node that only an edge mentions, or whose type is neither DATASET nor
\* JOB, has no attributes; a job has no fields.
Graph == [edges  : SUBSET (Nodes \X Nodes),
          name   : [Nodes -> Topics \cup {NoName}],
          fields : [Nodes -> SUBSET Fields],
          team   : [Nodes -> Teams \cup {NoTeam}]]

ASSUME BlastRadiusAssumption ==
    /\ Canonical \in [Topics -> Nodes]
    /\ NoName \notin Topics
    /\ NoTeam \notin Teams

Successors(g, n) == {m \in Nodes : <<n, m>> \in g.edges}
HasNode(g, n) == g.name[n] # NoName \/ \E m \in Nodes : {<<n, m>>, <<m, n>>} \cap g.edges # {}
NodesOf(g) == {n \in Nodes : HasNode(g, n)}

\* find_source_node_id: the canonical id, else any node of that name.
Sources(g, t) ==
    IF Canonical[t] \in NodesOf(g) THEN {Canonical[t]} ELSE {n \in NodesOf(g) : g.name[n] = t}

-----------------------------------------------------------------------------
(* _score_node, on the distance of the node from the source.               *)

\* Mutant: a consumer breaks only when it uses all that changes.
ImpactIfAll(fields, changed, depth) ==
    IF fields = {} THEN (IF depth = 1 THEN "MEDIUM" ELSE "NONE")
    ELSE IF changed \subseteq fields THEN "CRITICAL"
    ELSE IF depth = 1 THEN "HIGH" ELSE "NONE"

Impact(fields, changed, depth) ==
    IF fields = {} THEN (IF depth = 1 THEN "MEDIUM" ELSE "NONE")
    ELSE IF fields \cap changed # {} THEN "CRITICAL"
    ELSE IF depth = 1 THEN "HIGH" ELSE "NONE"

\* assemble: depth has the distance of each node found, 0 for the source and
\* for those not found.
Consumers(g, depth, changed) ==
    {[node |-> n, depth |-> depth[n], affected |-> g.fields[n] \cap changed,
      impact |-> Impact(g.fields[n], changed, depth[n])] :
        n \in {m \in Nodes : depth[m] > 0 /\ Impact(g.fields[m], changed, depth[m]) # "NONE"}}

Approvals(g, consumers) ==
    {g.team[c.node] : c \in {d \in consumers : d.impact \in {"CRITICAL", "HIGH"}}} \ {NoTeam}

Report(g, depth, changed) ==
    LET consumers == Consumers(g, depth, changed) IN
    [consumers |-> consumers, approvals |-> Approvals(g, consumers)]

NoLineage == [consumers |-> {}, approvals |-> {}]

-----------------------------------------------------------------------------
(* What the report should say: the least number of hops from the source,   *)
(* by the sets of nodes within k hops of it.                               *)

Within(g, s, bound) ==
    LET within[k \in 0 .. bound] ==
          IF k = 0 THEN {s}
          ELSE within[k - 1] \cup {n \in Nodes : \E m \in within[k - 1] : <<m, n>> \in g.edges}
    IN within

\* 0 for the source and for what is further away than bound.
Hops(g, s, bound) ==
    LET within == Within(g, s, bound) IN
    [n \in Nodes |->
       IF n \notin within[bound] THEN 0
       ELSE CHOOSE k \in 0 .. bound :
              n \in within[k] /\ \A j \in 0 .. k - 1 : n \notin within[j]]

ExactReports(g, t, changed, bound) ==
    IF NodesOf(g) = {} THEN {NoLineage}
    ELSE {Report(g, Hops(g, s, bound), changed) : s \in Sources(g, t)}
=============================================================================
