------------------------------ MODULE MCAnalyzer ------------------------------
(***************************************************************************)
(* One topic s; a job a, and two datasets b and c, of which c may be three *)
(* hops away when two are searched.  One history for each subset of three  *)
(* edges (chains, detours, parts out of reach); one with cycles through    *)
(* the source and beside it; some where the topic's node has another id,   *)
(* is missing, or nothing is there at all; one where the graph changes.    *)
(***************************************************************************)
EXTENDS Analyzer

CONSTANTS orders, s, a, b, c, f1, f2, x, y

MCNodes == {s, a, b, c}
MCCanonical == [t \in {orders} |-> s]
MCChanges == {{f1}, {f1, f2}}

Owned == [n \in MCNodes |-> IF n \in {a, b} THEN x ELSE IF n = c THEN y ELSE NoTeam]
FieldsOf == [n \in MCNodes |-> IF n = b THEN {f2} ELSE IF n = c THEN {f1} ELSE {}]

\* Marquez's graph with these edges, in which node n is the topic; unless
\* is one, a node that no edge touches is not in it.
From(n, edges) ==
    [edges |-> edges,
     name |-> [m \in MCNodes |-> IF m = n THEN orders ELSE NoName],
     fields |-> FieldsOf, team |-> Owned]

Searched == {From(s, {<<a, b>>} \cup edges) : edges \in SUBSET {<<s, a>>, <<s, b>>, <<b, c>>}}
Cyclic == From(s, {<<s, a>>, <<a, b>>, <<b, a>>, <<b, s>>, <<b, c>>})
Renamed == From(a, {<<a, b>>, <<b, c>>})
Missing == From(orders, {<<a, b>>})
Nothing == From(orders, {})

Long == From(s, {<<s, a>>, <<a, b>>, <<b, c>>})
Short == From(s, {<<s, b>>, <<a, b>>, <<b, c>>})

MCGraphs == Searched \cup {Cyclic, Renamed, Missing, Nothing}
MCWorlds == {{g} : g \in MCGraphs} \cup {{Long, Short}}
=============================================================================
