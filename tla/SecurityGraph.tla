--------------------------- MODULE SecurityGraph ---------------------------
(***************************************************************************)
(* Security graph snapshots: their repository, and the bounded path query  *)
(* that the exposure questions (externally reachable privileged tools,     *)
(* protected assets, vulnerable dependencies) are instances of.  A graph   *)
(* is told apart by its edges and by which nodes match the query's start   *)
(* and end types and attributes.                                           *)
(***************************************************************************)
EXTENDS Naturals

CONSTANTS
    Nodes,       \* node keys
    Graphs,      \* valid graphs that are saved
    SnapshotIds, Scopes,
    MaxDepth,    \* max_depth of the query
    Unsaved

\* SecurityGraph._validate_state: edges reference observed nodes only.
ValidGraph(g) ==
    /\ DOMAIN g = {"nodes", "edges", "starts", "ends"}
    /\ g.nodes \subseteq Nodes
    /\ g.edges \subseteq g.nodes \X g.nodes
    /\ g.starts \subseteq g.nodes /\ g.ends \subseteq g.nodes

ASSUME GraphAssumption ==
    /\ MaxDepth \in Nat \ {0}
    /\ \A g \in Graphs : ValidGraph(g)

VARIABLE graphs \* SecurityGraphSnapshotRow by snapshot id

GraphRow == [scope : Scopes, graph : Graphs]

GraphInit == graphs = [i \in SnapshotIds |-> Unsaved]

\* save: an identity is bound to one scope and one digest; a replay of the
\* same graph changes nothing, anything else raises.
Save(i, scope, g) ==
    /\ graphs[i] \in {Unsaved, [scope |-> scope, graph |-> g]}
    /\ graphs' = [graphs EXCEPT ![i] = [scope |-> scope, graph |-> g]]

-----------------------------------------------------------------------------
\* _adjacency.
Targets(g, n) == {m \in g.nodes : <<n, m>> \in g.edges}

\* Mutant of Frontier: an end node that is also a start ends its own search.
FrontierStopsAtEnds(g, s) ==
    LET f[d \in 0..MaxDepth] ==
            IF d = 0 THEN {s}
            ELSE UNION {Targets(g, n) : n \in f[d - 1] \ g.ends}
    IN  f

\* The nodes the breadth-first loop of paths_between queues at each depth from
\* one start: visited holds (node, depth), so each node once per depth; an end
\* node that is reached is not searched further.
Frontier(g, s) ==
    LET f[d \in 0..MaxDepth] ==
            IF d = 0 THEN {s}
            ELSE UNION {Targets(g, n) : n \in f[d - 1] \ (IF d = 1 THEN {} ELSE g.ends)}
    IN  f

\* paths_between: the start, end and length of every path it returns.
PathsBetween(g) ==
    {p \in g.starts \X g.ends \X (1..MaxDepth) : p[2] \in Frontier(g, p[1])[p[3]]}

GraphTypeOK == graphs \in [SnapshotIds -> GraphRow \cup {Unsaved}]

\* A walk of n edges from s to e that meets no other end on its way.
Walks(g, s, e, n) ==
    \E w \in [0..n -> g.nodes] :
        /\ w[0] = s /\ w[n] = e
        /\ \A i \in 1..n : <<w[i - 1], w[i]>> \in g.edges
        /\ \A i \in 1..(n - 1) : w[i] \notin g.ends

\* On every stored graph, cyclic or not, the query returns exactly the ends
\* that a walk within max_depth reaches first, and the shortest such walk is
\* among its paths (paths_between: visited, depth bound and stop at ends).
QueryFindsEveryExposure ==
    \A i \in SnapshotIds : graphs[i] # Unsaved =>
        LET g == graphs[i].graph
        IN  \A s \in g.starts, e \in g.ends, n \in 1..MaxDepth :
                Walks(g, s, e, n) <=> <<s, e, n>> \in PathsBetween(g)
=============================================================================
