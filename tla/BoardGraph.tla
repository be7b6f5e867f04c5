------------------------------ MODULE BoardGraph ------------------------------
(***************************************************************************)
(* The graph of an investigation board: what frontend/investigation.js and *)
(* the server's BoardGraph do to its nodes and edges.  A node is its id,   *)
(* which both lower-case before they compare; label, position and type are *)
(* left out, but for the types a filter hides.                             *)
(***************************************************************************)
EXTENDS Naturals, Sequences, FiniteSets

Graph(Entities) ==
    [nodes: SUBSET Entities, edges: SUBSET (Entities \X Entities),
     new: SUBSET Entities, notes: SUBSET Entities]

NoGraph == [nodes |-> {}, edges |-> {}, new |-> {}, notes |-> {}]

\* A node that is there already stays as it is.
addNode(g, n) == [g EXCEPT !.nodes = @ \cup {n}]

\* No loops, and one edge from a node to another.
addEdge(g, s, t) == IF s = t THEN g ELSE [g EXCEPT !.edges = @ \cup {<<s, t>>}]

\* The root itself is not added: it may be gone, or belong to another board.
mergeScan(g, root, found) ==
    LET linked == found \ {root} IN
    [g EXCEPT !.nodes = @ \cup linked, !.edges = @ \cup ({root} \X linked)]

mergeGraph(g, h) ==
    [g EXCEPT !.nodes = @ \cup h.nodes,
              !.edges = @ \cup {e \in h.edges : e[1] # e[2]}]

removeNode(g, n) ==
    [nodes |-> g.nodes \ {n}, edges |-> {e \in g.edges : n \notin {e[1], e[2]}},
     new |-> g.new \ {n}, notes |-> g.notes \ {n}]

acknowledge(g) == [g EXCEPT !.new = {}]

\* The watch runner's extract and merge, for each node it has scanned: only nodes the
\* graph lacks are new.
grow(g, roots, found) ==
    LET linked(root) == found[root] \ {root}
        all == UNION {linked(root) : root \in roots}
    IN  [g EXCEPT !.nodes = @ \cup all,
                  !.edges = @ \cup UNION {{root} \X linked(root) : root \in roots},
                  !.new = @ \cup (all \ g.nodes)]

-------------------------------------------------------------------------------
(* The connection finder *)

\* Mutant: edges are followed from their source to their target only.
AdjacentDirected(g, shown, n) ==
    {m \in g.nodes \cap shown : n \in g.nodes \cap shown /\ <<n, m>> \in g.edges}

\* Edges count both ways, between nodes that are there and shown.
Adjacent(g, shown, n) ==
    {m \in g.nodes \cap shown :
        n \in g.nodes \cap shown /\ (<<n, m>> \in g.edges \/ <<m, n>> \in g.edges)}

\* One round of the breadth-first search: of each neighbour of what is in prev that
\* is not there yet, prev says from where it was reached.
Round(g, shown, prev) ==
    LET near == UNION {Adjacent(g, shown, n) : n \in DOMAIN prev}
    IN  [n \in DOMAIN prev \cup near |->
            IF n \in DOMAIN prev THEN prev[n]
            ELSE CHOOSE m \in DOMAIN prev : n \in Adjacent(g, shown, m)]

\* prev after k rounds of the search from a; a is its own.
Reached(g, shown, a, k) ==
    LET prev[i \in 0..k] ==
            IF i = 0 THEN [n \in {a} |-> a] ELSE Round(g, shown, prev[i - 1])
    IN  prev[k]

\* The path p, longer by the node before its first, until that is a.
Back(prev, a, p) == IF p[1] = a THEN p ELSE <<prev[p[1]]>> \o p

\* Ids from a to b, or <<>> when nothing connects them.
shortestPath(g, shown, a, b) ==
    LET last == Cardinality(g.nodes)
        prev == Reached(g, shown, a, last)
        path[k \in 0..last] == IF k = 0 THEN <<b>> ELSE Back(prev, a, path[k - 1])
    IN  IF b \in DOMAIN prev THEN path[last] ELSE <<>>

\* What a path is, for comparison: steps along edges that are shown.
IsPath(g, shown, a, b, p) ==
    /\ p[1] = a /\ p[Len(p)] = b
    /\ \A i \in 1..(Len(p) - 1) :
        <<p[i], p[i + 1]>> \in g.edges \/ <<p[i + 1], p[i]>> \in g.edges
    /\ a # b => \A i \in DOMAIN p : p[i] \in g.nodes \cap shown

===============================================================================
