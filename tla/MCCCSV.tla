--------------------------------- MODULE MCCCSV ---------------------------------
(* CCSV for TLC: every graph without loops, directed on three vertices,      *)
(* undirected on four.                                                       *)
EXTENDS CCSV, TLC

Loopless(V) == {g \in [V -> SUBSET V] : \A v \in V : v \notin g[v]}

Symmetric(V) == {g \in Loopless(V) : \A u, v \in V : v \in g[u] <=> u \in g[v]}

DirectedGraphs == {[out_neigh |-> (3 :> {}) @@ g, directed |-> TRUE] : g \in Loopless(0 .. 2)}
UndirectedGraphs == {[out_neigh |-> g, directed |-> FALSE] : g \in Symmetric(0 .. 3)}
AllGraphs == DirectedGraphs \cup UndirectedGraphs

================================================================================
