---------------------------------- MODULE MCCC ----------------------------------
(* CC for TLC.  The graphs the run searches, all on five vertices.           *)
EXTENDS CC, TLC

Loopless(V) == {g \in [V -> SUBSET V] : \A v \in V : v \notin g[v]}

Symmetric(V) == {g \in Loopless(V) : \A u, v \in V : v \in g[u] <=> u \in g[v]}

(* The vertices that are not in g have no edges.                             *)
Pad(g) == g @@ [v \in 0 .. 4 |-> {}]

(* Every graph without loops: directed on three vertices, undirected on four.*)
DirectedGraphs == {[out_neigh |-> Pad(g), directed |-> TRUE] : g \in Loopless(0 .. 2)}
UndirectedGraphs == {[out_neigh |-> Pad(g), directed |-> FALSE] : g \in Symmetric(0 .. 3)}

Undirected(edges) ==
  [out_neigh |-> [u \in 0 .. 4 |-> {v \in 0 .. 4 : {u, v} \in edges}], directed |-> FALSE]

(* Graphs in which labels travel: hubs with high ids that are hooked again   *)
(* and again, more neighbours than the rounds sample, a second component,    *)
(* and a bridge that only the final region links.                            *)
Hub == Undirected({{n, 4} : n \in 0 .. 3})
TwoHubs == Undirected({{0, 3}, {1, 3}, {2, 3}, {2, 4}, {1, 4}})
Pieces == Undirected({{0, 3}, {1, 4}, {2, 4}})
Bridge == Undirected({{0, 3}, {1, 3}, {3, 4}, {2, 4}})

(* Directed ones: roots that are hooked one after the other, so that a tree  *)
(* grows deep in one round, and a third edge that only its target can link.  *)
Cascade == [out_neigh |-> Pad(0 :> {1} @@ 2 :> {3} @@ 3 :> {1} @@ 4 :> {2}), directed |-> TRUE]
Fan == [out_neigh |-> Pad(0 :> {1, 2, 3} @@ 4 :> {3}), directed |-> TRUE]

AllGraphs == DirectedGraphs \cup UndirectedGraphs
               \cup {Hub, TwoHubs, Pieces, Bridge, Cascade, Fan}

================================================================================
