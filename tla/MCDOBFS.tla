------------------------------- MODULE MCDOBFS -------------------------------
(* DOBFS for TLC.  The sets of graphs the runs search.                       *)
EXTENDS DOBFS, TLC

(* Builds an undirected graph on seven vertices from its edges.              *)
Undirected(edges) == [u \in 0 .. 6 |-> {v \in 0 .. 6 : {u, v} \in edges}]

(* Builds a directed graph on seven vertices from what it has of lists.      *)
Directed(lists) == lists @@ [u \in 0 .. 6 |-> {}]

(* Frontiers that grow, shrink and grow again; hubs far from the source,     *)
(* vertices reachable in two ways, cycles and vertices out of reach.         *)
Diamond == Undirected({{0, 1}, {0, 2}, {1, 3}, {2, 3}, {3, 4}, {3, 5}})
Broom == Undirected({{0, 1}, {1, 2}, {2, 3}, {2, 4}})
Ladder == Directed(0 :> {1, 2} @@ 1 :> {3, 4} @@ 2 :> {3, 4} @@ 3 :> {5, 0} @@ 4 :> {5})
Comet == Directed(0 :> {1, 2, 3} @@ 6 :> {0, 1, 2}
                    @@ 3 :> {4} @@ 4 :> {5} @@ 5 :> {6})
ShapedGraphs == {Diamond, Broom, Ladder, Comet}

(* Every directed graph without loops on the vertices 1, 2 and 5, which lie  *)
(* in three different words of a bitmap.                                     *)
SmallGraphs ==
  LET V == {1, 2, 5}
  IN  {Directed(g) : g \in {h \in [V -> SUBSET V] : \A v \in V : v \notin h[v]}}

AllGraphs == ShapedGraphs \cup SmallGraphs

================================================================================
