--------------------------------- MODULE MCBC ---------------------------------
(* BC for TLC.  The sets of graphs the runs search.                          *)
EXTENDS BC, TLC

Shaped(lists) == lists @@ [u \in Nodes |-> {}]

(* Two paths that meet, a count of two that is carried on, a vertex with     *)
(* three predecessors, and an edge that skips a level.                       *)
Diamond == Shaped(0 :> {1, 2} @@ 1 :> {3} @@ 2 :> {3} @@ 3 :> {4})
Fan == Shaped(0 :> {1, 2, 3} @@ 1 :> {4} @@ 2 :> {4} @@ 3 :> {4, 0})
Shortcut == Shaped(0 :> {1, 2} @@ 1 :> {2, 3} @@ 2 :> {3, 4} @@ 3 :> {4} @@ 4 :> {0})

(* Every undirected graph without loops on the vertices 0, 1 and 2.          *)
SmallGraphs ==
  LET V == 0 .. 2
  IN  {Shaped(g) : g \in {h \in [V -> SUBSET V] :
                            \A u, v \in V : u \notin h[u] /\ (v \in h[u] <=> u \in h[v])}}

AllGraphs == {Diamond, Fan, Shortcut} \cup SmallGraphs

AllPicks == {<<0, 1>>, <<2, 0>>, <<3, 3>>}

================================================================================
