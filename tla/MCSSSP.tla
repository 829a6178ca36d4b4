-------------------------------- MODULE MCSSSP --------------------------------
(* SSSP for TLC.  The sets of graphs the runs search.                        *)
EXTENDS SSSP, TLC

Weighted(V, lists) == lists @@ [u \in V |-> <<>>]

(* A vertex reached early by a long edge and late by short ones, two threads *)
(* that race for one vertex, a chain with an edge of weight zero, and two    *)
(* branches whose next bins differ.                                          *)
Detour == 0 :> (1 :> 5 @@ 2 :> 1) @@ 1 :> (3 :> 1) @@ 2 :> (1 :> 1)
Race == 0 :> (1 :> 1 @@ 2 :> 1) @@ 1 :> (3 :> 2) @@ 2 :> (3 :> 1) @@ 3 :> (1 :> 1)
Chain == 0 :> (1 :> 1 @@ 3 :> 6) @@ 1 :> (2 :> 1 @@ 3 :> 4) @@ 2 :> (3 :> 0)
Branches == 0 :> (1 :> 2 @@ 2 :> 2) @@ 1 :> (3 :> 2) @@ 2 :> (4 :> 6) @@ 3 :> (4 :> 2)

(* Every graph on the vertices 0, 1 and 2 in which 0 has no in-edges, with   *)
(* weights less than and greater than a bin is wide.                         *)
SmallGraphs ==
  LET Lists(S) == UNION {[D -> {1, 3}] : D \in SUBSET S}
  IN  {0 :> a @@ 1 :> b @@ 2 :> c : a \in Lists({1, 2}), b \in Lists({2}), c \in Lists({1})}

AllGraphs == {Weighted(0 .. 4, g) : g \in {Detour, Race, Chain, Branches} \cup SmallGraphs}

(* Vertex 1 is improved within the first bin, and has four heavy edges.      *)
HeavyGraphs ==
  {Weighted(0 .. 6, 0 :> (1 :> 5 @@ 2 :> 1) @@ 1 :> [v \in 3 .. 6 |-> 10] @@ 2 :> (1 :> 3))}

================================================================================
