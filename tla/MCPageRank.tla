------------------------------ MODULE MCPageRank ------------------------------
(* PageRank for TLC: graphs on three vertices of out-degree two at most.     *)
EXTENDS PageRank, TLC

(* Every graph without loops, vertices without out-neighbours included.      *)
AllGraphs == {g \in [0 .. 2 -> SUBSET (0 .. 2)] : \A n \in 0 .. 2 : n \notin g[n]}

Symmetry == Permutations(Workers)

================================================================================
