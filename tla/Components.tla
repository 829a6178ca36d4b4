------------------------------- MODULE Components -------------------------------
(***************************************************************************)
(* Finding the connected components of a graph by joining: every vertex      *)
(* starts alone, two groups are joined when an edge runs between them, and   *)
(* nothing is ever taken apart.  A group is named by its least vertex.       *)
(*                                                                          *)
(* Afforest (src/src/cc.cc) implements this specification.                   *)
(***************************************************************************)
EXTENDS Integers

CONSTANT Nodes

VARIABLES
  edges,        \* the pairs of vertices the graph connects, both ways
  group         \* the group of every vertex

vars == <<edges, group>>

Init ==
  /\ edges \in SUBSET (Nodes \X Nodes)
  /\ group = [n \in Nodes |-> n]

Join(u, v) ==
  /\ <<u, v>> \in edges
  /\ group[u] < group[v]
  /\ group' = [n \in Nodes |-> IF group[n] = group[v] THEN group[u] ELSE group[n]]
  /\ UNCHANGED edges

Next == \E u, v \in Nodes : Join(u, v)

Spec == Init /\ [][Next]_vars

================================================================================
