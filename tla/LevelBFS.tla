------------------------------- MODULE LevelBFS -------------------------------
(***************************************************************************)
(* Breadth-first search by levels, the algorithm behind every BFS of the     *)
(* repository: vertices of the next level are claimed one at a time, in any  *)
(* order and by anyone, from any parent of the current level; the level is   *)
(* over when no out-neighbour of it is left.                                 *)
(*                                                                          *)
(* DOBFS (src/src/bfs_pthread.cc) implements it, in both of its directions.  *)
(***************************************************************************)
EXTENDS Integers

CONSTANT Nodes

VARIABLES
  out_neigh,    \* the graph: out_neigh[u] is the set of u's out-neighbours
  source,
  parent,       \* the tree, Nobody for a vertex that is not reached
  depth,        \* the level at which a vertex was reached
  level         \* the level being expanded

vars == <<out_neigh, source, parent, depth, level>>

Nobody == -1

Visited == {v \in Nodes : depth[v] # Nobody}
Frontier == {v \in Nodes : depth[v] = level}

Init ==
  /\ out_neigh \in [Nodes -> SUBSET Nodes]
  /\ source \in Nodes /\ Nobody \notin Nodes
  /\ parent = [v \in Nodes |-> IF v = source THEN source ELSE Nobody]
  /\ depth = [v \in Nodes |-> IF v = source THEN 0 ELSE Nobody]
  /\ level = 0

Visit(v) ==
  /\ v \notin Visited
  /\ \E u \in Frontier : v \in out_neigh[u] /\ parent' = [parent EXCEPT ![v] = u]
  /\ depth' = [depth EXCEPT ![v] = level + 1]
  /\ UNCHANGED <<out_neigh, source, level>>

Advance ==
  /\ Frontier # {}
  /\ \A u \in Frontier : out_neigh[u] \subseteq Visited
  /\ level' = level + 1
  /\ UNCHANGED <<out_neigh, source, parent, depth>>

Next == Advance \/ \E v \in Nodes : Visit(v)

Spec == Init /\ [][Next]_vars

--------------------------------------------------------------------------------
Done == Frontier = {}

TypeOK ==
  /\ out_neigh \in [Nodes -> SUBSET Nodes]
  /\ source \in Nodes /\ Nobody \notin Nodes
  /\ parent \in [Nodes -> Nodes \cup {Nobody}]
  /\ depth \in [Nodes -> Nat \cup {Nobody}]
  /\ level \in Nat

(* A reached vertex hangs on an edge from a reached vertex one level up, and *)
(* only the source has no such edge.                                         *)
TreeByLevels ==
  /\ depth[source] = 0 /\ parent[source] = source
  /\ \A v \in Nodes : parent[v] = Nobody <=> depth[v] = Nobody
  /\ \A v \in Visited \ {source} :
       /\ parent[v] \in Visited
       /\ v \in out_neigh[parent[v]]
       /\ depth[v] = depth[parent[v]] + 1
       /\ depth[v] <= level + 1

(* No edge leaves a level that is over without its target being reached at   *)
(* most one level further down.                                              *)
NoEdgeMissed ==
  \A u \in Visited : depth[u] < level =>
    \A v \in out_neigh[u] : v \in Visited /\ depth[v] <= depth[u] + 1

(* The certificate of a breadth-first tree: no edge from a reached vertex    *)
(* leads to an unreached one or spans more than one level, and every tree    *)
(* edge spans exactly one.  It makes depth[v] the distance from the source.  *)
Certificate ==
  /\ TreeByLevels
  /\ \A u \in Visited : \A v \in out_neigh[u] : v \in Visited /\ depth[v] <= depth[u] + 1

(* bfs.cc:186-190: what the verifier is to confirm at the end of a search.   *)
CorrectWhenDone == Done => Certificate

================================================================================
