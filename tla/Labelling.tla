------------------------------- MODULE Labelling -------------------------------
(***************************************************************************)
(* What the two connected-components programs (src/src/cc.cc and             *)
(* src/src/cc_sv.cc) share: the graph, the labels comp and the verifier,     *)
(* which is the same text in both.                                           *)
(***************************************************************************)
EXTENDS Integers, FiniteSets

CONSTANTS
  num_nodes,
  Graphs            \* records: out_neigh, a set for every vertex, and directed

Nodes == 0 .. num_nodes - 1

ASSUME GraphAssumption ==
  /\ num_nodes \in Nat \ {0}
  /\ \A g \in Graphs : /\ g.out_neigh \in [Nodes -> SUBSET Nodes]
                       /\ g.directed \in BOOLEAN
                       /\ g.directed \/ \A u, v \in Nodes :
                            v \in g.out_neigh[u] <=> u \in g.out_neigh[v]

VARIABLES
  out_neigh, directed,      \* the graph
  comp                      \* the label of every vertex

graph == <<out_neigh, directed>>

in_neigh(u) == {v \in Nodes : u \in out_neigh[v]}

(* The loop that gives every vertex itself as its label.                     *)
InitLabels ==
  /\ \E g \in Graphs : out_neigh = g.out_neigh /\ directed = g.directed
  /\ comp = [n \in Nodes |-> n]

--------------------------------------------------------------------------------
Adjacent(u, v) == v \in out_neigh[u] \/ u \in out_neigh[v]
Edges == {e \in Nodes \X Nodes : Adjacent(e[1], e[2])}

(* The search of CCVerifier from n, edge by edge.                            *)
Component(n) ==
  LET Ball[k \in 0 .. num_nodes] ==
        IF k = 0 THEN {n}
        ELSE LET inner == Ball[k - 1]
             IN  inner \cup {v \in Nodes : \E u \in inner : Adjacent(u, v)}
  IN  Ball[num_nodes]

(* CCVerifier searches from the last vertex of every label.                  *)
label_to_source(label) ==
  CHOOSE n \in Nodes : comp[n] = label /\ \A m \in Nodes : comp[m] = label => m <= n

CCVerifier ==
  /\ \A u, v \in Nodes : Adjacent(u, v) => comp[u] = comp[v]
  /\ Nodes = UNION {Component(label_to_source(label)) : label \in {comp[n] : n \in Nodes}}

(* The labels name the components: the verifier accepts, and two vertices    *)
(* with one label are connected.                                             *)
IsComponentLabelling ==
  CCVerifier /\ \A u, v \in Nodes : comp[u] = comp[v] => v \in Component(u)

(* The root of n's tree, found by climbing as long as the labels descend.    *)
Root[n \in Nodes] == IF comp[n] < n THEN Root[comp[n]] ELSE n

(* Vertices that no edge connects to the rest of the graph.                  *)
Closed(K) == \A u, v \in Nodes : Adjacent(u, v) => (u \in K <=> v \in K)

--------------------------------------------------------------------------------
(* cc.cc:46-52 and cc_sv.cc:66-70: a label is never above its vertex,        *)
(* whoever hooked or shortened it with labels that were out of date; so comp *)
(* has no cycle and every loop that climbs it ends.                          *)
LabelsDescend == \A n \in Nodes : comp[n] <= n

(* cc.cc:41-55 and cc_sv.cc:60-73: a vertex only ever carries the label of a *)
(* vertex it is connected to: no cut of the graph lies between them.         *)
LabelsStayInComponent ==
  \A K \in SUBSET Nodes : Closed(K) => \A n \in Nodes : n \in K <=> comp[n] \in K

================================================================================
