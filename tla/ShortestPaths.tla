----------------------------- MODULE ShortestPaths -----------------------------
(***************************************************************************)
(* Single-source shortest paths by relaxation: distances only ever go down,  *)
(* never below what the edges into a vertex justify, and the search may end  *)
(* when no edge is tense any more.                                           *)
(*                                                                          *)
(* DeltaStep (src/src/sssp.cc) implements it.  A relaxation there works with *)
(* a distance of its tail that may be out of date by the time it is used, so *)
(* the value that is stored may lie above the tail's distance plus weight.   *)
(***************************************************************************)
EXTENDS Integers

CONSTANTS Nodes, kDistInf

VARIABLES
  weight,       \* weight[u][v] of every out-neighbour v of u
  source,
  dist,
  done

vars == <<weight, source, dist, done>>

Tense(u, v) == dist[u] + weight[u][v] < dist[v]

WeightsOK ==
  /\ DOMAIN weight = Nodes
  /\ \A u \in Nodes : DOMAIN weight[u] \subseteq Nodes /\ weight[u] \in [DOMAIN weight[u] -> Nat]

Init ==
  /\ WeightsOK
  /\ source \in Nodes /\ kDistInf \in Nat
  /\ dist = [v \in Nodes |-> IF v = source THEN 0 ELSE kDistInf]
  /\ done = FALSE

Relax(u, v) ==
  /\ ~done
  /\ v \in DOMAIN weight[u]
  /\ dist' = [dist EXCEPT ![v] = dist'[v]] /\ dist'[v] \in Nat
  /\ dist[u] + weight[u][v] <= dist'[v] /\ dist'[v] < dist[v]
  /\ UNCHANGED <<weight, source, done>>

Finish ==
  /\ \A u \in Nodes : \A v \in DOMAIN weight[u] : ~Tense(u, v)
  /\ done' = TRUE
  /\ UNCHANGED <<weight, source, dist>>

Next == Finish \/ \E u, v \in Nodes : Relax(u, v)

Spec == Init /\ [][Next]_vars

--------------------------------------------------------------------------------
(* The functions on the vertices that no edge contradicts.                   *)
IsPotential(p) ==
  /\ p[source] = 0
  /\ \A u \in Nodes : \A v \in DOMAIN weight[u] : p[v] <= p[u] + weight[u][v]

Potentials == {p \in [Nodes -> 0 .. kDistInf] : IsPotential(p)}

(* sssp.cc:69-83: at no time is a distance lower than the edges justify.     *)
NeverTooLow == \A p \in Potentials : \A v \in Nodes : p[v] <= dist[v]

(* sssp.cc:163-193: at the end the distances are the greatest potential,     *)
(* which is what shortest distances (capped at kDistInf) are.                *)
GreatestWhenDone == done => dist \in Potentials /\ NeverTooLow

================================================================================
