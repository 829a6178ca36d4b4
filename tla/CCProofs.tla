-------------------------------- MODULE CCProofs --------------------------------
(***************************************************************************)
(* Proofs about Afforest (module CC) for every graph, any number of threads, *)
(* rounds and chunk sizes.                                                  *)
(*                                                                          *)
(* First: labels only ever descend, and a label never leaves the component   *)
(* of its vertex.  The second needs to be known of every label a thread      *)
(* holds in a local variable, however old it is.  Two vertices are connected *)
(* when no cut of the graph separates them; that makes connection an         *)
(* equivalence by definition and needs no paths.                            *)
(*                                                                          *)
(* Then: trees are only ever joined, along edges, and every edge a region    *)
(* has to link is linked when it ends.  So the sampling rounds do what they  *)
(* say, Afforest implements Components, and its labels name the components.  *)
(***************************************************************************)
EXTENDS CC, FiniteSetTheorems, WellFoundedInduction, TLAPS

(* No cut of the graph g separates u from v.                                 *)
ClosedIn(g, K) ==
  \A u, v \in Nodes : v \in g[u] \/ u \in g[v] => (u \in K <=> v \in K)
Connected(g, u, v) == \A K \in SUBSET Nodes : ClosedIn(g, K) => (u \in K <=> v \in K)

WorkerPCs == {"vertex", "readv", "high", "cas", "climb", "climb2", "low", "shorten", "done"}

WorkerType ==
  [pc : WorkerPCs, i : 0 .. num_nodes, end : 0 .. num_nodes,
   todo : SUBSET (Nodes \X Nodes), v : Nodes, p1 : Nodes, p2 : Nodes, low : Nodes,
   label : Nodes]

(* What a worker knows of the labels it holds.                               *)
Knows(g, m) ==
  /\ \A e \in m.todo : Connected(g, e[1], e[2])
  /\ m.pc = "readv" => Connected(g, m.p1, m.v)
  /\ m.pc \in {"high", "cas", "climb"} => m.p1 # m.p2 /\ Connected(g, m.p1, m.p2)
  /\ m.pc = "climb2" => Connected(g, m.label, m.low)
  /\ m.pc = "low" => Connected(g, m.p1, m.low)
  /\ m.pc = "shorten" => /\ m.i \in Nodes /\ m.label <= m.i
                         /\ Connected(g, m.i, m.label)

Types ==
  /\ out_neigh \in [Nodes -> SUBSET Nodes]
  /\ comp \in [Nodes -> Nodes]
  /\ next_index \in Nat
  /\ my \in [Workers -> WorkerType]

IInv ==
  /\ Types
  /\ LabelsDescend
  /\ \A n \in Nodes : Connected(out_neigh, n, comp[n])
  /\ \A w \in Workers : Knows(out_neigh, my[w])

--------------------------------------------------------------------------------
(* Connection is an equivalence that contains the edges.                     *)

LEMMA Reflexive == ASSUME NEW g, NEW u PROVE Connected(g, u, u)
  BY DEF Connected

LEMMA Symmetric ==
  ASSUME NEW g, NEW u, NEW v, Connected(g, u, v) PROVE Connected(g, v, u)
  BY DEF Connected

LEMMA Transitive ==
  ASSUME NEW g, NEW u, NEW v, NEW w, Connected(g, u, v), Connected(g, v, w)
  PROVE Connected(g, u, w)
  BY DEF Connected

LEMMA EdgeConnects ==
  ASSUME NEW g, NEW u \in Nodes, NEW v \in Nodes, v \in g[u] \/ u \in g[v]
  PROVE Connected(g, u, v)
  BY DEF Connected, ClosedIn

(* Two labels differ, so the higher one is above the lower one and they are  *)
(* the two.                                                                  *)
LEMMA HighAndLow ==
  ASSUME NEW w \in Workers, my[w].p1 \in Nodes, my[w].p2 \in Nodes, num_nodes \in Nat,
         my[w].p1 # my[w].p2
  PROVE /\ High(w) \in Nodes /\ Low(w) \in Nodes /\ Low(w) < High(w)
        /\ \/ High(w) = my[w].p1 /\ Low(w) = my[w].p2
           \/ High(w) = my[w].p2 /\ Low(w) = my[w].p1
  BY DEF High, Low, Nodes

LEMMA NewWorkerKnows ==
  ASSUME NEW g, num_nodes \in Nat \ {0}
  PROVE NewWorker \in WorkerType /\ Knows(g, NewWorker)
  BY DEF NewWorker, WorkerType, WorkerPCs, Knows, Nodes

--------------------------------------------------------------------------------
(* A step of worker w: it changes its own locals and at most one label,      *)
(* which it lowers within its component.                                     *)
LEMMA WorkerStepKeeps ==
  ASSUME IInv, UNCHANGED graph, NEW w \in Workers,
         next_index' \in Nat,
         my' \in [Workers -> WorkerType],
         \A x \in Workers \ {w} : my'[x] = my[x],
         Knows(out_neigh, my'[w]),
         \/ comp' = comp
         \/ \E x, y \in Nodes : /\ y <= x /\ Connected(out_neigh, x, y)
                                /\ comp' = [comp EXCEPT ![x] = y]
  PROVE IInv'
<1>1. out_neigh' = out_neigh
  BY DEF graph
<1>2. CASE comp' = comp
  BY <1>1, <1>2 DEF IInv, Types, LabelsDescend
<1>3. ASSUME NEW x \in Nodes, NEW y \in Nodes, y <= x, Connected(out_neigh, x, y),
             comp' = [comp EXCEPT ![x] = y]
      PROVE IInv'
  <2>1. comp' \in [Nodes -> Nodes]
    BY <1>3 DEF IInv, Types
  <2>2. \A n \in Nodes : comp'[n] <= n /\ Connected(out_neigh, n, comp'[n])
    BY <1>3 DEF IInv, Types, LabelsDescend
  <2>3. \A v \in Workers : Knows(out_neigh, my'[v])
    BY DEF IInv
  <2> QED
    BY <1>1, <2>1, <2>2, <2>3 DEF IInv, Types, LabelsDescend
<1> QED
  BY <1>2, <1>3

--------------------------------------------------------------------------------
LEMMA InitEstablishes == Init => IInv
<1> SUFFICES ASSUME Init PROVE IInv
  OBVIOUS
<1>1. out_neigh \in [Nodes -> SUBSET Nodes] /\ comp = [n \in Nodes |-> n]
  BY GraphAssumption DEF Init, InitLabels
<1>2. \A n \in Nodes : comp[n] <= n /\ Connected(out_neigh, n, comp[n])
  BY <1>1, Reflexive, GraphAssumption DEF Nodes
<1>3. \A w \in Workers : my[w] \in WorkerType /\ Knows(out_neigh, my[w])
  BY NewWorkerKnows, GraphAssumption DEF Init
<1>4. my \in [Workers -> WorkerType]
  BY NewWorkerKnows, GraphAssumption DEF Init
<1> QED
  BY <1>1, <1>2, <1>3, <1>4 DEF IInv, Types, LabelsDescend, Init

(* Between regions main gives every worker new locals, or changes nothing.   *)
LEMMA MainKeeps == IInv /\ MainStep => IInv'
<1> SUFFICES ASSUME IInv, MainStep PROVE IInv'
  OBVIOUS
<1>1. out_neigh' = out_neigh /\ comp' = comp
  BY DEF MainStep, graph, EndRound, NextRound, SampleFrequentElement, EndFinal, Return
<1>2. \/ my' = my /\ next_index' = next_index
      \/ my' = [w \in Workers |-> NewWorker] /\ next_index' = 0
  BY DEF MainStep, EndRound, NextRound, SampleFrequentElement, EndFinal, Return, Fork
<1>3. my' \in [Workers -> WorkerType] /\ next_index' \in Nat
  BY <1>2, NewWorkerKnows, GraphAssumption DEF IInv, Types
<1>4. \A w \in Workers : Knows(out_neigh, my'[w])
  BY <1>2, NewWorkerKnows, GraphAssumption DEF IInv
<1> QED
  BY <1>1, <1>3, <1>4 DEF IInv, Types, LabelsDescend

LEMMA WorkerKeeps == ASSUME IInv, NEW w \in Workers, WorkerStep(w) PROVE IInv'
<1> DEFINE Keeps == /\ my' \in [Workers -> WorkerType]
                    /\ \A x \in Workers \ {w} : my'[x] = my[x]
                    /\ Knows(out_neigh, my'[w])
<1>0. num_nodes \in Nat \ {0} /\ kChunk \in Nat \ {0}
  BY GraphAssumption, CCAssumption
<1>1. /\ 0 \in Nodes /\ 0 \in 0 .. num_nodes
      /\ \A n \in Nodes : n + 1 \in 0 .. num_nodes
  BY <1>0 DEF Nodes
<1>2. /\ out_neigh \in [Nodes -> SUBSET Nodes] /\ comp \in [Nodes -> Nodes]
      /\ next_index \in Nat /\ my \in [Workers -> WorkerType] /\ my[w] \in WorkerType
      /\ Knows(out_neigh, my[w])
  BY DEF IInv, Types
<1>3. UNCHANGED graph
  BY DEF WorkerStep
<1>4. \A n \in Nodes : comp[n] \in Nodes /\ comp[n] <= n /\ Connected(out_neigh, n, comp[n])
  BY <1>2 DEF IInv, LabelsDescend
<1>5. ASSUME Keeps, next_index' \in Nat, comp' = comp PROVE IInv'
  BY <1>3, <1>5, WorkerStepKeeps
<1>6. ASSUME LinkReturns(w) PROVE Keeps
  <2>1. Knows(out_neigh, my'[w])
    BY <1>2, <1>6 DEF LinkReturns, NewWorker, Knows, WorkerType
  <2> QED
    BY <1>1, <1>2, <1>6, <2>1 DEF LinkReturns, NewWorker, WorkerType, WorkerPCs
<1>7. ASSUME NEW p2 \in Nodes, Connected(out_neigh, my[w].p1, p2), LoopTest(w, p2)
      PROVE Keeps
  <2>1. CASE my[w].p1 = p2
    BY <1>6, <1>7, <2>1 DEF LoopTest
  <2>2. CASE my[w].p1 # p2
    <3>1. my' = [my EXCEPT ![w].p2 = p2, ![w].pc = "high", ![w].v = 0, ![w].low = 0]
      BY <1>7, <2>2 DEF LoopTest
    <3>2. Knows(out_neigh, my'[w])
      BY <1>2, <1>7, <2>2, <3>1 DEF Knows, WorkerType
    <3>3. my'[w] \in WorkerType
      BY <1>1, <1>2, <1>7, <3>1 DEF WorkerType, WorkerPCs
    <3> QED
      BY <1>2, <3>1, <3>2, <3>3
  <2> QED
    BY <2>1, <2>2
<1>8. ASSUME my[w].p1 # my[w].p2
      PROVE /\ High(w) \in Nodes /\ Low(w) \in Nodes /\ Low(w) < High(w)
            /\ \/ High(w) = my[w].p1 /\ Low(w) = my[w].p2
               \/ High(w) = my[w].p2 /\ Low(w) = my[w].p1
  BY <1>0, <1>2, <1>8, HighAndLow DEF WorkerType
<1>9. CASE ClaimChunk(w)
  <2>1. Knows(out_neigh, my'[w])
    BY <1>2, <1>9 DEF ClaimChunk, NewWorker, Knows, WorkerType
  <2>2. next_index' \in Nat /\ comp' = comp
    BY <1>0, <1>2, <1>9 DEF ClaimChunk
  <2>3. CASE next_index >= num_nodes
    <3>1. my' = [my EXCEPT ![w] = [NewWorker EXCEPT !.pc = "done"]]
      BY <1>9, <2>3 DEF ClaimChunk
    <3> QED
      BY <1>1, <1>2, <1>5, <2>1, <2>2, <3>1 DEF NewWorker, WorkerType, WorkerPCs
  <2>4. CASE ~(next_index >= num_nodes)
    <3> DEFINE end == IF next_index + kChunk < num_nodes THEN next_index + kChunk ELSE num_nodes
    <3>1. next_index \in 0 .. num_nodes /\ end \in 0 .. num_nodes
      BY <1>0, <1>2, <2>4
    <3>2. my' = [my EXCEPT ![w].i = next_index, ![w].end = end]
      BY <1>9, <2>4 DEF ClaimChunk
    <3> HIDE DEF end
    <3>3. Keeps
      BY <1>2, <2>1, <3>1, <3>2 DEF WorkerType
    <3> QED
      BY <1>5, <2>2, <3>3
  <2> QED
    BY <2>3, <2>4
<1>9a. ASSUME NEW u \in Nodes, Takes(w, u), NEW S,
              \A v \in S : v \in Nodes /\ Connected(out_neigh, u, v),
              my' = [my EXCEPT ![w].i = @ + 1, ![w].todo = {<<u, v>> : v \in S}]
       PROVE Keeps
  <2> DEFINE T == {<<u, v>> : v \in S}
             next == my[w].i + 1
  <2>1. T \subseteq Nodes \X Nodes /\ \A e \in T : Connected(out_neigh, e[1], e[2])
    BY <1>9a
  <2>2. next \in 0 .. num_nodes /\ my[w].pc = "vertex"
    BY <1>1, <1>9a DEF Takes
  <2>3. my' = [my EXCEPT ![w].i = next, ![w].todo = T]
    BY <1>2, <1>9a
  <2> HIDE DEF T, next
  <2> QED
    BY <1>2, <2>1, <2>2, <2>3 DEF Knows, WorkerType
<1>10. CASE SampleVertex(w)
  <2>1. PICK u \in Nodes :
          /\ Takes(w, u)
          /\ my' = [my EXCEPT ![w].i = @ + 1,
                              ![w].todo = {<<u, v>> : v \in out_neigh_from(u, round)
                                                            \ out_neigh_from(u, round + 1)}]
    BY <1>10 DEF SampleVertex
  <2>2. \A v \in out_neigh_from(u, round) \ out_neigh_from(u, round + 1) :
          v \in Nodes /\ Connected(out_neigh, u, v)
    BY <1>2, EdgeConnects DEF out_neigh_from
  <2>3. Keeps
    BY <1>9a, <2>1, <2>2
  <2> QED
    BY <1>2, <1>5, <1>10, <2>3 DEF SampleVertex
<1>11. CASE FinishVertex(w)
  <2> DEFINE Ends(u) == out_neigh_from(u, neighbor_rounds)
                          \cup (IF directed THEN in_neigh(u) ELSE {})
  <2>1. PICK u \in Nodes :
          /\ Takes(w, u)
          /\ my' = [my EXCEPT ![w].i = @ + 1,
                              ![w].todo = IF comp[u] = c THEN {} ELSE {<<u, v>> : v \in Ends(u)}]
    BY <1>11 DEF FinishVertex
  <2>2. \A v \in Ends(u) : v \in Nodes /\ Connected(out_neigh, u, v)
    BY <1>2, EdgeConnects DEF out_neigh_from, in_neigh
  <2>3. Keeps
    <3> DEFINE S == IF comp[u] = c THEN {} ELSE Ends(u)
    <3>1. my' = [my EXCEPT ![w].i = @ + 1, ![w].todo = {<<u, v>> : v \in S}]
      BY <2>1
    <3>2. \A v \in S : v \in Nodes /\ Connected(out_neigh, u, v)
      BY <2>2
    <3> HIDE DEF S
    <3> QED
      BY <1>9a, <2>1, <3>1, <3>2
  <2> QED
    BY <1>2, <1>5, <1>11, <2>3 DEF FinishVertex
<1>12. CASE LinkReadU(w)
  <2>1. PICK e \in my[w].todo :
          my' = [my EXCEPT ![w].todo = @ \ {e}, ![w].v = e[2], ![w].p1 = comp[e[1]],
                           ![w].pc = "readv"]
    BY <1>12 DEF LinkReadU
  <2>2. e[1] \in Nodes /\ e[2] \in Nodes /\ Connected(out_neigh, e[1], e[2])
    BY <1>2 DEF Knows, WorkerType
  <2>3. Connected(out_neigh, comp[e[1]], e[2])
    BY <1>4, <2>2, Symmetric, Transitive
  <2>4. Keeps
    <3>1. comp[e[1]] \in Nodes /\ my[w].todo \ {e} \subseteq Nodes \X Nodes
      BY <1>2, <1>4, <2>2 DEF WorkerType
    <3>2. my'[w] \in WorkerType
      BY <1>1, <1>2, <2>1, <2>2, <3>1 DEF WorkerType, WorkerPCs
    <3>3. Knows(out_neigh, my'[w])
      BY <1>2, <2>1, <2>3 DEF Knows, WorkerType
    <3> QED
      BY <1>2, <2>1, <3>2, <3>3
  <2> QED
    BY <1>2, <1>5, <1>12, <2>4 DEF LinkReadU
<1>13. CASE LinkReadV(w)
  <2>1. my[w].v \in Nodes /\ Connected(out_neigh, my[w].p1, my[w].v)
    BY <1>2, <1>13 DEF LinkReadV, Knows, WorkerType
  <2>2. Connected(out_neigh, my[w].p1, comp[my[w].v])
    BY <1>4, <2>1, Transitive
  <2>3. Keeps
    BY <1>4, <1>7, <1>13, <2>1, <2>2 DEF LinkReadV
  <2> QED
    BY <1>2, <1>5, <1>13, <2>3 DEF LinkReadV
<1>14. CASE LinkReadHigh(w)
  <2>1. \/ LinkReturns(w)
        \/ my' = [my EXCEPT ![w].pc = "cas"]
        \/ my' = [my EXCEPT ![w].pc = "climb"]
    BY <1>14 DEF LinkReadHigh
  <2>2. ASSUME NEW label \in {"cas", "climb"}, my' = [my EXCEPT ![w].pc = label] PROVE Keeps
    BY <1>2, <1>14, <2>2 DEF LinkReadHigh, Knows, WorkerType, WorkerPCs
  <2>3. Keeps
    BY <1>6, <2>1, <2>2
  <2> QED
    BY <1>2, <1>5, <1>14, <2>3 DEF LinkReadHigh
<1>15. CASE LinkHook(w)
  <2>1. /\ my[w].p1 # my[w].p2 /\ Connected(out_neigh, my[w].p1, my[w].p2)
        /\ Connected(out_neigh, my[w].p2, my[w].p1)
    BY <1>2, <1>15, Symmetric DEF LinkHook, Knows
  <2>2. /\ High(w) \in Nodes /\ Low(w) \in Nodes /\ Low(w) <= High(w)
        /\ Connected(out_neigh, High(w), Low(w))
    BY <1>8, <2>1 DEF Nodes
  <2>3. CASE comp[High(w)] = High(w)
    <3>1. Keeps /\ comp' = [comp EXCEPT ![High(w)] = Low(w)]
      BY <1>6, <1>15, <2>3 DEF LinkHook
    <3> QED
      BY <1>2, <1>3, <1>15, <2>2, <3>1, WorkerStepKeeps DEF LinkHook
  <2>4. CASE comp[High(w)] # High(w)
    <3>1. my' = [my EXCEPT ![w].pc = "climb"] /\ comp' = comp
      BY <1>15, <2>4 DEF LinkHook
    <3>2. Keeps
      BY <1>2, <2>1, <3>1 DEF Knows, WorkerType, WorkerPCs
    <3> QED
      BY <1>2, <1>5, <1>15, <3>1, <3>2 DEF LinkHook
  <2> QED
    BY <2>3, <2>4
<1>16. CASE LinkClimb(w)
  <2>1. /\ my[w].p1 # my[w].p2 /\ Connected(out_neigh, my[w].p1, my[w].p2)
        /\ Connected(out_neigh, my[w].p2, my[w].p1)
    BY <1>2, <1>16, Symmetric DEF LinkClimb, Knows
  <2>2. High(w) \in Nodes /\ Low(w) \in Nodes /\ Connected(out_neigh, High(w), Low(w))
    BY <1>8, <2>1
  <2>3. Connected(out_neigh, comp[High(w)], Low(w))
    BY <1>4, <2>2, Symmetric, Transitive
  <2>4. my' = [my EXCEPT ![w].label = comp[High(w)], ![w].low = Low(w), ![w].pc = "climb2"]
    BY <1>16 DEF LinkClimb
  <2>5. Keeps
    <3>1. comp[High(w)] \in Nodes
      BY <1>4, <2>2
    <3>2. my'[w] \in WorkerType
      BY <1>2, <2>2, <2>4, <3>1 DEF WorkerType, WorkerPCs
    <3>3. Knows(out_neigh, my'[w])
      BY <1>2, <2>3, <2>4 DEF Knows, WorkerType
    <3> QED
      BY <1>2, <2>4, <3>2, <3>3
  <2> QED
    BY <1>2, <1>5, <1>16, <2>5 DEF LinkClimb
<1>17. CASE LinkClimbAgain(w)
  <2>1. my[w].label \in Nodes /\ Connected(out_neigh, my[w].label, my[w].low)
    BY <1>2, <1>17 DEF LinkClimbAgain, Knows, WorkerType
  <2>2. Connected(out_neigh, comp[my[w].label], my[w].low)
    BY <1>4, <2>1, Symmetric, Transitive
  <2>3. my' = [my EXCEPT ![w].p1 = comp[my[w].label], ![w].label = 0, ![w].p2 = 0, ![w].pc = "low"]
    BY <1>17 DEF LinkClimbAgain
  <2>4. comp[my[w].label] \in Nodes
    BY <1>4, <2>1
  <2>5. my'[w] \in WorkerType
    BY <1>1, <1>2, <2>3, <2>4 DEF WorkerType, WorkerPCs
  <2>6. Knows(out_neigh, my'[w])
    BY <1>2, <2>2, <2>3 DEF Knows, WorkerType
  <2>7. Keeps
    BY <1>2, <2>3, <2>5, <2>6
  <2> QED
    BY <1>2, <1>5, <1>17, <2>7 DEF LinkClimbAgain
<1>18. CASE LinkReadLow(w)
  <2>1. my[w].low \in Nodes /\ Connected(out_neigh, my[w].p1, my[w].low)
    BY <1>2, <1>18 DEF LinkReadLow, Knows, WorkerType
  <2>2. Connected(out_neigh, my[w].p1, comp[my[w].low])
    BY <1>4, <2>1, Transitive
  <2>3. Keeps
    BY <1>4, <1>7, <1>18, <2>1, <2>2 DEF LinkReadLow
  <2> QED
    BY <1>2, <1>5, <1>18, <2>3 DEF LinkReadLow
<1>19. CASE CompressTest(w)
  <2>1. PICK n \in Nodes :
          /\ Takes(w, n)
          /\ my' = IF comp[n] = comp[comp[n]]
                   THEN [my EXCEPT ![w].i = @ + 1]
                   ELSE [my EXCEPT ![w].label = comp[comp[n]], ![w].pc = "shorten"]
    BY <1>19 DEF CompressTest
  <2>2. /\ comp[comp[n]] \in Nodes /\ comp[comp[n]] <= n
        /\ Connected(out_neigh, n, comp[comp[n]])
    <3>1. /\ comp[n] \in Nodes /\ comp[n] <= n /\ comp[comp[n]] \in Nodes
          /\ comp[comp[n]] <= comp[n]
      BY <1>4
    <3>2. Connected(out_neigh, n, comp[n]) /\ Connected(out_neigh, comp[n], comp[comp[n]])
      BY <1>4
    <3> QED
      BY <1>0, <3>1, <3>2, Transitive DEF Nodes
  <2>3. CASE comp[n] = comp[comp[n]]
    <3>1. my' = [my EXCEPT ![w].i = @ + 1]
      BY <2>1, <2>3
    <3> DEFINE next == my[w].i + 1
    <3>2. next \in 0 .. num_nodes /\ my[w].pc = "vertex"
      BY <1>1, <2>1 DEF Takes
    <3>3. my' = [my EXCEPT ![w].i = next]
      BY <1>2, <3>1
    <3>4. Keeps
      <4> HIDE DEF next
      <4> QED
        BY <1>2, <3>2, <3>3 DEF Knows, WorkerType
    <3> QED
      BY <1>2, <1>5, <1>19, <3>4 DEF CompressTest
  <2>4. CASE comp[n] # comp[comp[n]]
    <3>1. my' = [my EXCEPT ![w].label = comp[comp[n]], ![w].pc = "shorten"] /\ my[w].i = n
      BY <2>1, <2>4 DEF Takes
    <3>2. Keeps
      BY <1>2, <2>2, <3>1 DEF Knows, WorkerType, WorkerPCs
    <3> QED
      BY <1>2, <1>5, <1>19, <3>2 DEF CompressTest
  <2> QED
    BY <2>3, <2>4
<1>20. CASE CompressStore(w)
  <2>1. /\ my[w].i \in Nodes /\ my[w].label \in Nodes /\ my[w].label <= my[w].i
        /\ Connected(out_neigh, my[w].i, my[w].label)
    BY <1>2, <1>20 DEF CompressStore, Knows, WorkerType
  <2>2. /\ comp[comp[my[w].i]] \in Nodes /\ comp[comp[my[w].i]] <= my[w].i
        /\ Connected(out_neigh, my[w].i, comp[comp[my[w].i]])
    <3>1. /\ comp[my[w].i] \in Nodes /\ comp[my[w].i] <= my[w].i
          /\ comp[comp[my[w].i]] \in Nodes /\ comp[comp[my[w].i]] <= comp[my[w].i]
      BY <1>4, <2>1
    <3>2. /\ Connected(out_neigh, my[w].i, comp[my[w].i])
          /\ Connected(out_neigh, comp[my[w].i], comp[comp[my[w].i]])
      BY <1>4, <2>1, <3>1
    <3> QED
      BY <1>0, <2>1, <3>1, <3>2, Transitive DEF Nodes
  <2>3. PICK label \in {my[w].label, comp[comp[my[w].i]]} :
          comp' = [comp EXCEPT ![my[w].i] = label]
    BY <1>20 DEF CompressStore
  <2>4. my' = [my EXCEPT ![w].pc = "vertex", ![w].label = 0]
    BY <1>20 DEF CompressStore
  <2>5. Keeps
    <3>0. my'[w] = [my[w] EXCEPT !.pc = "vertex", !.label = 0]
      BY <1>2, <2>4
    <3>1. my'[w] \in WorkerType
      BY <1>1, <1>2, <3>0 DEF WorkerType, WorkerPCs
    <3>2. Knows(out_neigh, my'[w])
      BY <1>2, <2>4 DEF Knows, WorkerType
    <3> QED
      BY <1>2, <2>4, <3>1, <3>2
  <2>6. label \in Nodes /\ label <= my[w].i /\ Connected(out_neigh, my[w].i, label)
    BY <2>1, <2>2, <2>3
  <2>7. next_index' \in Nat
    BY <1>2, <1>20 DEF CompressStore
  <2> QED
    BY <1>3, <2>1, <2>3, <2>5, <2>6, <2>7, WorkerStepKeeps
<1> QED
  BY <1>9, <1>10, <1>11, <1>12, <1>13, <1>14, <1>15, <1>16, <1>17, <1>18, <1>19, <1>20
     DEF WorkerStep

--------------------------------------------------------------------------------
(* The inductive invariant of Afforest.                                      *)
THEOREM ForestInvariant == Spec => []IInv
<1>1. IInv /\ [Next]_vars => IInv'
  <2> SUFFICES ASSUME IInv, [Next]_vars PROVE IInv'
    OBVIOUS
  <2>1. CASE MainStep
    BY <2>1, MainKeeps
  <2>2. ASSUME NEW w \in Workers, WorkerStep(w) PROVE IInv'
    BY <2>2, WorkerKeeps
  <2>3. CASE UNCHANGED vars
    BY <2>3 DEF vars, graph, IInv, Types, LabelsDescend
  <2> QED
    BY <2>1, <2>2, <2>3 DEF Next
<1> QED
  BY <1>1, InitEstablishes, PTL DEF Spec

(* Whatever the threads do to each other's hooks, comp has no cycle: no loop *)
(* that climbs it can run in circles.                                        *)
THEOREM LabelsAlwaysDescend == Spec => []LabelsDescend
<1>1. IInv => LabelsDescend
  BY DEF IInv
<1> QED
  BY <1>1, ForestInvariant, PTL

(* On any graph, a vertex never carries the label of another component.      *)
THEOREM LabelsNeverLeave == Spec => []LabelsStayInComponent
<1>1. IInv => LabelsStayInComponent
  BY DEF IInv, LabelsStayInComponent, Connected, Closed, ClosedIn, Adjacent
<1> QED
  BY <1>1, ForestInvariant, PTL

--------------------------------------------------------------------------------
(* What is still to be linked, and by whom.                                  *)

(* In one tree.  Trees are only joined, so this is for ever.                 *)
Same(u, v) == Root[u] = Root[v]

(* The two labels a worker in Link holds.                                    *)
InLink(m) == m.pc \in {"readv", "high", "cas", "climb", "climb2", "low"}
Left(m) == IF m.pc = "climb2" THEN m.label ELSE m.p1
Right(m) ==
  CASE m.pc = "readv" -> m.v
    [] m.pc \in {"climb2", "low"} -> m.low
    [] OTHER -> m.p2

(* They are in the trees of u and v: to join theirs is to join those.        *)
Between(a, b, u, v) == \/ Same(a, u) /\ Same(b, v)
                       \/ Same(a, v) /\ Same(b, u)
Joins(m, u, v) == InLink(m) /\ Between(Left(m), Right(m), u, v)

(* A worker links edges only, shortens to a lower label of the same tree, is *)
(* done when no vertex is left to claim, and links nothing in Compress.      *)
WorkerOK(m) ==
  /\ \A e \in m.todo : Adjacent(e[1], e[2])
  /\ InLink(m) => \E u, v \in Nodes : Adjacent(u, v) /\ Joins(m, u, v)
  /\ m.pc = "shorten" => /\ m.i < m.end /\ m.label < m.i /\ comp[m.i] < m.i
                         /\ Same(m.label, m.i)
  /\ m.pc = "done" => next_index >= num_nodes /\ m.i = m.end /\ m.todo = {}
  /\ pc \in {"compress", "done"} => m.pc \in {"vertex", "shorten", "done"} /\ m.todo = {}
  /\ pc = "done" => m.pc = "done"

GraphOK == directed \/ \A u, v \in Nodes : v \in out_neigh[u] <=> u \in out_neigh[v]

RoundsOK ==
  /\ pc \in {"link", "compress", "final", "done"}
  /\ round \in 0 .. neighbor_rounds /\ c \in Nodes \cup {NoLabel}
  /\ pc = "link" => round < neighbor_rounds /\ c = NoLabel
  /\ c # NoLabel => round = neighbor_rounds
  /\ pc \in {"final", "done"} => c # NoLabel

(* A vertex the region has yet to look at: not handed out, or in a chunk.    *)
Pending(u) == u >= next_index \/ \E w \in Workers : my[w].i <= u /\ u < my[w].end

(* An edge that is linked, or that some worker is to link or is linking.     *)
Settling(u, v) ==
  Same(u, v) \/ \E w \in Workers : <<u, v>> \in my[w].todo \/ Joins(my[w], u, v)

LastEnds(u) == out_neigh_from(u, neighbor_rounds) \cup (IF directed THEN in_neigh(u) ELSE {})

(* What the region does with a vertex it has looked at.                      *)
Covered(u) ==
  /\ pc = "link" => \A v \in out_neigh_from(u, round) \ out_neigh_from(u, round + 1) : Settling(u, v)
  /\ pc = "final" => Same(u, c) \/ \A v \in LastEnds(u) : Settling(u, v)
  /\ pc \in {"compress", "done"} => comp[comp[u]] = comp[u]

(* What the regions before have linked: the first k neighbours, then all.    *)
Sampled(k) == \A u \in Nodes : \A v \in out_neigh[u] \ out_neigh_from(u, k) : Same(u, v)
AllLinked == \A u, v \in Nodes : Adjacent(u, v) => Same(u, v)

LinkedOK ==
  /\ pc = "final" \/ c = NoLabel => Sampled(round)
  /\ pc \in {"compress", "done"} /\ c # NoLabel => AllLinked

Progress ==
  /\ GraphOK
  /\ RoundsOK
  /\ \A w \in Workers : WorkerOK(my[w])
  /\ \A u \in Nodes : Pending(u) \/ Covered(u)
  /\ LinkedOK

--------------------------------------------------------------------------------
(* Smallest counterexamples, in place of induction.                          *)

(* A family of subsets of a finite set has one that contains no other.       *)
LEMMA SmallestSubset ==
  ASSUME NEW S, IsFiniteSet(S), NEW F, F \subseteq SUBSET S, F # {}
  PROVE  \E T \in F : \A U \in F : U \subseteq T => U = T
<1>1. F \subseteq FiniteSubsetsOf(S)
  BY FS_FiniteSubsetsOfFinite
<1>2. PICK T \in F : \A U \in F : <<U, T>> \notin StrictSubsetOrdering(S)
  BY <1>1, FS_StrictSubsetOrderingWellFounded, WFMin
<1>3. \A U \in F : U \subseteq T => U = T
  BY <1>2 DEF StrictSubsetOrdering
<1> QED
  BY <1>3

(* ... hence a non-empty set of numbers has a least one.                     *)
LEMMA SmallestNumber ==
  ASSUME NEW F, F \subseteq Nat, F # {}
  PROVE  \E m \in F : \A n \in F : m <= n
<1>1. PICK top \in F : TRUE
  OBVIOUS
<1> DEFINE S == 0 .. top
           G == {T \in SUBSET S : \E n \in F : T = 0 .. n}
<1>2. PICK T \in G : \A U \in G : U \subseteq T => U = T
  <2>1. S \in G /\ G \subseteq SUBSET S
    BY <1>1
  <2>2. IsFiniteSet(S)
    BY <1>1, FS_Interval
  <2> HIDE DEF G, S
  <2> QED
    BY <2>1, <2>2, SmallestSubset
<1>3. PICK m \in F : T = 0 .. m
  BY <1>2
<1>4. ASSUME NEW n \in F, n < m PROVE FALSE
  <2>1. 0 .. n \subseteq T /\ 0 .. n \in G /\ m \notin 0 .. n /\ m \in T
    BY <1>2, <1>3, <1>4
  <2> QED
    BY <1>2, <2>1
<1> QED
  BY <1>4

--------------------------------------------------------------------------------
(* Forests of labels.  R gives every vertex the root of its tree in f.       *)
AreRoots(f, R) == R = [n \in Nodes |-> IF f[n] < n THEN R[f[n]] ELSE n]

IsForest(f) == f \in [Nodes -> Nodes] /\ \A n \in Nodes : f[n] <= n

(* There is such an R: take the least prefix of the vertices without one.    *)
LEMMA RootsExist ==
  ASSUME NEW f, IsForest(f)
  PROVE  \E R : AreRoots(f, R)
<1>1. num_nodes \in Nat \ {0} /\ f \in [Nodes -> Nodes]
  BY GraphAssumption DEF IsForest
<1> DEFINE Prefix(m, R) == R = [n \in 0 .. m - 1 |-> IF f[n] < n THEN R[f[n]] ELSE n]
           F == {m \in 0 .. num_nodes : ~\E R : Prefix(m, R)}
<1>2. ASSUME F # {} PROVE FALSE
  <2>1. PICK m \in F : \A l \in F : m <= l
    <3>1. F \subseteq Nat
      BY <1>1
    <3> HIDE DEF F
    <3> QED
      BY <1>2, <3>1, SmallestNumber
  <2>2. m \in 0 .. num_nodes
    BY <2>1
  <2>3. CASE m = 0
    <3>1. Prefix(0, [n \in 0 .. 0 - 1 |-> 0])
      BY SMT
    <3> QED
      BY <2>1, <2>3, <3>1
  <2>4. CASE m # 0
    <3>1. m - 1 \in 0 .. num_nodes /\ m - 1 \notin F /\ m - 1 \in Nodes
      BY <1>1, <2>1, <2>2, <2>4 DEF Nodes
    <3>2. PICK R : Prefix(m - 1, R)
      BY <3>1
    <3> DEFINE T == [n \in 0 .. m - 1 |-> IF n < m - 1 THEN R[n]
                                         ELSE IF f[n] < n THEN R[f[n]] ELSE n]
    <3>3. ASSUME NEW n \in 0 .. m - 1
          PROVE  T[n] = IF f[n] < n THEN T[f[n]] ELSE n
      <4>1. n \in Nodes /\ f[n] \in Nodes /\ f[n] \in Nat
        BY <1>1, <2>2 DEF Nodes
      <4>2. f[n] < n => f[n] \in 0 .. m - 1 /\ f[n] < m - 1
        BY <2>2, <3>1, <4>1
      <4>3. f[n] < n => T[f[n]] = R[f[n]]
        BY <4>2
      <4>4. CASE n < m - 1
        <5>1. n \in 0 .. (m - 1) - 1
          BY <2>2, <3>1, <4>4
        <5>2. R[n] = IF f[n] < n THEN R[f[n]] ELSE n
          BY <3>2, <5>1
        <5> QED
          BY <4>3, <4>4, <5>2
      <4>5. CASE ~(n < m - 1)
        BY <4>3, <4>5
      <4> QED
        BY <4>4, <4>5
    <3>4. T = [n \in 0 .. m - 1 |-> T[n]]
      OBVIOUS
    <3> HIDE DEF T
    <3>5. T = [n \in 0 .. m - 1 |-> IF f[n] < n THEN T[f[n]] ELSE n]
      BY <3>3, <3>4
    <3>6. Prefix(m, T)
      BY <3>5
    <3> QED
      BY <2>1, <3>6
  <2> QED
    BY <2>3, <2>4
<1>3. num_nodes \notin F /\ num_nodes \in 0 .. num_nodes
  BY <1>1, <1>2
<1> QED
  BY <1>3 DEF AreRoots, Nodes

(* ... and no other.                                                         *)
LEMMA RootsUnique ==
  ASSUME NEW f, IsForest(f), NEW R, AreRoots(f, R), NEW T, AreRoots(f, T)
  PROVE  R = T
<1>1. /\ R = [n \in Nodes |-> IF f[n] < n THEN R[f[n]] ELSE n]
      /\ T = [n \in Nodes |-> IF f[n] < n THEN T[f[n]] ELSE n]
  BY DEF AreRoots
<1> DEFINE F == {n \in Nodes : R[n] # T[n]}
<1>2. ASSUME F # {} PROVE FALSE
  <2>1. PICK m \in F : \A l \in F : m <= l
    <3>1. F \subseteq Nat
      BY GraphAssumption DEF Nodes
    <3> HIDE DEF F
    <3> QED
      BY <1>2, <3>1, SmallestNumber
  <2>2. m \in Nodes /\ R[m] # T[m]
    BY <2>1
  <2>3. /\ R[m] = IF f[m] < m THEN R[f[m]] ELSE m
        /\ T[m] = IF f[m] < m THEN T[f[m]] ELSE m
    BY <1>1, <2>2
  <2>4. f[m] < m /\ f[m] \in F
    BY <2>2, <2>3 DEF IsForest
  <2>5. m <= f[m] /\ m \in Nat /\ f[m] \in Nat
    BY <2>1, <2>2, <2>4, GraphAssumption DEF Nodes
  <2> QED
    BY <2>4, <2>5
<1>3. \A n \in Nodes : R[n] = T[n]
  BY <1>2
<1>4. R = [n \in Nodes |-> R[n]] /\ T = [n \in Nodes |-> T[n]]
  BY <1>1
<1> QED
  BY <1>3, <1>4

(* What the roots are: fixed points, below every vertex of their tree, and   *)
(* the same for a vertex and its label.                                      *)
LEMMA RootsFacts ==
  ASSUME NEW f, IsForest(f), NEW R, AreRoots(f, R), NEW n \in Nodes
  PROVE  /\ R[n] \in Nodes /\ R[n] <= n /\ f[R[n]] = R[n]
         /\ R[f[n]] = R[n]
         /\ f[n] = n => R[n] = n
<1>1. \A m \in Nodes : /\ R[m] = IF f[m] < m THEN R[f[m]] ELSE m
                       /\ m \in Nat /\ f[m] \in Nodes /\ f[m] \in Nat /\ f[m] <= m
  BY GraphAssumption DEF AreRoots, IsForest, Nodes
<1> DEFINE OK(m) == R[m] \in Nodes /\ R[m] <= m /\ f[R[m]] = R[m]
           F == {m \in Nodes : ~OK(m)}
<1>2. ASSUME F # {} PROVE FALSE
  <2>1. PICK m \in F : \A l \in F : m <= l
    <3>1. F \subseteq Nat
      BY GraphAssumption DEF Nodes
    <3> HIDE DEF F
    <3> QED
      BY <1>2, <3>1, SmallestNumber
  <2>2. m \in Nodes /\ ~OK(m)
    BY <2>1
  <2>3. CASE f[m] < m
    <3>1. f[m] \in Nodes /\ f[m] \notin F
      BY <1>1, <2>1, <2>2, <2>3
    <3>2. OK(f[m]) /\ R[m] = R[f[m]]
      BY <1>1, <2>2, <2>3, <3>1
    <3>3. R[m] \in Nodes /\ R[m] \in Nat /\ R[m] <= f[m] /\ f[R[m]] = R[m]
      BY <1>1, <3>2
    <3>4. R[m] <= m
      BY <1>1, <2>2, <3>3
    <3> QED
      BY <2>2, <3>3, <3>4
  <2>4. CASE ~(f[m] < m)
    <3>1. R[m] = m /\ f[m] = m /\ m <= m
      BY <1>1, <2>2, <2>4
    <3> QED
      BY <2>2, <3>1
  <2> QED
    BY <2>3, <2>4
<1>3. OK(n)
  BY <1>2
<1>4. R[f[n]] = R[n] /\ (f[n] = n => R[n] = n)
  BY <1>1
<1> QED
  BY <1>3, <1>4

(* What a hook makes of the labels and of the roots.                         *)
Relabelled(f, h, l) == [f EXCEPT ![h] = l]
Hooked(R, h, l) == [n \in Nodes |-> IF R[n] = h THEN R[l] ELSE R[n]]

(* A root hooked below a lower vertex of another tree joins the two trees.   *)
LEMMA HookRoots ==
  ASSUME NEW f, IsForest(f), NEW R, AreRoots(f, R),
         NEW h \in Nodes, NEW l \in Nodes, l < h, f[h] = h,
         NEW g, g = Relabelled(f, h, l), NEW T, AreRoots(g, T)
  PROVE  /\ IsForest(g) /\ R[h] = h /\ R[l] < h
         /\ T = Hooked(R, h, l)
<1>0. g = [f EXCEPT ![h] = l]
  BY DEF Relabelled
<1> DEFINE U == [n \in Nodes |-> IF R[n] = h THEN R[l] ELSE R[n]]
<1>1. /\ f \in [Nodes -> Nodes]
      /\ \A m \in Nodes : m \in Nat /\ f[m] \in Nodes /\ f[m] \in Nat /\ f[m] <= m
  BY GraphAssumption DEF IsForest, Nodes
<1>2. IsForest(g)
  BY <1>0, <1>1 DEF IsForest
<1>3. \A m \in Nodes : R[m] \in Nodes /\ R[m] <= m /\ R[f[m]] = R[m] /\ (f[m] = m => R[m] = m)
  BY RootsFacts
<1>4. R[h] = h /\ R[l] \in Nodes /\ R[l] \in Nat /\ R[l] < h
  BY <1>1, <1>3
<1>5. ASSUME NEW n \in Nodes
      PROVE  U[n] = IF g[n] < n THEN U[g[n]] ELSE n
  <2>1. CASE n = h
    <3>1. g[n] = l /\ g[n] < n /\ U[n] = R[l]
      BY <1>0, <1>1, <1>4, <2>1
    <3>2. U[l] = R[l]
      BY <1>4
    <3> QED
      BY <3>1, <3>2
  <2>2. CASE n # h
    <3>1. g[n] = f[n] /\ f[n] \in Nodes
      BY <1>0, <1>1, <2>2
    <3>2. R[f[n]] = R[n] /\ U[f[n]] = U[n]
      BY <1>3, <3>1
    <3>3. CASE f[n] < n
      BY <3>1, <3>2, <3>3
    <3>4. CASE ~(f[n] < n)
      <4>1. f[n] = n
        BY <1>1, <3>4
      <4>2. R[n] = n
        BY <1>3, <4>1
      <4>3. U[n] = n
        BY <2>2, <4>2
      <4> QED
        BY <3>1, <3>4, <4>3
    <3> QED
      BY <3>3, <3>4
  <2> QED
    BY <2>1, <2>2
<1>6. U = [n \in Nodes |-> U[n]]
  OBVIOUS
<1>7. AreRoots(g, U)
  <2> HIDE DEF U
  <2>1. U = [n \in Nodes |-> IF g[n] < n THEN U[g[n]] ELSE n]
    BY <1>5, <1>6
  <2> QED
    BY <2>1 DEF AreRoots
<1>8. T = U
  <2> HIDE DEF U
  <2> QED
    BY <1>2, <1>7, RootsUnique
<1> QED
  BY <1>2, <1>4, <1>8 DEF Hooked

(* A label that is replaced by a lower one of the same tree moves no vertex  *)
(* to another tree.                                                          *)
LEMMA ShortenRoots ==
  ASSUME NEW f, IsForest(f), NEW R, AreRoots(f, R),
         NEW h \in Nodes, NEW l \in Nodes, l < h, f[h] < h, R[l] = R[h],
         NEW g, g = Relabelled(f, h, l), NEW T, AreRoots(g, T)
  PROVE  IsForest(g) /\ T = R
<1>0. g = [f EXCEPT ![h] = l]
  BY DEF Relabelled
<1>1. /\ f \in [Nodes -> Nodes]
      /\ \A m \in Nodes : m \in Nat /\ f[m] \in Nodes /\ f[m] \in Nat /\ f[m] <= m
  BY GraphAssumption DEF IsForest, Nodes
<1>2. IsForest(g)
  BY <1>0, <1>1 DEF IsForest
<1>3a. \A m \in Nodes : R[f[m]] = R[m]
  BY RootsFacts
<1>3. /\ R = [n \in Nodes |-> IF f[n] < n THEN R[f[n]] ELSE n]
      /\ \A m \in Nodes : R[f[m]] = R[m]
  BY <1>3a DEF AreRoots
<1>4. ASSUME NEW n \in Nodes
      PROVE  R[n] = IF g[n] < n THEN R[g[n]] ELSE n
  <2>1. CASE n = h
    BY <1>0, <1>1, <2>1
  <2>2. CASE n # h
    <3>1. g[n] = f[n]
      BY <1>0, <1>1, <2>2
    <3>2. R[n] = IF f[n] < n THEN R[f[n]] ELSE n
      BY <1>3
    <3> QED
      BY <3>1, <3>2
  <2> QED
    BY <2>1, <2>2
<1>5. R = [n \in Nodes |-> R[n]]
  BY <1>3
<1>6. AreRoots(g, R)
  <2>1. R = [n \in Nodes |-> IF g[n] < n THEN R[g[n]] ELSE n]
    BY <1>4, <1>5
  <2> QED
    BY <2>1 DEF AreRoots
<1> QED
  BY <1>2, <1>6, RootsUnique

(* Root is the function of roots of comp.                                    *)
CompIsForest == IsForest(comp)
RootIsRoots == AreRoots(comp, Root)

LEMMA RootEquation == CompIsForest => RootIsRoots
<1> SUFFICES ASSUME IsForest(comp) PROVE AreRoots(comp, Root)
  BY DEF CompIsForest, RootIsRoots
<1>1. PICK R : AreRoots(comp, R)
  BY RootsExist
<1>2. \E T : T = [n \in Nodes |-> IF comp[n] < n THEN T[comp[n]] ELSE n]
  BY <1>1 DEF AreRoots
<1>3. Root = [n \in Nodes |-> IF comp[n] < n THEN Root[comp[n]] ELSE n]
  BY <1>2 DEF Root
<1> QED
  BY <1>3 DEF AreRoots

LEMMA RootEquationNext == CompIsForest' => RootIsRoots'
<1>1. (CompIsForest => RootIsRoots)'
  BY RootEquation, PTL
<1> QED
  BY <1>1

--------------------------------------------------------------------------------
(* A worker's step.                                                          *)

LEMMA ForestNow == IInv => CompIsForest
  BY DEF IInv, Types, LabelsDescend, CompIsForest, IsForest

LEMMA ForestNext == IInv' => CompIsForest'
<1>1. (IInv => CompIsForest)'
  BY ForestNow, PTL
<1> QED
  BY <1>1

LEMMA RootsNow == IInv => IsForest(comp) /\ AreRoots(comp, Root)
  BY ForestNow, RootEquation DEF CompIsForest, RootIsRoots

LEMMA RootsNext == IInv' => IsForest(comp') /\ AreRoots(comp', Root')
  BY ForestNext, RootEquationNext DEF CompIsForest, RootIsRoots

(* Trees are only joined.                                                    *)
Merging == \A a, b \in Nodes : Root[a] = Root[b] => Root'[a] = Root'[b]

LEMMA EndsOfLink ==
  ASSUME NEW m \in WorkerType PROVE Left(m) \in Nodes /\ Right(m) \in Nodes
  BY DEF WorkerType, Left, Right

LEMMA JoinsStay ==
  ASSUME Merging, NEW m \in WorkerType, NEW u \in Nodes, NEW v \in Nodes, Joins(m, u, v)
  PROVE  Joins(m, u, v)'
<1>1. PICK a \in Nodes : a = Left(m)
  BY EndsOfLink
<1>2. PICK b \in Nodes : b = Right(m)
  BY EndsOfLink
<1>3. InLink(m)' /\ Left(m)' = a /\ Right(m)' = b
  BY <1>1, <1>2 DEF Joins, InLink, Left, Right
<1>4. Between(a, b, u, v)
  BY <1>1, <1>2 DEF Joins
<1>5. \/ Root'[a] = Root'[u] /\ Root'[b] = Root'[v]
      \/ Root'[a] = Root'[v] /\ Root'[b] = Root'[u]
  BY <1>4 DEF Merging, Between, Same
<1> QED
  BY <1>3, <1>5 DEF Joins, Between, Same

(* What a step of worker w must say of w, so that the others keep what they  *)
(* have and no vertex is forgotten.                                          *)
LEMMA OwnStep ==
  ASSUME IInv, IInv', Progress, NEW w \in Workers, UNCHANGED <<graph, pc, round, c>>,
         my[w].pc # "done",
         next_index' >= next_index,
         \A x \in Workers \ {w} : my'[x] = my[x],
         Merging,
         \A n \in Nodes : comp[n] < n => comp'[n] < n,
         pc = "compress" => \A n \in Nodes :
           ~(my[w].i <= n /\ n < my[w].end) /\ comp[comp[n]] = comp[n] => comp'[comp'[n]] = comp'[n],
         WorkerOK(my[w])',
         \A u, v \in Nodes : Joins(my[w], u, v) \/ <<u, v>> \in my[w].todo => Settling(u, v)',
         \A u \in Nodes : my[w].i <= u /\ u < my[w].end => (Pending(u) \/ Covered(u))',
         \A u \in Nodes : u >= next_index => (Pending(u) \/ Covered(u))'
  PROVE  Progress'
<1>1. /\ out_neigh' = out_neigh /\ directed' = directed
      /\ pc' = pc /\ round' = round /\ c' = c
  BY DEF graph
<1>2. /\ out_neigh \in [Nodes -> SUBSET Nodes] /\ next_index \in Nat /\ next_index' \in Nat
      /\ my \in [Workers -> WorkerType] /\ comp \in [Nodes -> Nodes] /\ num_nodes \in Nat
  BY GraphAssumption DEF IInv, Types
<1>3. \A x \in Workers : WorkerOK(my[x])
  BY DEF Progress
<1>4. RoundsOK' /\ RoundsOK
  BY <1>1 DEF Progress, RoundsOK
<1>5. pc # "done"
  BY <1>3 DEF WorkerOK
<1>6. \A a, b \in Nodes : Same(a, b) => Same(a, b)'
  BY DEF Merging, Same
<1>7. ASSUME NEW x \in Workers \ {w} PROVE WorkerOK(my[x])'
  <2>1. PICK m \in WorkerType : m = my[x] /\ m = my'[x]
    BY <1>2
  <2>2. WorkerOK(m)
    BY <1>3, <2>1
  <2>3. \A e \in m.todo : Adjacent(e[1], e[2])'
    BY <1>1, <2>2 DEF WorkerOK, Adjacent
  <2>4. InLink(m) => \E u, v \in Nodes : Adjacent(u, v)' /\ Joins(m, u, v)'
    <3> SUFFICES ASSUME InLink(m) PROVE \E u, v \in Nodes : Adjacent(u, v)' /\ Joins(m, u, v)'
      OBVIOUS
    <3>1. PICK u, v \in Nodes : Adjacent(u, v) /\ Joins(m, u, v)
      BY <2>2 DEF WorkerOK
    <3>2. Joins(m, u, v)'
      BY <3>1, JoinsStay
    <3>3. Adjacent(u, v)'
      BY <1>1, <3>1 DEF Adjacent
    <3> QED
      BY <3>2, <3>3
  <2>5. m.pc = "shorten" => /\ m.i < m.end /\ m.label < m.i /\ comp'[m.i] < m.i
                            /\ Root'[m.label] = Root'[m.i]
    <3> SUFFICES ASSUME m.pc = "shorten"
                 PROVE  /\ m.i < m.end /\ m.label < m.i /\ comp'[m.i] < m.i
                        /\ Root'[m.label] = Root'[m.i]
      OBVIOUS
    <3>1. m.i < m.end /\ m.label < m.i /\ comp[m.i] < m.i /\ Root[m.label] = Root[m.i]
      BY <2>2 DEF WorkerOK, Same
    <3>2. m.i \in Nodes /\ m.label \in Nodes
      BY <1>2, <3>1 DEF WorkerType, Nodes
    <3> QED
      BY <3>1, <3>2 DEF Merging
  <2>6. m.pc = "done" => next_index' >= num_nodes /\ m.i = m.end /\ m.todo = {}
    BY <1>2, <2>2 DEF WorkerOK
  <2>7. /\ pc' \in {"compress", "done"} => m.pc \in {"vertex", "shorten", "done"} /\ m.todo = {}
        /\ pc' = "done" => m.pc = "done"
    BY <1>1, <2>2 DEF WorkerOK
  <2>8. InLink(my[x])' => \E u, v \in Nodes : Adjacent(u, v)' /\ Joins(my[x], u, v)'
    <3>1. /\ InLink(my[x])' = InLink(m)
          /\ \A u, v \in Nodes : Joins(m, u, v)' => Joins(my[x], u, v)'
      BY <2>1 DEF InLink, Joins, Left, Right, Between, Same
    <3> QED
      BY <2>4, <3>1
  <2>9. my'[x].pc = "shorten" => /\ my'[x].i < my'[x].end /\ my'[x].label < my'[x].i
                                 /\ comp'[my'[x].i] < my'[x].i
                                 /\ Same(my[x].label, my[x].i)'
    BY <2>1, <2>5 DEF Same
  <2> QED
    BY <2>1, <2>3, <2>6, <2>7, <2>8, <2>9 DEF WorkerOK
<1>8. ASSUME NEW u \in Nodes, NEW v \in Nodes, Settling(u, v) PROVE Settling(u, v)'
  <2>1. CASE Same(u, v)
    BY <1>6, <2>1 DEF Settling
  <2>2. ASSUME NEW x \in Workers, Joins(my[x], u, v) \/ <<u, v>> \in my[x].todo
        PROVE  Settling(u, v)'
    <3>1. CASE x = w
      BY <2>2, <3>1
    <3>2. CASE x # w
      <4>1. PICK m \in WorkerType : m = my[x] /\ m = my'[x]
        BY <1>2, <3>2
      <4>2. Joins(m, u, v) => Joins(m, u, v)'
        BY JoinsStay
      <4>3. Joins(my[x], u, v)' \/ <<u, v>> \in my'[x].todo
        BY <2>2, <4>1, <4>2 DEF Joins, InLink, Left, Right, Between, Same
      <4> QED
        BY <4>3 DEF Settling
    <3> QED
      BY <3>1, <3>2
  <2> QED
    BY <1>8, <2>1, <2>2 DEF Settling
<1>9. \A u \in Nodes : \A k : (out_neigh_from(u, k))' = out_neigh_from(u, k) 
  BY <1>1 DEF out_neigh_from
<1>10. ASSUME NEW u \in Nodes, Covered(u), ~(my[w].i <= u /\ u < my[w].end) PROVE Covered(u)'
  <2>1. pc = "link" =>
          \A v \in out_neigh_from(u, round)' \ out_neigh_from(u, round + 1)' : Settling(u, v)'
    <3>1. \A v \in out_neigh_from(u, round) \ out_neigh_from(u, round + 1) : v \in Nodes
      BY <1>2 DEF out_neigh_from
    <3>2. /\ out_neigh_from(u, round)' = out_neigh_from(u, round)
          /\ out_neigh_from(u, round + 1)' = out_neigh_from(u, round + 1)
      BY <1>1 DEF out_neigh_from
    <3> QED
      BY <1>8, <1>10, <3>1, <3>2 DEF Covered
  <2>2. pc = "final" => Same(u, c)' \/ \A v \in LastEnds(u)' : Settling(u, v)'
    <3>1. \A v \in LastEnds(u) : v \in Nodes
      BY <1>2 DEF LastEnds, out_neigh_from, in_neigh
    <3>2. LastEnds(u)' = LastEnds(u)
      BY <1>1 DEF LastEnds, out_neigh_from, in_neigh
    <3>3. pc = "final" => c \in Nodes
      BY <1>4 DEF RoundsOK
    <3>4. c \in Nodes /\ Same(u, c) => Same(u, c)'
      BY <1>1, <1>6 DEF Same
    <3> QED
      BY <1>8, <1>10, <3>1, <3>2, <3>3, <3>4 DEF Covered
  <2>3. pc = "compress" => comp'[comp'[u]] = comp'[u]
    BY <1>10 DEF Covered
  <2> QED
    BY <1>1, <1>5, <2>1, <2>2, <2>3 DEF Covered
<1>11. ASSUME NEW u \in Nodes PROVE (Pending(u) \/ Covered(u))'
  <2>1. Pending(u) \/ Covered(u)
    BY DEF Progress
  <2>2. CASE Covered(u)
    <3>1. CASE my[w].i <= u /\ u < my[w].end
      BY <3>1
    <3>2. CASE ~(my[w].i <= u /\ u < my[w].end)
      BY <1>10, <2>2, <3>2
    <3> QED
      BY <3>1, <3>2
  <2>3. CASE Pending(u)
    <3>1. CASE u >= next_index
      BY <3>1
    <3>2. ASSUME NEW x \in Workers, my[x].i <= u, u < my[x].end PROVE (Pending(u) \/ Covered(u))'
      <4>1. CASE x = w
        BY <3>2, <4>1
      <4>2. CASE x # w
        BY <3>2, <4>2 DEF Pending
      <4> QED
        BY <4>1, <4>2
    <3> QED
      BY <2>3, <3>1, <3>2 DEF Pending
  <2> QED
    BY <2>1, <2>2, <2>3
<1>12. LinkedOK'
  <2>1. LinkedOK
    BY DEF Progress
  <2>2. Sampled(round) => Sampled(round)'
    <3> SUFFICES ASSUME Sampled(round), NEW u \in Nodes,
                        NEW v \in out_neigh'[u] \ out_neigh_from(u, round)'
                 PROVE  Same(u, v)'
      BY DEF Sampled
    <3>1. v \in out_neigh[u] \ out_neigh_from(u, round) /\ v \in Nodes
      BY <1>1, <1>2 DEF out_neigh_from
    <3> QED
      BY <1>6, <3>1 DEF Sampled
  <2>3. AllLinked => AllLinked'
    <3> SUFFICES ASSUME AllLinked, NEW u \in Nodes, NEW v \in Nodes, Adjacent(u, v)'
                 PROVE  Same(u, v)'
      BY DEF AllLinked
    <3>1. Adjacent(u, v)
      BY <1>1 DEF Adjacent
    <3> QED
      BY <1>6, <3>1 DEF AllLinked
  <2> QED
    BY <1>1, <2>1, <2>2, <2>3 DEF LinkedOK
<1>13. \A x \in Workers : WorkerOK(my[x])'
  BY <1>7
<1>14. \A u \in Nodes : Pending(u)' \/ Covered(u)'
  BY <1>11
<1>15. GraphOK'
  BY <1>1 DEF Progress, GraphOK
<1> QED
  BY <1>4, <1>12, <1>13, <1>14, <1>15 DEF Progress

(* A step that leaves comp alone leaves all trees alone.                     *)
LEMMA SameRoots == comp' = comp => Root' = Root
  BY DEF Root

LEMMA QuietStep ==
  ASSUME IInv, IInv', Progress, NEW w \in Workers, UNCHANGED <<graph, pc, round, c>>,
         comp' = comp, my[w].pc # "done", next_index' >= next_index,
         \A x \in Workers \ {w} : my'[x] = my[x],
         WorkerOK(my[w])',
         \A u, v \in Nodes : Joins(my[w], u, v) \/ <<u, v>> \in my[w].todo => Settling(u, v)',
         \A u \in Nodes : my[w].i <= u /\ u < my[w].end => (Pending(u) \/ Covered(u))',
         \A u \in Nodes : u >= next_index => (Pending(u) \/ Covered(u))'
  PROVE  Progress'
<1>1. Merging
  BY SameRoots DEF Merging
<1>2. \A n \in Nodes : comp[n] < n => comp'[n] < n
  OBVIOUS
<1>3. pc = "compress" => \A n \in Nodes :
        ~(my[w].i <= n /\ n < my[w].end) /\ comp[comp[n]] = comp[n] => comp'[comp'[n]] = comp'[n]
  OBVIOUS
<1> QED
  BY <1>1, <1>2, <1>3, OwnStep

(* The same inside a vertex: the worker's range does not change.             *)
LEMMA StepInVertex ==
  ASSUME IInv, IInv', Progress, NEW w \in Workers, UNCHANGED <<graph, pc, round, c>>,
         comp' = comp, next_index' = next_index, my[w].pc # "done",
         \A x \in Workers \ {w} : my'[x] = my[x],
         my'[w].i = my[w].i, my'[w].end = my[w].end,
         WorkerOK(my[w])',
         \A u, v \in Nodes : Joins(my[w], u, v) \/ <<u, v>> \in my[w].todo => Settling(u, v)'
  PROVE  Progress'
<1>1. next_index \in Nat
  BY DEF IInv, Types
<1>2. next_index' >= next_index
  BY <1>1
<1>3. \A u \in Nodes : my[w].i <= u /\ u < my[w].end => (Pending(u) \/ Covered(u))'
  BY DEF Pending
<1>4. \A u \in Nodes : u >= next_index => (Pending(u) \/ Covered(u))'
  BY DEF Pending
<1> QED
  BY <1>2, <1>3, <1>4, QuietStep

(* Inside Link the worker climbs: the two labels it holds stay in the trees  *)
(* it came from.                                                             *)
LEMMA LinkGoesOn ==
  ASSUME IInv, IInv', Progress, NEW w \in Workers, UNCHANGED <<graph, pc, round, c>>,
         comp' = comp, next_index' = next_index,
         \A x \in Workers \ {w} : my'[x] = my[x],
         my'[w].i = my[w].i, my'[w].end = my[w].end, my'[w].todo = my[w].todo,
         InLink(my[w]), InLink(my[w])',
         \/ Same(Left(my[w])', Left(my[w])) /\ Same(Right(my[w])', Right(my[w]))
         \/ Same(Left(my[w])', Right(my[w])) /\ Same(Right(my[w])', Left(my[w]))
  PROVE  Progress'
<1>1. Root' = Root /\ out_neigh' = out_neigh
  BY SameRoots DEF graph
<1>2. WorkerOK(my[w]) /\ my[w] \in WorkerType /\ my[w].pc # "done" /\ pc' = pc
  BY DEF Progress, IInv, Types, InLink
<1>3. ASSUME NEW u \in Nodes, NEW v \in Nodes, Joins(my[w], u, v) PROVE Joins(my[w], u, v)'
  <2>1. Between(Left(my[w]), Right(my[w]), u, v)
    BY <1>3 DEF Joins
  <2>2. \/ Root[Left(my[w])'] = Root[u] /\ Root[Right(my[w])'] = Root[v]
        \/ Root[Left(my[w])'] = Root[v] /\ Root[Right(my[w])'] = Root[u]
    BY <2>1 DEF Between, Same
  <2>3. Between(Left(my[w]), Right(my[w]), u, v)'
    BY <1>1, <2>2 DEF Between, Same
  <2> QED
    BY <2>3 DEF Joins
<1>4. PICK u, v \in Nodes : Adjacent(u, v) /\ Joins(my[w], u, v)
  BY <1>2 DEF WorkerOK
<1>5. Adjacent(u, v)' /\ Joins(my[w], u, v)'
  BY <1>1, <1>3, <1>4 DEF Adjacent
<1>6. \A e \in my'[w].todo : Adjacent(e[1], e[2])'
  BY <1>1, <1>2 DEF WorkerOK, Adjacent
<1>7. pc \notin {"compress", "done"} /\ my'[w].pc \notin {"shorten", "done"}
  BY <1>2 DEF WorkerOK, InLink
<1>8. WorkerOK(my[w])'
  BY <1>2, <1>5, <1>6, <1>7 DEF WorkerOK
<1>9. \A x, y \in Nodes : Joins(my[w], x, y) \/ <<x, y>> \in my[w].todo => Settling(x, y)'
  BY <1>3 DEF Settling
<1> QED
  BY <1>2, <1>8, <1>9, StepInVertex

(* It leaves when the two labels are in one tree.                            *)
LEMMA LinkIsLeft ==
  ASSUME IInv, IInv', Progress, NEW w \in Workers, UNCHANGED <<graph, pc, round, c>>,
         comp' = comp, next_index' = next_index, LinkReturns(w),
         InLink(my[w]), Same(Left(my[w]), Right(my[w]))
  PROVE  Progress'
<1>1. Root' = Root /\ out_neigh' = out_neigh
  BY SameRoots DEF graph
<1>2. WorkerOK(my[w]) /\ my \in [Workers -> WorkerType] /\ my[w].pc # "done" /\ pc' = pc
  BY DEF Progress, IInv, Types, InLink
<1>3. /\ my'[w].pc = "vertex" /\ my'[w].i = my[w].i /\ my'[w].end = my[w].end
      /\ my'[w].todo = my[w].todo
      /\ \A x \in Workers \ {w} : my'[x] = my[x]
  BY <1>2 DEF LinkReturns, NewWorker
<1>4. \A u, v \in Nodes : Joins(my[w], u, v) => Settling(u, v)'
  BY <1>1 DEF Joins, Between, Same, Settling
<1>5. \A u, v \in Nodes : <<u, v>> \in my[w].todo => Settling(u, v)'
  BY <1>3 DEF Settling
<1>6. \A e \in my'[w].todo : Adjacent(e[1], e[2])'
  BY <1>1, <1>2, <1>3 DEF WorkerOK, Adjacent
<1>7. pc \notin {"compress", "done"}
  BY <1>2 DEF WorkerOK, InLink
<1>8. WorkerOK(my[w])'
  BY <1>2, <1>3, <1>6, <1>7 DEF WorkerOK, InLink
<1> QED
  BY <1>2, <1>3, <1>4, <1>5, <1>8, StepInVertex

(* The loop test, after p2 was read as the label of a vertex of its tree.    *)
LEMMA LoopTestStep ==
  ASSUME IInv, IInv', Progress, NEW w \in Workers, UNCHANGED <<graph, pc, round, c>>,
         comp' = comp, next_index' = next_index, NEW p2 \in Nodes, LoopTest(w, p2),
         InLink(my[w]), Left(my[w]) = my[w].p1, Same(p2, Right(my[w]))
  PROVE  Progress'
<1>1. my \in [Workers -> WorkerType]
  BY DEF IInv, Types
<1>2. CASE my[w].p1 = p2
  <2>1. LinkReturns(w) /\ Same(Left(my[w]), Right(my[w]))
    BY <1>2 DEF LoopTest, Same
  <2> QED
    BY <2>1, LinkIsLeft
<1>3. CASE my[w].p1 # p2
  <2>1. my' = [my EXCEPT ![w].p2 = p2, ![w].pc = "high", ![w].v = 0, ![w].low = 0]
    BY <1>3 DEF LoopTest
  <2>2. my[w] \in WorkerType
    BY <1>1
  <2>3. /\ my'[w].pc = "high" /\ my'[w].p1 = my[w].p1 /\ my'[w].p2 = p2
        /\ my'[w].i = my[w].i /\ my'[w].end = my[w].end /\ my'[w].todo = my[w].todo
        /\ \A x \in Workers \ {w} : my'[x] = my[x]
    BY <1>1, <2>1, <2>2 DEF WorkerType
  <2>4. InLink(my[w])' /\ Left(my[w])' = my[w].p1 /\ Right(my[w])' = p2
    BY <2>3 DEF InLink, Left, Right
  <2>5. Same(Left(my[w])', Left(my[w])) /\ Same(Right(my[w])', Right(my[w]))
    BY <2>4 DEF Same
  <2> QED
    BY <2>3, <2>4, <2>5, LinkGoesOn
<1> QED
  BY <1>2, <1>3

--------------------------------------------------------------------------------
(* The actions of a worker.  A claimed chunk is pending in the worker's hands. *)
LEMMA ClaimProgresses ==
  ASSUME IInv, IInv', Progress, NEW w \in Workers, UNCHANGED <<graph, pc, round, c>>,
         ClaimChunk(w)
  PROVE  Progress'
<1>1. /\ num_nodes \in Nat /\ kChunk \in Nat \ {0}
      /\ next_index \in Nat /\ my \in [Workers -> WorkerType] /\ my[w] \in WorkerType
  BY GraphAssumption, CCAssumption DEF IInv, Types
<1>2. /\ my[w].pc = "vertex" /\ my[w].todo = {} /\ my[w].i = my[w].end
      /\ next_index' = next_index + kChunk /\ comp' = comp
  BY DEF ClaimChunk
<1>3. WorkerOK(my[w]) /\ pc # "done" /\ pc' = pc
  BY <1>2 DEF Progress, WorkerOK
<1>4. /\ my[w].pc # "done" /\ next_index' >= next_index
      /\ \A u, v \in Nodes : ~(Joins(my[w], u, v) \/ <<u, v>> \in my[w].todo)
      /\ \A u \in Nodes : ~(my[w].i <= u /\ u < my[w].end)
  BY <1>1, <1>2 DEF Joins, InLink, WorkerType, Nodes
<1>5. CASE next_index >= num_nodes
  <2>1. my' = [my EXCEPT ![w] = [NewWorker EXCEPT !.pc = "done"]]
    BY <1>5 DEF ClaimChunk
  <2>2. /\ my'[w].pc = "done" /\ my'[w].i = my'[w].end /\ my'[w].todo = {}
        /\ \A x \in Workers \ {w} : my'[x] = my[x]
    BY <1>1, <2>1 DEF NewWorker
  <2>3. next_index' >= num_nodes
    BY <1>1, <1>2, <1>5
  <2>4. WorkerOK(my[w])'
    BY <1>3, <2>2, <2>3 DEF WorkerOK, InLink
  <2>5. \A u \in Nodes : ~(u >= next_index)
    BY <1>1, <1>5 DEF Nodes
  <2> QED
    BY <1>2, <1>4, <2>2, <2>4, <2>5, QuietStep
<1>6. CASE ~(next_index >= num_nodes)
  <2> DEFINE end == IF next_index + kChunk < num_nodes THEN next_index + kChunk ELSE num_nodes
  <2>1. my' = [my EXCEPT ![w].i = next_index, ![w].end = end]
    BY <1>6 DEF ClaimChunk
  <2>2. /\ my'[w].pc = "vertex" /\ my'[w].i = next_index /\ my'[w].end = end /\ my'[w].todo = {}
        /\ \A x \in Workers \ {w} : my'[x] = my[x]
    <3> HIDE DEF end
    <3> QED
      BY <1>1, <1>2, <2>1 DEF WorkerType
  <2>3. WorkerOK(my[w])'
    BY <1>3, <2>2 DEF WorkerOK, InLink
  <2>4. \A u \in Nodes : u >= next_index => u < end \/ u >= next_index'
    BY <1>1, <1>2 DEF Nodes
  <2>5. \A u \in Nodes : u >= next_index => (Pending(u) \/ Covered(u))'
    <3> HIDE DEF end
    <3> QED
      BY <2>2, <2>4 DEF Pending
  <2> QED
    BY <1>2, <1>4, <2>2, <2>3, <2>5, QuietStep
<1> QED
  BY <1>5, <1>6

(* A worker takes the next vertex of its chunk, with the edges S to link,    *)
(* and leaves nothing uncovered.                                             *)
LEMMA VertexProgresses ==
  ASSUME IInv, IInv', Progress, NEW w \in Workers, UNCHANGED <<graph, pc, round, c>>,
         comp' = comp, next_index' = next_index,
         NEW u \in Nodes, Takes(w, u), NEW S,
         my' = [my EXCEPT ![w].i = @ + 1, ![w].todo = {<<u, v>> : v \in S}],
         \A v \in S : Adjacent(u, v),
         pc = "compress" => S = {},
         Covered(u)'
  PROVE  Progress'
<1>1. /\ num_nodes \in Nat /\ next_index \in Nat
      /\ my \in [Workers -> WorkerType] /\ my[w] \in WorkerType
  BY GraphAssumption DEF IInv, Types
<1>2. my[w].pc = "vertex" /\ my[w].todo = {} /\ my[w].i < my[w].end /\ u = my[w].i
  BY DEF Takes
<1>3. WorkerOK(my[w]) /\ pc # "done" /\ pc' = pc /\ out_neigh' = out_neigh
  BY <1>2 DEF Progress, WorkerOK, graph
<1>4. /\ my[w].pc # "done" /\ next_index' >= next_index
      /\ \A x, y \in Nodes : ~(Joins(my[w], x, y) \/ <<x, y>> \in my[w].todo)
  BY <1>1, <1>2 DEF Joins, InLink
<1> DEFINE T == {<<u, v>> : v \in S}
           next == my[w].i + 1
<1>5. (\A e \in T : Adjacent(e[1], e[2])') /\ (pc = "compress" => T = {})
  BY <1>3 DEF Adjacent
<1>6. \A n \in Nodes : my[w].i <= n => n = u \/ next <= n
  BY <1>1, <1>2 DEF WorkerType, Nodes
<1>7. my' = [my EXCEPT ![w].i = next, ![w].todo = T]
  BY <1>1
<1> HIDE DEF T, next
<1>8. /\ my'[w].pc = "vertex" /\ my'[w].i = next /\ my'[w].end = my[w].end /\ my'[w].todo = T
      /\ \A x \in Workers \ {w} : my'[x] = my[x]
  BY <1>1, <1>2, <1>7 DEF WorkerType
<1>9. WorkerOK(my[w])'
  BY <1>3, <1>5, <1>8 DEF WorkerOK, InLink
<1>10. \A n \in Nodes : my[w].i <= n /\ n < my[w].end => (Pending(n) \/ Covered(n))'
  BY <1>6, <1>8 DEF Pending
<1>11. \A n \in Nodes : n >= next_index => (Pending(n) \/ Covered(n))'
  BY DEF Pending
<1> QED
  BY <1>4, <1>8, <1>9, <1>10, <1>11, QuietStep

(* The targets of a sampled vertex, and those of a vertex in the last region *)
(* that does not carry the label to skip, are on the worker's list.          *)
LEMMA SampleProgresses ==
  ASSUME IInv, IInv', Progress, NEW w \in Workers, UNCHANGED <<graph, pc, round, c>>,
         SampleVertex(w)
  PROVE  Progress'
<1>1. /\ pc = "link" /\ comp' = comp /\ next_index' = next_index
  BY DEF SampleVertex
<1>2. out_neigh' = out_neigh /\ round' = round /\ pc' = pc
      /\ my \in [Workers -> WorkerType]
  BY DEF graph, IInv, Types
<1> DEFINE Ends(u) == out_neigh_from(u, round) \ out_neigh_from(u, round + 1)
<1>3. PICK u \in Nodes :
        /\ Takes(w, u)
        /\ my' = [my EXCEPT ![w].i = @ + 1, ![w].todo = {<<u, v>> : v \in Ends(u)}]
  BY DEF SampleVertex
<1>4. \A v \in Ends(u) : Adjacent(u, v)
  BY DEF out_neigh_from, Adjacent
<1>5. Covered(u)'
  <2>1. Ends(u)' = Ends(u)
    BY <1>2 DEF out_neigh_from
  <2>2. my'[w].todo = {<<u, v>> : v \in Ends(u)}
    <3> DEFINE T == {<<u, v>> : v \in Ends(u)}
    <3>1. my' = [my EXCEPT ![w].i = @ + 1, ![w].todo = T]
      BY <1>3
    <3> HIDE DEF T
    <3>2. my'[w].todo = T
      BY <1>2, <3>1 DEF WorkerType
    <3> QED
      BY <3>2 DEF T
  <2>3. \A v \in Ends(u) : Settling(u, v)'
    BY <2>2 DEF Settling
  <2> QED
    BY <1>1, <1>2, <2>1, <2>3 DEF Covered
<1> QED
  BY <1>1, <1>3, <1>4, <1>5, VertexProgresses

LEMMA FinishProgresses ==
  ASSUME IInv, IInv', Progress, NEW w \in Workers, UNCHANGED <<graph, pc, round, c>>,
         FinishVertex(w)
  PROVE  Progress'
<1>1. /\ pc = "final" /\ comp' = comp /\ next_index' = next_index
  BY DEF FinishVertex
<1>2. /\ out_neigh' = out_neigh /\ directed' = directed /\ round' = round /\ pc' = pc /\ c' = c
      /\ my \in [Workers -> WorkerType]
  BY DEF graph, IInv, Types
<1>3. PICK u \in Nodes :
        /\ Takes(w, u)
        /\ my' = [my EXCEPT ![w].i = @ + 1,
                            ![w].todo = IF comp[u] = c THEN {} ELSE {<<u, v>> : v \in LastEnds(u)}]
  BY DEF FinishVertex, LastEnds
<1> DEFINE S == IF comp[u] = c THEN {} ELSE LastEnds(u)
<1>4. my' = [my EXCEPT ![w].i = @ + 1, ![w].todo = {<<u, v>> : v \in S}]
  BY <1>3
<1>5. \A v \in S : Adjacent(u, v)
  BY DEF LastEnds, out_neigh_from, in_neigh, Adjacent
<1>6. comp[u] = c => Same(u, c)
  BY RootsNow, RootsFacts DEF Same
<1>7. Root' = Root
  BY <1>1, SameRoots
<1>8. LastEnds(u)' = LastEnds(u)
  BY <1>2 DEF LastEnds, out_neigh_from, in_neigh
<1>9. Covered(u)'
  <2>1. CASE comp[u] = c
    BY <1>1, <1>2, <1>6, <1>7, <2>1 DEF Covered, Same
  <2>2. CASE comp[u] # c
    <3> DEFINE T == {<<u, v>> : v \in LastEnds(u)}
    <3>1. my' = [my EXCEPT ![w].i = @ + 1, ![w].todo = T]
      BY <1>3, <2>2
    <3>2. my'[w].todo = T
      <4> HIDE DEF T
      <4> QED
        BY <1>2, <3>1 DEF WorkerType
    <3>3. \A v \in LastEnds(u) : Settling(u, v)'
      BY <3>2 DEF Settling
    <3> QED
      BY <1>1, <1>2, <1>8, <3>3 DEF Covered
  <2> QED
    BY <2>1, <2>2
<1>10. pc # "compress"
  BY <1>1
<1> HIDE DEF S
<1> QED
  BY <1>1, <1>3, <1>4, <1>5, <1>9, <1>10, VertexProgresses

(* An edge that leaves the list is the one the worker is linking.            *)
LEMMA ReadUProgresses ==
  ASSUME IInv, IInv', Progress, NEW w \in Workers, UNCHANGED <<graph, pc, round, c>>,
         LinkReadU(w)
  PROVE  Progress'
<1>1. PICK e \in my[w].todo :
        my' = [my EXCEPT ![w].todo = @ \ {e}, ![w].v = e[2], ![w].p1 = comp[e[1]],
                         ![w].pc = "readv"]
  BY DEF LinkReadU
<1>2. /\ my[w].pc = "vertex" /\ comp' = comp /\ next_index' = next_index
      /\ Root' = Root /\ out_neigh' = out_neigh /\ pc' = pc
  BY SameRoots DEF LinkReadU, graph
<1>3. /\ my \in [Workers -> WorkerType] /\ my[w] \in WorkerType /\ WorkerOK(my[w])
      /\ comp \in [Nodes -> Nodes]
  BY DEF IInv, Types, Progress
<1>4. e \in Nodes \X Nodes /\ e[1] \in Nodes /\ e[2] \in Nodes /\ Adjacent(e[1], e[2])
  BY <1>1, <1>3 DEF WorkerType, WorkerOK
<1>5. Root[comp[e[1]]] = Root[e[1]]
  BY <1>4, RootsNow, RootsFacts
<1>6. /\ my'[w].pc = "readv" /\ my'[w].p1 = comp[e[1]] /\ my'[w].v = e[2]
      /\ my'[w].i = my[w].i /\ my'[w].end = my[w].end /\ my'[w].todo = my[w].todo \ {e}
      /\ \A x \in Workers \ {w} : my'[x] = my[x]
  BY <1>1, <1>3 DEF WorkerType
<1>7. Joins(my[w], e[1], e[2])'
  BY <1>2, <1>5, <1>6 DEF Joins, InLink, Left, Right, Between, Same
<1>8. pc \notin {"compress", "done"}
  BY <1>1, <1>3 DEF WorkerOK
<1>9. WorkerOK(my[w])'
  <2>1. \A d \in my'[w].todo : Adjacent(d[1], d[2])'
    BY <1>2, <1>3, <1>6 DEF WorkerOK, Adjacent
  <2>2. Adjacent(e[1], e[2])'
    BY <1>2, <1>4 DEF Adjacent
  <2>3. \E u, v \in Nodes : Adjacent(u, v)' /\ Joins(my[w], u, v)'
    BY <1>4, <1>7, <2>2
  <2> QED
    BY <1>2, <1>6, <1>8, <2>1, <2>3 DEF WorkerOK
<1>10. ASSUME NEW u \in Nodes, NEW v \in Nodes, Joins(my[w], u, v) \/ <<u, v>> \in my[w].todo
       PROVE  Settling(u, v)'
  <2>1. <<u, v>> \in my[w].todo
    BY <1>2, <1>10 DEF Joins, InLink
  <2>2. CASE <<u, v>> = e
    <3>1. u = e[1] /\ v = e[2]
      BY <2>2
    <3> QED
      BY <1>7, <3>1 DEF Settling
  <2>3. CASE <<u, v>> # e
    <3>1. <<u, v>> \in my'[w].todo
      BY <1>6, <2>1, <2>3
    <3> QED
      BY <3>1 DEF Settling
  <2> QED
    BY <2>2, <2>3
<1> QED
  BY <1>2, <1>6, <1>9, <1>10, StepInVertex

(* The reads of comp[v] and of comp[low] end in the loop test.               *)
LEMMA ReadVProgresses ==
  ASSUME IInv, IInv', Progress, NEW w \in Workers, UNCHANGED <<graph, pc, round, c>>,
         LinkReadV(w)
  PROVE  Progress'
<1>1. /\ my[w].pc = "readv" /\ my[w].v \in Nodes /\ comp[my[w].v] \in Nodes
      /\ LoopTest(w, comp[my[w].v]) /\ comp' = comp /\ next_index' = next_index
  BY DEF LinkReadV, IInv, Types, WorkerType
<1>2. InLink(my[w]) /\ Left(my[w]) = my[w].p1 /\ Right(my[w]) = my[w].v
  BY <1>1 DEF InLink, Left, Right
<1>3. Same(comp[my[w].v], Right(my[w]))
  BY <1>1, <1>2, RootsNow, RootsFacts DEF Same
<1> QED
  BY <1>1, <1>2, <1>3, LoopTestStep

LEMMA ReadLowProgresses ==
  ASSUME IInv, IInv', Progress, NEW w \in Workers, UNCHANGED <<graph, pc, round, c>>,
         LinkReadLow(w)
  PROVE  Progress'
<1>1. /\ my[w].pc = "low" /\ my[w].low \in Nodes /\ comp[my[w].low] \in Nodes
      /\ LoopTest(w, comp[my[w].low]) /\ comp' = comp /\ next_index' = next_index
  BY DEF LinkReadLow, IInv, Types, WorkerType
<1>2. InLink(my[w]) /\ Left(my[w]) = my[w].p1 /\ Right(my[w]) = my[w].low
  BY <1>1 DEF InLink, Left, Right
<1>3. Same(comp[my[w].low], Right(my[w]))
  BY <1>1, <1>2, RootsNow, RootsFacts DEF Same
<1> QED
  BY <1>1, <1>2, <1>3, LoopTestStep

(* The labels that are compared, and which of them is higher.                *)
LEMMA LabelsCompared ==
  ASSUME IInv, NEW w \in Workers, my[w].pc \in {"high", "cas", "climb"}
  PROVE  /\ High(w) \in Nodes /\ Low(w) \in Nodes /\ Low(w) < High(w)
         /\ InLink(my[w])
         /\ \/ High(w) = Left(my[w]) /\ Low(w) = Right(my[w])
            \/ High(w) = Right(my[w]) /\ Low(w) = Left(my[w])
<1>1. my[w] \in WorkerType /\ Knows(out_neigh, my[w]) /\ num_nodes \in Nat
  BY GraphAssumption DEF IInv, Types
<1>2. my[w].p1 \in Nodes /\ my[w].p2 \in Nodes /\ my[w].p1 # my[w].p2
  BY <1>1 DEF WorkerType, Knows
<1>3. /\ High(w) \in Nodes /\ Low(w) \in Nodes /\ Low(w) < High(w)
      /\ \/ High(w) = my[w].p1 /\ Low(w) = my[w].p2
         \/ High(w) = my[w].p2 /\ Low(w) = my[w].p1
  BY <1>1, <1>2, HighAndLow
<1>4. InLink(my[w]) /\ Left(my[w]) = my[w].p1 /\ Right(my[w]) = my[w].p2
  BY DEF InLink, Left, Right
<1> QED
  BY <1>3, <1>4

(* Going on to another place of Link with the same labels.                   *)
LEMMA PlaceProgresses ==
  ASSUME IInv, IInv', Progress, NEW w \in Workers, UNCHANGED <<graph, pc, round, c>>,
         comp' = comp, next_index' = next_index,
         my[w].pc \in {"high", "cas"}, NEW place \in {"cas", "climb"},
         my' = [my EXCEPT ![w].pc = place]
  PROVE  Progress'
<1>1. my \in [Workers -> WorkerType] /\ my[w] \in WorkerType
  BY DEF IInv, Types
<1>2. /\ my'[w].pc = place /\ my'[w].p1 = my[w].p1 /\ my'[w].p2 = my[w].p2
      /\ my'[w].i = my[w].i /\ my'[w].end = my[w].end /\ my'[w].todo = my[w].todo
      /\ \A x \in Workers \ {w} : my'[x] = my[x]
  BY <1>1 DEF WorkerType
<1>3. /\ InLink(my[w]) /\ InLink(my[w])'
      /\ Left(my[w])' = Left(my[w]) /\ Right(my[w])' = Right(my[w])
  BY <1>2 DEF InLink, Left, Right
<1>4. Same(Left(my[w])', Left(my[w])) /\ Same(Right(my[w])', Right(my[w]))
  BY <1>3 DEF Same
<1> QED
  BY <1>2, <1>3, <1>4, LinkGoesOn

(* Already low: the two labels are in one tree.                              *)
LEMMA ReadHighProgresses ==
  ASSUME IInv, IInv', Progress, NEW w \in Workers, UNCHANGED <<graph, pc, round, c>>,
         LinkReadHigh(w)
  PROVE  Progress'
<1>1. my[w].pc = "high" /\ comp' = comp /\ next_index' = next_index
  BY DEF LinkReadHigh
<1>2. /\ High(w) \in Nodes /\ Low(w) \in Nodes /\ InLink(my[w])
      /\ \/ High(w) = Left(my[w]) /\ Low(w) = Right(my[w])
         \/ High(w) = Right(my[w]) /\ Low(w) = Left(my[w])
  BY <1>1, LabelsCompared
<1>2a. Low(w) # High(w)
  <2>1. Low(w) < High(w) /\ Low(w) \in Nat /\ High(w) \in Nat
    BY <1>1, LabelsCompared, GraphAssumption DEF Nodes
  <2> QED
    BY <2>1
<1>3. CASE comp[High(w)] = Low(w)
  <2>1. LinkReturns(w)
    BY <1>2a, <1>3 DEF LinkReadHigh
  <2>2. Root[comp[High(w)]] = Root[High(w)]
    BY <1>2, RootsNow, RootsFacts
  <2>3. Same(Left(my[w]), Right(my[w]))
    BY <1>2, <1>3, <2>2 DEF Same
  <2> QED
    BY <1>1, <1>2, <2>1, <2>3, LinkIsLeft
<1>4. CASE comp[High(w)] # Low(w)
  <2>1. \/ my' = [my EXCEPT ![w].pc = "cas"]
        \/ my' = [my EXCEPT ![w].pc = "climb"]
    BY <1>4 DEF LinkReadHigh
  <2> QED
    BY <1>1, <2>1, PlaceProgresses
<1> QED
  BY <1>3, <1>4

(* Climbing stays in the two trees.                                          *)
LEMMA ClimbProgresses ==
  ASSUME IInv, IInv', Progress, NEW w \in Workers, UNCHANGED <<graph, pc, round, c>>,
         LinkClimb(w)
  PROVE  Progress'
<1>1. /\ my[w].pc = "climb" /\ comp' = comp /\ next_index' = next_index
      /\ my' = [my EXCEPT ![w].label = comp[High(w)], ![w].low = Low(w), ![w].pc = "climb2"]
      /\ my \in [Workers -> WorkerType] /\ my[w] \in WorkerType
  BY DEF LinkClimb, IInv, Types
<1>2. /\ High(w) \in Nodes /\ Low(w) \in Nodes /\ InLink(my[w])
      /\ \/ High(w) = Left(my[w]) /\ Low(w) = Right(my[w])
         \/ High(w) = Right(my[w]) /\ Low(w) = Left(my[w])
  BY <1>1, LabelsCompared
<1>3. /\ my'[w].pc = "climb2" /\ my'[w].label = comp[High(w)] /\ my'[w].low = Low(w)
      /\ my'[w].i = my[w].i /\ my'[w].end = my[w].end /\ my'[w].todo = my[w].todo
      /\ \A x \in Workers \ {w} : my'[x] = my[x]
  BY <1>1 DEF WorkerType
<1>4. Root[comp[High(w)]] = Root[High(w)]
  BY <1>2, RootsNow, RootsFacts
<1>5. InLink(my[w])' /\ Left(my[w])' = comp[High(w)] /\ Right(my[w])' = Low(w)
  BY <1>3 DEF InLink, Left, Right
<1>6. \/ Same(Left(my[w])', Left(my[w])) /\ Same(Right(my[w])', Right(my[w]))
      \/ Same(Left(my[w])', Right(my[w])) /\ Same(Right(my[w])', Left(my[w]))
  BY <1>2, <1>4, <1>5 DEF Same
<1> QED
  BY <1>1, <1>2, <1>3, <1>5, <1>6, LinkGoesOn

LEMMA ClimbAgainProgresses ==
  ASSUME IInv, IInv', Progress, NEW w \in Workers, UNCHANGED <<graph, pc, round, c>>,
         LinkClimbAgain(w)
  PROVE  Progress'
<1>1. /\ my[w].pc = "climb2" /\ comp' = comp /\ next_index' = next_index
      /\ my' = [my EXCEPT ![w].p1 = comp[my[w].label], ![w].label = 0, ![w].p2 = 0,
                          ![w].pc = "low"]
      /\ my \in [Workers -> WorkerType] /\ my[w] \in WorkerType
  BY DEF LinkClimbAgain, IInv, Types
<1>2. /\ my'[w].pc = "low" /\ my'[w].p1 = comp[my[w].label] /\ my'[w].low = my[w].low
      /\ my'[w].i = my[w].i /\ my'[w].end = my[w].end /\ my'[w].todo = my[w].todo
      /\ \A x \in Workers \ {w} : my'[x] = my[x]
  BY <1>1 DEF WorkerType
<1>3. my[w].label \in Nodes /\ Root[comp[my[w].label]] = Root[my[w].label]
  BY <1>1, RootsNow, RootsFacts DEF WorkerType
<1>4. /\ InLink(my[w]) /\ Left(my[w]) = my[w].label /\ Right(my[w]) = my[w].low
      /\ InLink(my[w])' /\ Left(my[w])' = comp[my[w].label] /\ Right(my[w])' = my[w].low
  BY <1>1, <1>2 DEF InLink, Left, Right
<1>5. Same(Left(my[w])', Left(my[w])) /\ Same(Right(my[w])', Right(my[w]))
  BY <1>3, <1>4 DEF Same
<1> QED
  BY <1>1, <1>2, <1>4, <1>5, LinkGoesOn

(* What a hook does to the trees.                                            *)
LEMMA HookJoins ==
  ASSUME IInv, IInv', NEW h \in Nodes, NEW l \in Nodes, l < h, comp[h] = h,
         comp' = [comp EXCEPT ![h] = l]
  PROVE  /\ Root[h] = h /\ Root[l] < h
         /\ Root' = Hooked(Root, h, l)
<1>1. PICK f, R, g, T : f = comp /\ R = Root /\ g = comp' /\ T = Root'
  OBVIOUS
<1>2. IsForest(f) /\ AreRoots(f, R) /\ AreRoots(g, T)
  BY <1>1, RootsNow, RootsNext
<1>3. f[h] = h /\ g = Relabelled(f, h, l)
  BY <1>1 DEF Relabelled
<1>4. R[h] = h /\ R[l] < h /\ T = Hooked(R, h, l)
  BY <1>2, <1>3, HookRoots
<1> QED
  BY <1>1, <1>4

(* A hook links the edge; a swap that fails changes nothing.                 *)
LEMMA HookProgresses ==
  ASSUME IInv, IInv', Progress, NEW w \in Workers, UNCHANGED <<graph, pc, round, c>>,
         LinkHook(w)
  PROVE  Progress'
<1>1. my[w].pc = "cas" /\ next_index' = next_index /\ out_neigh' = out_neigh /\ pc' = pc
  BY DEF LinkHook, graph
<1>2. /\ High(w) \in Nodes /\ Low(w) \in Nodes /\ Low(w) < High(w) /\ InLink(my[w])
      /\ \/ High(w) = Left(my[w]) /\ Low(w) = Right(my[w])
         \/ High(w) = Right(my[w]) /\ Low(w) = Left(my[w])
  BY <1>1, LabelsCompared
<1>3. CASE comp[High(w)] # High(w)
  <2>1. my' = [my EXCEPT ![w].pc = "climb"] /\ comp' = comp
    BY <1>3 DEF LinkHook
  <2> QED
    BY <1>1, <2>1, PlaceProgresses
<1>4. CASE comp[High(w)] = High(w)
  <2>1. comp' = [comp EXCEPT ![High(w)] = Low(w)] /\ LinkReturns(w)
    BY <1>4 DEF LinkHook
  <2>2. /\ my \in [Workers -> WorkerType] /\ comp \in [Nodes -> Nodes] /\ next_index \in Nat
        /\ WorkerOK(my[w]) /\ pc \notin {"compress", "done"} /\ my[w].pc # "done"
    BY <1>1 DEF IInv, Types, Progress, WorkerOK
  <2>3. PICK h \in Nodes, l \in Nodes : h = High(w) /\ l = Low(w)
    BY <1>2
  <2>4. /\ Root[h] = h
        /\ Root' = [n \in Nodes |-> IF Root[n] = h THEN Root[l] ELSE Root[n]]
    <3>1. l < h /\ comp[h] = h /\ comp' = [comp EXCEPT ![h] = l]
      BY <1>2, <1>4, <2>1, <2>3
    <3>2. Root[h] = h /\ Root' = Hooked(Root, h, l)
      BY <3>1, HookJoins
    <3> QED
      BY <3>2 DEF Hooked
  <2>5. Merging
    BY <2>4 DEF Merging
  <2>6. \A n \in Nodes : comp[n] < n => comp'[n] < n
    BY <1>2, <2>1, <2>2
  <2>7. /\ my'[w].pc = "vertex" /\ my'[w].i = my[w].i /\ my'[w].end = my[w].end
        /\ my'[w].todo = my[w].todo
        /\ \A x \in Workers \ {w} : my'[x] = my[x]
    BY <2>1, <2>2 DEF LinkReturns, NewWorker
  <2>8. ASSUME NEW u \in Nodes, NEW v \in Nodes, Joins(my[w], u, v) PROVE Settling(u, v)'
    <3>1. \/ Root[h] = Root[u] /\ Root[l] = Root[v]
          \/ Root[h] = Root[v] /\ Root[l] = Root[u]
      BY <1>2, <2>3, <2>8 DEF Joins, Between, Same
    <3>2. Root'[u] = Root'[v]
      BY <2>4, <3>1
    <3> QED
      BY <3>2 DEF Settling, Same
  <2>9. \A u, v \in Nodes : <<u, v>> \in my[w].todo => Settling(u, v)'
    BY <2>7 DEF Settling
  <2>10. WorkerOK(my[w])'
    <3>1. \A e \in my'[w].todo : Adjacent(e[1], e[2])'
      BY <1>1, <2>2, <2>7 DEF WorkerOK, Adjacent
    <3> QED
      BY <1>1, <2>2, <2>7, <3>1 DEF WorkerOK, InLink
  <2>11. \A u \in Nodes : my[w].i <= u /\ u < my[w].end => (Pending(u) \/ Covered(u))'
    BY <2>7 DEF Pending
  <2>12. next_index' >= next_index
    BY <1>1, <2>2
  <2>13. \A u \in Nodes : u >= next_index => (Pending(u) \/ Covered(u))'
    BY <1>1 DEF Pending
  <2>14. pc # "compress"
    BY <2>2
  <2>15. \A u, v \in Nodes : Joins(my[w], u, v) \/ <<u, v>> \in my[w].todo => Settling(u, v)'
    BY <2>8, <2>9
  <2> QED
    BY <2>2, <2>5, <2>6, <2>7, <2>10, <2>11, <2>12, <2>13, <2>14, <2>15, OwnStep
<1> QED
  BY <1>3, <1>4

(* A label that is not a root is replaced, one that is covers its vertex.    *)
LEMMA TestProgresses ==
  ASSUME IInv, IInv', Progress, NEW w \in Workers, UNCHANGED <<graph, pc, round, c>>,
         CompressTest(w)
  PROVE  Progress'
<1>1. /\ pc = "compress" /\ pc' = pc /\ comp' = comp /\ next_index' = next_index
      /\ my \in [Workers -> WorkerType] /\ my[w] \in WorkerType /\ WorkerOK(my[w])
      /\ num_nodes \in Nat /\ comp \in [Nodes -> Nodes]
  BY GraphAssumption DEF CompressTest, IInv, Types, Progress
<1>2. PICK n \in Nodes :
        /\ Takes(w, n)
        /\ my' = IF comp[n] = comp[comp[n]]
                 THEN [my EXCEPT ![w].i = @ + 1]
                 ELSE [my EXCEPT ![w].label = comp[comp[n]], ![w].pc = "shorten"]
  BY DEF CompressTest
<1>3. my[w].pc = "vertex" /\ my[w].todo = {} /\ my[w].i < my[w].end /\ n = my[w].i
  BY <1>2 DEF Takes
<1>4. CASE comp[n] = comp[comp[n]]
  <2>1. my' = [my EXCEPT ![w].i = @ + 1]
    BY <1>2, <1>4
  <2>2. my' = [my EXCEPT ![w].i = @ + 1, ![w].todo = {}]
    <3>1. [my[w] EXCEPT !.i = @ + 1] = [my[w] EXCEPT !.i = @ + 1, !.todo = {}]
      BY <1>1, <1>3 DEF WorkerType
    <3> QED
      BY <1>1, <2>1, <3>1
  <2>3. {<<n, v>> : v \in {}} = {}
    OBVIOUS
  <2>4. my' = [my EXCEPT ![w].i = @ + 1, ![w].todo = {<<n, v>> : v \in {}}]
    BY <2>2, <2>3
  <2>5. Covered(n)'
    BY <1>1, <1>4 DEF Covered
  <2>6. PICK S : S = {}
    OBVIOUS
  <2>7. /\ Takes(w, n)
        /\ my' = [my EXCEPT ![w].i = @ + 1, ![w].todo = {<<n, v>> : v \in S}]
        /\ \A v \in S : Adjacent(n, v)
        /\ pc = "compress" => S = {}
    BY <1>2, <2>4, <2>6
  <2> QED
    BY <1>1, <2>5, <2>7, VertexProgresses
<1>5. CASE comp[n] # comp[comp[n]]
  <2>1. my' = [my EXCEPT ![w].label = comp[comp[n]], ![w].pc = "shorten"]
    BY <1>2, <1>5
  <2>2. /\ my'[w].pc = "shorten" /\ my'[w].i = n /\ my'[w].label = comp[comp[n]]
        /\ my'[w].i = my[w].i /\ my'[w].end = my[w].end /\ my'[w].todo = {}
        /\ \A x \in Workers \ {w} : my'[x] = my[x]
    BY <1>1, <1>3, <2>1 DEF WorkerType
  <2>3. /\ comp[n] \in Nodes /\ comp[n] <= n /\ comp[comp[n]] \in Nodes
        /\ comp[comp[n]] <= comp[n]
    BY <1>1 DEF IInv, LabelsDescend
  <2>4. comp[n] < n /\ comp[comp[n]] < n
    BY <1>1, <1>5, <2>3 DEF Nodes
  <2>5. Root[comp[n]] = Root[n] /\ Root[comp[comp[n]]] = Root[comp[n]]
    BY <2>3, RootsNow, RootsFacts
  <2>6. Root' = Root
    BY <1>1, SameRoots
  <2>7. Same(comp[comp[n]], n)'
    BY <1>1, <2>5, <2>6 DEF Same
  <2>8. WorkerOK(my[w])'
    BY <1>1, <1>3, <2>2, <2>4, <2>5, <2>6 DEF WorkerOK, InLink, Same
  <2>9. \A u, v \in Nodes : ~(Joins(my[w], u, v) \/ <<u, v>> \in my[w].todo)
    BY <1>3 DEF Joins, InLink
  <2> QED
    BY <1>1, <1>3, <2>2, <2>8, <2>9, StepInVertex
<1> QED
  BY <1>4, <1>5

(* Shortening: the new label is a lower one of the same tree, whether the    *)
(* value is the one that was read for the test or is read again.             *)
LEMMA StoreKeepsTrees ==
  ASSUME IInv, IInv', Progress, NEW w \in Workers, CompressStore(w)
  PROVE  /\ Root' = Root
         /\ \E n, label \in Nodes : /\ n = my[w].i /\ n < my[w].end
                                    /\ label < n /\ comp[n] < n
                                    /\ comp' = [comp EXCEPT ![n] = label]
<1>1. /\ my[w].pc = "shorten" /\ my[w] \in WorkerType /\ WorkerOK(my[w])
      /\ num_nodes \in Nat /\ comp \in [Nodes -> Nodes]
  BY GraphAssumption DEF CompressStore, IInv, Types, Progress
<1>2. PICK n \in Nodes : n = my[w].i
  BY <1>1 DEF WorkerOK, WorkerType, Nodes
<1>3. n < my[w].end /\ my[w].label < n /\ comp[n] < n /\ Root[my[w].label] = Root[n]
  BY <1>1, <1>2 DEF WorkerOK, Same
<1>4. PICK label \in {my[w].label, comp[comp[n]]} : comp' = [comp EXCEPT ![n] = label]
  BY <1>2 DEF CompressStore
<1>5. label \in Nodes /\ label < n /\ Root[label] = Root[n]
  <2>1. CASE label = my[w].label
    BY <1>1, <1>3, <2>1 DEF WorkerType
  <2>2. CASE label = comp[comp[n]]
    <3>1. comp[n] \in Nodes /\ comp[comp[n]] \in Nodes /\ comp[comp[n]] <= comp[n]
      BY <1>1 DEF IInv, LabelsDescend
    <3>2. Root[comp[n]] = Root[n] /\ Root[comp[comp[n]]] = Root[comp[n]]
      BY <3>1, RootsNow, RootsFacts
    <3>3. comp[comp[n]] < n
      BY <1>1, <1>3, <3>1 DEF Nodes
    <3> QED
      BY <2>2, <3>1, <3>2, <3>3
  <2> QED
    BY <2>1, <2>2
<1>6. Root' = Root
  <2>1. PICK f, R, g, T : f = comp /\ R = Root /\ g = comp' /\ T = Root'
    OBVIOUS
  <2>2. IsForest(f) /\ AreRoots(f, R) /\ AreRoots(g, T)
    BY <2>1, RootsNow, RootsNext
  <2>3. f[n] < n /\ R[label] = R[n] /\ g = Relabelled(f, n, label)
    BY <1>3, <1>4, <1>5, <2>1 DEF Relabelled
  <2>4. T = R
    BY <1>5, <2>2, <2>3, ShortenRoots
  <2> QED
    BY <2>1, <2>4
<1> QED
  BY <1>2, <1>3, <1>4, <1>5, <1>6

LEMMA StoreProgresses ==
  ASSUME IInv, IInv', Progress, NEW w \in Workers, UNCHANGED <<graph, pc, round, c>>,
         CompressStore(w)
  PROVE  Progress'
<1>1. /\ my[w].pc = "shorten" /\ pc' = pc /\ next_index' = next_index /\ out_neigh' = out_neigh
      /\ my \in [Workers -> WorkerType] /\ my[w] \in WorkerType /\ WorkerOK(my[w])
      /\ num_nodes \in Nat /\ comp \in [Nodes -> Nodes] /\ next_index \in Nat
      /\ my' = [my EXCEPT ![w].pc = "vertex", ![w].label = 0]
  BY GraphAssumption DEF CompressStore, IInv, Types, Progress, graph
<1>2. Root' = Root
  BY StoreKeepsTrees
<1>3. PICK n \in Nodes, label \in Nodes :
        /\ n = my[w].i /\ n < my[w].end /\ label < n /\ comp[n] < n
        /\ comp' = [comp EXCEPT ![n] = label]
  BY StoreKeepsTrees
<1>7. Merging
  BY <1>2 DEF Merging
<1>8. \A m \in Nodes : comp[m] < m => comp'[m] < m
  BY <1>1, <1>3
<1>9. \A m \in Nodes : ~(my[w].i <= m /\ m < my[w].end) /\ comp[comp[m]] = comp[m]
                         => comp'[comp'[m]] = comp'[m]
  <2> SUFFICES ASSUME NEW m \in Nodes, ~(my[w].i <= m /\ m < my[w].end), comp[comp[m]] = comp[m]
               PROVE  comp'[comp'[m]] = comp'[m]
    OBVIOUS
  <2>1. n <= n /\ n \in Int
    BY <1>1 DEF Nodes
  <2>2. m # n /\ comp[m] \in Nodes
    BY <1>1, <1>3, <2>1
  <2>3. comp[m] # n
    BY <1>3, <2>1
  <2> QED
    BY <1>1, <1>3, <2>2, <2>3
<1>10. /\ my'[w].pc = "vertex" /\ my'[w].i = my[w].i /\ my'[w].end = my[w].end
       /\ my'[w].todo = my[w].todo
       /\ \A x \in Workers \ {w} : my'[x] = my[x]
  BY <1>1 DEF WorkerType
<1>11. WorkerOK(my[w])'
  <2>1. \A e \in my'[w].todo : Adjacent(e[1], e[2])'
    BY <1>1, <1>10 DEF WorkerOK, Adjacent
  <2> QED
    BY <1>1, <1>10, <2>1 DEF WorkerOK, InLink
<1>12. \A u, v \in Nodes : Joins(my[w], u, v) \/ <<u, v>> \in my[w].todo => Settling(u, v)'
  BY <1>1, <1>10 DEF Joins, InLink, Settling
<1>13. \A u \in Nodes : my[w].i <= u /\ u < my[w].end => (Pending(u) \/ Covered(u))'
  BY <1>10 DEF Pending
<1>14. \A u \in Nodes : u >= next_index => (Pending(u) \/ Covered(u))'
  BY <1>1 DEF Pending
<1>15. next_index' >= next_index /\ my[w].pc # "done"
  BY <1>1
<1> QED
  BY <1>7, <1>8, <1>9, <1>10, <1>11, <1>12, <1>13, <1>14, <1>15, OwnStep

LEMMA WorkerProgresses ==
  ASSUME IInv, IInv', Progress, NEW w \in Workers, WorkerStep(w)
  PROVE  Progress'
<1>1. UNCHANGED <<graph, pc, round, c>>
  BY DEF WorkerStep
<1> QED
  BY <1>1, ClaimProgresses, SampleProgresses, FinishProgresses, ReadUProgresses, ReadVProgresses,
     ReadHighProgresses, HookProgresses, ClimbProgresses, ClimbAgainProgresses, ReadLowProgresses,
     TestProgresses, StoreProgresses
     DEF WorkerStep

(* A start offset of 0 leaves no neighbour out.                              *)
LEMMA OffsetZero ==
  ASSUME IInv, NEW u \in Nodes, NEW v \in out_neigh[u] PROVE v \in out_neigh_from(u, 0)
<1> DEFINE S == {x \in out_neigh[u] : x < v}
<1>1. num_nodes \in Nat /\ out_neigh[u] \subseteq Nodes
  BY GraphAssumption DEF IInv, Types
<1>2. IsFiniteSet(Nodes)
  BY <1>1, FS_Interval DEF Nodes
<1>3. IsFiniteSet(S)
  BY <1>1, <1>2, FS_Subset
<1>4. Cardinality(S) >= 0
  <2>1. Cardinality(S) \in Nat
    <3> HIDE DEF S
    <3> QED
      BY <1>3, FS_CardinalityType
  <2> HIDE DEF S
  <2> QED
    BY <2>1
<1> QED
  BY <1>4 DEF out_neigh_from

--------------------------------------------------------------------------------
(* Main's steps: new regions with everything pending, and the end.           *)
LEMMA NewWorkerOK ==
  ASSUME pc # "done", NEW w \in Workers, my[w] = NewWorker
  PROVE  WorkerOK(my[w])
  BY DEF WorkerOK, NewWorker, InLink

LEMMA InitProgress == Init => Progress
<1> SUFFICES ASSUME Init PROVE Progress
  OBVIOUS
<1>1. /\ pc = "link" /\ round = 0 /\ c = NoLabel /\ next_index = 0
      /\ \A w \in Workers : my[w] = NewWorker
      /\ num_nodes \in Nat \ {0} /\ neighbor_rounds \in Nat \ {0}
  BY GraphAssumption, CCAssumption DEF Init
<1>2. IInv
  BY InitEstablishes
<1>3. GraphOK
  BY GraphAssumption DEF GraphOK, Init, InitLabels
<1>4. RoundsOK
  BY <1>1 DEF RoundsOK
<1>5. \A w \in Workers : WorkerOK(my[w])
  BY <1>1, NewWorkerOK
<1>6. \A u \in Nodes : Pending(u)
  BY <1>1 DEF Pending, Nodes
<1>7. LinkedOK
  <2>1. Sampled(round)
    BY <1>1, <1>2, OffsetZero DEF Sampled
  <2> QED
    BY <1>1, <2>1 DEF LinkedOK
<1> QED
  BY <1>3, <1>4, <1>5, <1>6, <1>7 DEF Progress

(* When all workers are done, no vertex is pending and nothing is being      *)
(* linked any more.                                                          *)
LEMMA AfterJoin ==
  ASSUME IInv, Progress, \A w \in Workers : my[w].pc = "done", NEW u \in Nodes
  PROVE  Covered(u) /\ \A v : Settling(u, v) => Same(u, v)
<1>1. \A w \in Workers : /\ WorkerOK(my[w]) /\ my[w] \in WorkerType
  BY DEF IInv, Types, Progress
<1>2. \A w \in Workers : next_index >= num_nodes /\ my[w].i = my[w].end /\ my[w].todo = {}
  BY <1>1 DEF WorkerOK
<1>3. PICK w \in Workers : TRUE
  BY CCAssumption
<1>4. ~Pending(u)
  <2>1. ~(u >= next_index)
    BY <1>2, <1>3, GraphAssumption DEF Nodes, IInv, Types
  <2>2. \A x \in Workers : ~(my[x].i <= u /\ u < my[x].end)
    BY <1>1, <1>2, GraphAssumption DEF Nodes, WorkerType
  <2> QED
    BY <2>1, <2>2 DEF Pending
<1>5. \A v : Settling(u, v) => Same(u, v)
  BY <1>2 DEF Settling, Joins, InLink
<1> QED
  BY <1>4, <1>5 DEF Progress

LEMMA ForkProgresses ==
  ASSUME IInv, Progress, UNCHANGED graph, NEW region \in {"link", "compress", "final"},
         Fork(region), RoundsOK', LinkedOK'
  PROVE  Progress'
<1>1. /\ pc' = region /\ next_index' = 0 /\ \A w \in Workers : my'[w] = NewWorker
      /\ out_neigh' = out_neigh /\ directed' = directed
  BY DEF Fork, graph
<1>2. GraphOK'
  BY <1>1 DEF Progress, GraphOK
<1>3. \A w \in Workers : WorkerOK(my[w])'
  BY <1>1 DEF WorkerOK, NewWorker, InLink
<1>4. \A u \in Nodes : Pending(u)'
  BY <1>1, GraphAssumption DEF Pending, Nodes
<1> QED
  BY <1>2, <1>3, <1>4 DEF Progress

(* What the last region leaves undone by skipping label c is done from the   *)
(* other end of the edge.                                                    *)
LEMMA FinalLinksAll ==
  ASSUME IInv, Progress, Joined("final")
  PROVE  AllLinked
<1>1. /\ pc = "final" /\ round = neighbor_rounds
      /\ \A u \in Nodes : \A v \in out_neigh[u] \ out_neigh_from(u, neighbor_rounds) : Same(u, v)
  BY DEF Joined, Progress, RoundsOK, LinkedOK, Sampled
<1>2. \A u \in Nodes : Same(u, c) \/ \A v \in LastEnds(u) : Same(u, v)
  <2> SUFFICES ASSUME NEW u \in Nodes PROVE Same(u, c) \/ \A v \in LastEnds(u) : Same(u, v)
    OBVIOUS
  <2>1. Covered(u) /\ \A v : Settling(u, v) => Same(u, v)
    BY AfterJoin DEF Joined
  <2> QED
    BY <1>1, <2>1 DEF Covered
<1>3. out_neigh \in [Nodes -> SUBSET Nodes] /\ GraphOK
  BY DEF IInv, Types, Progress
<1>4. ASSUME NEW u \in Nodes, NEW v \in Nodes, v \in out_neigh[u] PROVE Same(u, v)
  <2>1. CASE v \notin out_neigh_from(u, neighbor_rounds)
    BY <1>1, <1>4, <2>1
  <2>2. CASE ~Same(u, c) /\ v \in out_neigh_from(u, neighbor_rounds)
    BY <1>2, <2>2 DEF LastEnds
  <2>3. CASE Same(u, c) /\ Same(v, c)
    BY <2>3 DEF Same
  <2>4. CASE ~Same(v, c) /\ directed
    <3>1. u \in LastEnds(v)
      BY <1>4, <2>4 DEF LastEnds, in_neigh
    <3>2. Same(v, u)
      BY <1>2, <2>4, <3>1
    <3> QED
      BY <3>2 DEF Same
  <2>5. CASE ~Same(v, c) /\ ~directed
    <3>1. u \in out_neigh[v]
      BY <1>3, <1>4, <2>5 DEF GraphOK
    <3>2. CASE u \in out_neigh_from(v, neighbor_rounds)
      <4>1. Same(v, u)
        BY <1>2, <2>5, <3>2 DEF LastEnds
      <4> QED
        BY <4>1 DEF Same
    <3>3. CASE u \notin out_neigh_from(v, neighbor_rounds)
      <4>1. Same(v, u)
        BY <1>1, <3>1, <3>3
      <4> QED
        BY <4>1 DEF Same
    <3> QED
      BY <3>2, <3>3
  <2> QED
    BY <2>1, <2>2, <2>3, <2>4, <2>5
<1>5. ASSUME NEW u \in Nodes, NEW v \in Nodes, Adjacent(u, v) PROVE Same(u, v)
  BY <1>4, <1>5 DEF Adjacent, Same
<1> QED
  BY <1>5 DEF AllLinked

(* What a sampling round leaves.                                             *)
LEMMA RoundLinks ==
  ASSUME IInv, Progress, Joined("link") PROVE Sampled(round + 1)
<1>1. pc = "link" /\ \A u \in Nodes : \A v \in out_neigh[u] \ out_neigh_from(u, round) : Same(u, v)
  BY DEF Joined, Progress, RoundsOK, LinkedOK, Sampled
<1>2. ASSUME NEW u \in Nodes, NEW v \in out_neigh_from(u, round) \ out_neigh_from(u, round + 1)
      PROVE  Same(u, v)
  <2>1. Covered(u) /\ \A x : Settling(u, x) => Same(u, x)
    BY AfterJoin DEF Joined
  <2> QED
    BY <1>1, <2>1 DEF Covered
<1>3. ASSUME NEW u \in Nodes, NEW v \in out_neigh[u] \ out_neigh_from(u, round + 1)
      PROVE  Same(u, v)
  BY <1>1, <1>2
<1> QED
  BY <1>3 DEF Sampled

(* What is linked stays so when a region begins.                             *)
LEMMA StillLinked ==
  ASSUME UNCHANGED graph, comp' = comp
  PROVE  /\ \A k : k = round' /\ Sampled(k) => Sampled(round)'
         /\ AllLinked => AllLinked'
<1>1. Root' = Root /\ out_neigh' = out_neigh
  BY SameRoots DEF graph
<1>2. ASSUME NEW k, k = round', Sampled(k) PROVE Sampled(round)'
  <2>1. \A u \in Nodes : \A v \in out_neigh'[u] \ out_neigh_from(u, k)' : Root'[u] = Root'[v]
    BY <1>1, <1>2 DEF Sampled, Same, out_neigh_from
  <2>2. \A u \in Nodes : \A v \in out_neigh'[u] \ out_neigh_from(u, round)' : Root'[u] = Root'[v]
    BY <1>2, <2>1 DEF out_neigh_from
  <2> QED
    BY <2>2 DEF Sampled, Same
<1>3. AllLinked => AllLinked'
  <2> SUFFICES ASSUME AllLinked, NEW u \in Nodes, NEW v \in Nodes, Adjacent(u, v)'
               PROVE  Same(u, v)'
    BY DEF AllLinked
  <2>1. Adjacent(u, v)
    BY <1>1 DEF Adjacent
  <2>2. Same(u, v)
    BY <2>1 DEF AllLinked
  <2> QED
    BY <1>1, <2>2 DEF Same
<1> QED
  BY <1>2, <1>3

LEMMA MainProgresses == ASSUME IInv, IInv', Progress, MainStep PROVE Progress'
<1>1. UNCHANGED graph
  BY DEF MainStep
<1>2. /\ RoundsOK /\ LinkedOK /\ neighbor_rounds \in Nat \ {0} /\ comp \in [Nodes -> Nodes]
      /\ num_nodes \in Nat /\ NoLabel \notin Nodes
  <2>1. num_nodes \in Nat
    BY GraphAssumption
  <2>2. NoLabel \notin Nodes
    BY <2>1 DEF NoLabel, Nodes
  <2> QED
    BY <2>1, <2>2, CCAssumption DEF Progress, IInv, Types
<1>3. CASE EndRound
  <2>1. /\ pc = "link" /\ Joined("link") /\ Fork("compress") /\ round' = round + 1
        /\ comp' = comp /\ c' = c
    BY <1>3 DEF EndRound, Joined
  <2>2. /\ c = NoLabel /\ round \in 0 .. neighbor_rounds /\ round < neighbor_rounds
        /\ round + 1 \in 0 .. neighbor_rounds
    BY <1>2, <2>1 DEF RoundsOK
  <2>3. RoundsOK'
    BY <1>2, <2>1, <2>2 DEF RoundsOK, Fork
  <2>4. PICK k : k = round + 1 /\ Sampled(k)
    BY <2>1, RoundLinks
  <2>5. Sampled(round)'
    BY <1>1, <2>1, <2>4, StillLinked
  <2>6. LinkedOK'
    BY <2>1, <2>2, <2>5 DEF LinkedOK
  <2> QED
    BY <1>1, <2>1, <2>3, <2>6, ForkProgresses
<1>4. CASE NextRound
  <2>1. /\ c = NoLabel /\ c' = c /\ Fork("link") /\ round' = round /\ comp' = comp
        /\ round < neighbor_rounds /\ round \in 0 .. neighbor_rounds
    BY <1>2, <1>4 DEF NextRound, RoundsOK
  <2>2. RoundsOK'
    BY <1>2, <2>1 DEF RoundsOK, Fork
  <2>3. PICK k : k = round' /\ Sampled(k)
    BY <1>2, <2>1 DEF LinkedOK
  <2>4. Sampled(round)'
    BY <1>1, <2>1, <2>3, StillLinked
  <2>5. LinkedOK'
    BY <2>1, <2>4 DEF LinkedOK
  <2> QED
    BY <1>1, <2>1, <2>2, <2>5, ForkProgresses
<1>5. CASE SampleFrequentElement
  <2>1. /\ c = NoLabel /\ c' \in Nodes /\ Fork("final") /\ round' = round /\ comp' = comp
        /\ round = neighbor_rounds /\ pc' = "final"
    BY <1>2, <1>5 DEF SampleFrequentElement, Fork
  <2>2. RoundsOK'
    BY <1>2, <2>1 DEF RoundsOK
  <2>3. PICK k : k = round' /\ Sampled(k)
    BY <1>2, <2>1 DEF LinkedOK
  <2>4. Sampled(round)'
    BY <1>1, <2>1, <2>3, StillLinked
  <2>5. LinkedOK'
    BY <2>1, <2>4 DEF LinkedOK
  <2> QED
    BY <1>1, <2>1, <2>2, <2>5, ForkProgresses
<1>6. CASE EndFinal
  <2>1. /\ pc = "final" /\ Joined("final") /\ Fork("compress") /\ pc' = "compress"
        /\ c' = c /\ round' = round /\ comp' = comp
    BY <1>6 DEF EndFinal, Joined, Fork
  <2>2. c # NoLabel
    BY <1>2, <2>1 DEF RoundsOK
  <2>3. RoundsOK'
    BY <1>2, <2>1, <2>2 DEF RoundsOK
  <2>4. AllLinked'
    BY <1>1, <2>1, FinalLinksAll, StillLinked
  <2>5. LinkedOK'
    BY <2>1, <2>2, <2>4 DEF LinkedOK
  <2> QED
    BY <1>1, <2>1, <2>3, <2>5, ForkProgresses
<1>7. CASE Return
  <2>1. /\ pc = "compress" /\ c # NoLabel /\ \A w \in Workers : my[w].pc = "done"
        /\ pc' = "done" /\ comp' = comp /\ round' = round /\ c' = c
        /\ next_index' = next_index /\ my' = my /\ out_neigh' = out_neigh /\ directed' = directed
    BY <1>1, <1>7 DEF Return, Joined, graph
  <2>2. GraphOK' /\ RoundsOK'
    BY <1>2, <2>1 DEF Progress, GraphOK, RoundsOK
  <2>3. \A w \in Workers : WorkerOK(my[w])'
    <3>1. ASSUME NEW w \in Workers PROVE WorkerOK(my[w])'
      <4>1. WorkerOK(my[w]) /\ my[w].pc = "done"
        BY <2>1 DEF Progress
      <4> QED
        BY <2>1, <4>1 DEF WorkerOK, InLink
    <3> QED
      BY <3>1
  <2>4. \A u \in Nodes : Covered(u)'
    <3>1. ASSUME NEW u \in Nodes PROVE Covered(u)'
      <4>1. Covered(u)
        BY <2>1, AfterJoin
      <4> QED
        BY <2>1, <4>1 DEF Covered
    <3> QED
      BY <3>1
  <2>5. AllLinked'
    BY <1>1, <1>2, <2>1, StillLinked DEF LinkedOK
  <2>6. LinkedOK'
    BY <2>1, <2>5 DEF LinkedOK
  <2> QED
    BY <2>2, <2>3, <2>4, <2>6 DEF Progress
<1> QED
  BY <1>3, <1>4, <1>5, <1>6, <1>7 DEF MainStep

(* In every region, an edge it has to link is linked, on some worker's list, *)
(* being linked, or its vertex is still to be looked at; and what earlier    *)
(* regions linked stays linked.                                              *)
THEOREM AfforestProgress == Spec => []Progress
<1>1. Progress /\ IInv /\ IInv' /\ [Next]_vars => Progress'
  <2> SUFFICES ASSUME Progress, IInv, IInv', [Next]_vars PROVE Progress'
    OBVIOUS
  <2>1. CASE MainStep
    BY <2>1, MainProgresses
  <2>2. ASSUME NEW w \in Workers, WorkerStep(w) PROVE Progress'
    BY <2>2, WorkerProgresses
  <2>3. CASE UNCHANGED vars
    <3>1. /\ out_neigh' = out_neigh /\ directed' = directed /\ comp' = comp /\ pc' = pc
          /\ round' = round /\ c' = c /\ next_index' = next_index /\ my' = my /\ Root' = Root
      BY <2>3, SameRoots DEF vars, graph
    <3>2. GraphOK' /\ RoundsOK'
      BY <3>1 DEF Progress, GraphOK, RoundsOK
    <3>3. ASSUME NEW w \in Workers PROVE WorkerOK(my[w])'
      <4>1. WorkerOK(my[w])
        BY DEF Progress
      <4> QED
        BY <3>1, <4>1 DEF WorkerOK, Joins, InLink, Left, Right, Between, Same, Adjacent
    <3>4. ASSUME NEW u \in Nodes PROVE Pending(u)' \/ Covered(u)'
      <4>1. Pending(u) => Pending(u)'
        BY <3>1 DEF Pending
      <4>2. \A v : Settling(u, v) => Settling(u, v)'
        <5>1. ASSUME NEW w \in Workers
              PROVE  /\ InLink(my[w])' = InLink(my[w]) /\ Left(my[w])' = Left(my[w])
                     /\ Right(my[w])' = Right(my[w])
          BY <3>1 DEF InLink, Left, Right
        <5> QED
          BY <3>1, <5>1 DEF Settling, Joins, Between, Same
      <4>3. Covered(u) => Covered(u)'
        BY <3>1, <4>2 DEF Covered, Same, LastEnds, out_neigh_from, in_neigh
      <4> QED
        BY <4>1, <4>3 DEF Progress
    <3>5. LinkedOK'
      BY <3>1 DEF Progress, LinkedOK, Sampled, AllLinked, Same, Adjacent, out_neigh_from
    <3> QED
      BY <3>2, <3>3, <3>4, <3>5 DEF Progress
  <2> QED
    BY <2>1, <2>2, <2>3 DEF Next
<1> QED
  BY <1>1, InitProgress, ForestInvariant, PTL DEF Spec

--------------------------------------------------------------------------------
(* cc.cc:104-112: when a sampling round is over, every vertex is in one tree *)
(* with the neighbours that the rounds have linked it to.                    *)
THEOREM RoundsLinkNeighbours == Spec => []RoundsLink
<1>1. IInv /\ Progress => RoundsLink
  <2> SUFFICES ASSUME IInv, Progress, Joined("link"), NEW u \in Nodes,
                      NEW v \in out_neigh[u] \ out_neigh_from(u, round + 1)
               PROVE  Root[u] = Root[v]
    BY DEF RoundsLink
  <2> QED
    BY RoundLinks DEF Sampled, Same
<1> QED
  BY <1>1, ForestInvariant, AfforestProgress, PTL

--------------------------------------------------------------------------------
(* The verifier's search.                                                    *)
Wider(K) == K \cup {v \in Nodes : \E u \in K : Adjacent(u, v)}
AreBalls(m, n, B) == B = [k \in 0 .. m |-> IF k = 0 THEN {n} ELSE Wider(B[k - 1])]

LEMMA BallsExist ==
  ASSUME NEW n, NEW l \in Nat
  PROVE  \E B : AreBalls(l, n, B)
<1> SUFFICES ASSUME ~\E B : AreBalls(l, n, B) PROVE FALSE
  OBVIOUS
<1> DEFINE F == {m \in Nat : ~\E B : AreBalls(m, n, B)}
<1>1. PICK m \in F : \A k \in F : m <= k
  <2>1. F \subseteq Nat /\ F # {}
    OBVIOUS
  <2> HIDE DEF F
  <2> QED
    BY <2>1, SmallestNumber
<1>2. CASE m = 0
  <2>1. AreBalls(0, n, [k \in 0 .. 0 |-> {n}])
    BY DEF AreBalls
  <2> QED
    BY <1>1, <1>2, <2>1
<1>3. CASE m # 0
  <2>1. m \in Nat /\ m - 1 \in Nat /\ m - 1 \notin F
    BY <1>1, <1>3
  <2>2. PICK B : AreBalls(m - 1, n, B)
    BY <2>1
  <2> DEFINE T == [k \in 0 .. m |-> IF k < m THEN B[k] ELSE Wider(B[m - 1])]
  <2>3. ASSUME NEW k \in 0 .. m
        PROVE  T[k] = IF k = 0 THEN {n} ELSE Wider(T[k - 1])
    <3>1. CASE k = m
      <4>1. T[k - 1] = B[m - 1]
        BY <2>1, <3>1
      <4> QED
        BY <1>3, <3>1, <4>1
    <3>2. CASE k # m
      <4>1. k \in 0 .. m - 1 /\ k < m
        BY <2>1, <3>2
      <4>2. B[k] = IF k = 0 THEN {n} ELSE Wider(B[k - 1])
        BY <2>2, <4>1 DEF AreBalls
      <4>3. k # 0 => T[k - 1] = B[k - 1]
        BY <2>1, <4>1
      <4> QED
        BY <4>1, <4>2, <4>3
    <3> QED
      BY <3>1, <3>2
  <2>4. T = [k \in 0 .. m |-> T[k]]
    OBVIOUS
  <2> HIDE DEF T
  <2>5. T = [k \in 0 .. m |-> IF k = 0 THEN {n} ELSE Wider(T[k - 1])]
    BY <2>3, <2>4
  <2>6. AreBalls(m, n, T)
    BY <2>5 DEF AreBalls
  <2> QED
    BY <1>1, <2>6
<1> QED
  BY <1>2, <1>3

LEMMA ComponentIsBall ==
  ASSUME NEW n
  PROVE  \E B : AreBalls(num_nodes, n, B) /\ Component(n) = B[num_nodes]
<1> DEFINE Eq(B) == B = [k \in 0 .. num_nodes |->
                          IF k = 0 THEN {n}
                          ELSE B[k - 1] \cup {v \in Nodes : \E u \in B[k - 1] : Adjacent(u, v)}]
<1>1. Component(n) = (CHOOSE B : Eq(B))[num_nodes]
  BY DEF Component
<1>2. \E B : AreBalls(num_nodes, n, B)
  BY BallsExist, GraphAssumption
<1>3. \E B : Eq(B)
  BY <1>2 DEF AreBalls, Wider
<1> DEFINE Found == CHOOSE B : Eq(B)
<1>4. Eq(Found)
  <2> HIDE DEF Eq
  <2> QED
    BY <1>3
<1>5. AreBalls(num_nodes, n, Found)
  <2> HIDE DEF Found
  <2> QED
    BY <1>4 DEF AreBalls, Wider
<1> QED
  BY <1>1, <1>5

(* The search from n ends with a set of vertices that no edge leaves: as     *)
(* long as one does, a step reaches one more vertex, and there are not more  *)
(* than num_nodes.                                                           *)
LEMMA ComponentIsClosed ==
  ASSUME NEW n \in Nodes
  PROVE  n \in Component(n) /\ Component(n) \subseteq Nodes /\ Closed(Component(n))
<1>1. num_nodes \in Nat \ {0}
  BY GraphAssumption
<1>2. IsFiniteSet(Nodes) /\ Cardinality(Nodes) = num_nodes
  <2>1. 0 \in Int /\ num_nodes - 1 \in Int /\ ~(0 > num_nodes - 1) /\ num_nodes - 1 - 0 + 1 = num_nodes
    BY <1>1
  <2> QED
    BY <2>1, FS_Interval DEF Nodes
<1>3. PICK B : AreBalls(num_nodes, n, B) /\ Component(n) = B[num_nodes]
  BY ComponentIsBall
<1>4. /\ B[0] = {n}
      /\ \A k \in 0 .. num_nodes : k # 0 => B[k] = Wider(B[k - 1])
  <2>1. B = [k \in 0 .. num_nodes |-> IF k = 0 THEN {n} ELSE Wider(B[k - 1])]
    BY <1>3 DEF AreBalls
  <2>2. 0 \in 0 .. num_nodes
    BY <1>1
  <2>3. B[0] = {n}
    BY <2>1, <2>2
  <2>4. \A k \in 0 .. num_nodes : k # 0 => B[k] = Wider(B[k - 1])
    BY <2>1
  <2> QED
    BY <2>3, <2>4
<1> DEFINE OK(k) == /\ n \in B[k] /\ B[k] \subseteq Nodes
                    /\ Closed(B[k]) \/ Cardinality(B[k]) >= k + 1
           F == {k \in 0 .. num_nodes : ~OK(k)}
<1>5. ASSUME F # {} PROVE FALSE
  <2>1. PICK m \in F : \A k \in F : m <= k
    <3>1. F \subseteq Nat
      BY <1>1
    <3> HIDE DEF F
    <3> QED
      BY <1>5, <3>1, SmallestNumber
  <2>2. m \in 0 .. num_nodes /\ ~OK(m)
    BY <2>1
  <2>3. CASE m = 0
    <3>1. Cardinality({n}) = 1
      BY FS_Singleton
    <3>2. OK(0)
      BY <1>4, <3>1
    <3> QED
      BY <2>2, <2>3, <3>2
  <2>4. CASE m # 0
    <3>1. m - 1 \in 0 .. num_nodes /\ m - 1 \notin F
      BY <1>1, <2>1, <2>2, <2>4
    <3>2. OK(m - 1) /\ B[m] = Wider(B[m - 1])
      BY <1>4, <2>2, <2>4, <3>1
    <3> DEFINE inner == B[m - 1]
               outer == B[m]
    <3>3. n \in outer /\ inner \subseteq outer /\ outer \subseteq Nodes
      BY <3>2 DEF Wider
    <3>4. CASE Closed(inner)
      <4>1. outer = inner
        BY <3>2, <3>4 DEF Wider, Closed
      <4> QED
        BY <2>2, <3>2, <3>4, <4>1
    <3>5. CASE ~Closed(inner)
      <4>1. Cardinality(inner) >= m
        BY <2>2, <3>2, <3>5
      <4>2. PICK x, y \in Nodes : Adjacent(x, y) /\ x \in inner /\ y \notin inner
        <5>1. PICK x, y \in Nodes : Adjacent(x, y) /\ ~(x \in inner <=> y \in inner)
          BY <3>5 DEF Closed
        <5> QED
          BY <5>1 DEF Adjacent
      <4>3. y \in outer
        BY <3>2, <4>2 DEF Wider
      <4>4. IsFiniteSet(inner) /\ IsFiniteSet(outer)
        BY <1>2, <3>2, <3>3, FS_Subset
      <4>5. /\ Cardinality(inner) \in Nat /\ Cardinality(outer) \in Nat
            /\ Cardinality(inner \cup {y}) = Cardinality(inner) + 1
            /\ Cardinality(inner \cup {y}) <= Cardinality(outer)
        <5> HIDE DEF inner, outer
        <5>1. inner \cup {y} \subseteq outer
          BY <3>3, <4>3
        <5>2. Cardinality(inner \cup {y}) = Cardinality(inner) + 1
          BY <4>2, <4>4, FS_AddElement
        <5> QED
          BY <4>4, <5>1, <5>2, FS_Subset, FS_CardinalityType
      <4>6. Cardinality(outer) >= m + 1
        BY <2>2, <4>1, <4>5
      <4> QED
        BY <2>2, <3>3, <4>6
    <3> QED
      BY <3>4, <3>5
  <2> QED
    BY <2>3, <2>4
<1>6. OK(num_nodes)
  BY <1>1, <1>5
<1>7. ~(Cardinality(B[num_nodes]) >= num_nodes + 1)
  <2>1. Cardinality(B[num_nodes]) <= Cardinality(Nodes) /\ Cardinality(B[num_nodes]) \in Nat
    BY <1>2, <1>6, FS_Subset, FS_CardinalityType
  <2> QED
    BY <1>1, <1>2, <2>1
<1> QED
  BY <1>3, <1>6, <1>7

(* Labels that stay in their component and agree on the ends of every edge   *)
(* are what CCVerifier looks for.                                            *)
LEMMA VerifierAccepts ==
  ASSUME comp \in [Nodes -> Nodes], LabelsStayInComponent,
         \A u, v \in Nodes : Adjacent(u, v) => comp[u] = comp[v]
  PROVE  IsComponentLabelling
<1>1. ASSUME NEW u \in Nodes, NEW v \in Nodes, comp[u] = comp[v] PROVE v \in Component(u)
  <2>1. u \in Component(u) /\ Component(u) \in SUBSET Nodes /\ Closed(Component(u))
    BY ComponentIsClosed
  <2>2. \A n \in Nodes : n \in Component(u) <=> comp[n] \in Component(u)
    BY <2>1 DEF LabelsStayInComponent
  <2> QED
    BY <1>1, <2>1, <2>2
<1>2. ASSUME NEW n \in Nodes
      PROVE  /\ label_to_source(comp[n]) \in Nodes /\ comp[label_to_source(comp[n])] = comp[n]
  <2> DEFINE label == comp[n]
             P(m) == comp[m] = label /\ \A k \in Nodes : comp[k] = label => k <= m
             Above == {k \in Nat : \E m \in Nodes : comp[m] = label /\ k = num_nodes - m}
  <2>1. \E m \in Nodes : P(m)
    <3>1. Above \subseteq Nat /\ num_nodes - n \in Above
      BY GraphAssumption DEF Nodes
    <3>2. PICK d \in Above : \A k \in Above : d <= k
      <4> HIDE DEF Above
      <4> QED
        BY <3>1, SmallestNumber
    <3>3. PICK m \in Nodes : comp[m] = label /\ d = num_nodes - m
      BY <3>2
    <3>4. ASSUME NEW k \in Nodes, comp[k] = label PROVE k <= m
      <4>1. num_nodes - k \in Above
        BY <3>4, GraphAssumption DEF Nodes
      <4>2. num_nodes - m <= num_nodes - k
        BY <3>2, <3>3, <4>1
      <4> QED
        BY <4>2, GraphAssumption DEF Nodes
    <3> QED
      BY <3>3, <3>4
  <2>2. label_to_source(label) = CHOOSE m \in Nodes : P(m)
    BY DEF label_to_source
  <2> HIDE DEF P
  <2>3. label_to_source(label) \in Nodes /\ P(label_to_source(label))
    BY <2>1, <2>2
  <2> QED
    BY <2>3 DEF P
<1>3. Nodes = UNION {Component(label_to_source(label)) : label \in {comp[n] : n \in Nodes}}
  <2>1. ASSUME NEW n \in Nodes
        PROVE  n \in Component(label_to_source(comp[n]))
    BY <1>1, <1>2
  <2>2. ASSUME NEW n \in Nodes PROVE Component(label_to_source(comp[n])) \subseteq Nodes
    BY <1>2, ComponentIsClosed
  <2> QED
    BY <2>1, <2>2
<1> QED
  BY <1>1, <1>3 DEF IsComponentLabelling, CCVerifier

(* cc.cc:173-217: the labels Afforest returns name the components: one label *)
(* on both ends of every edge, and vertices of one label are connected.      *)
THEOREM LabelsNameComponents == Spec => []ResultVerifies
<1>1. IInv /\ Progress /\ LabelsStayInComponent => ResultVerifies
  <2> SUFFICES ASSUME IInv, Progress, LabelsStayInComponent, pc = "done"
               PROVE  IsComponentLabelling
    BY DEF ResultVerifies
  <2>1. /\ \A w \in Workers : my[w].pc = "done"
        /\ c # NoLabel /\ AllLinked /\ comp \in [Nodes -> Nodes]
    BY DEF Progress, WorkerOK, RoundsOK, LinkedOK, IInv, Types
  <2>2. \A n \in Nodes : comp[n] = Root[n]
    <3> SUFFICES ASSUME NEW n \in Nodes PROVE comp[n] = Root[n]
      OBVIOUS
    <3>1. comp[comp[n]] = comp[n]
      BY <2>1, AfterJoin DEF Covered
    <3>2. comp[n] \in Nodes
      BY <2>1
    <3>3. Root[comp[n]] = Root[n] /\ Root[comp[n]] = comp[n]
      BY <3>1, <3>2, RootsNow, RootsFacts
    <3> QED
      BY <3>3
  <2>3. \A u, v \in Nodes : Adjacent(u, v) => comp[u] = comp[v]
    BY <2>1, <2>2 DEF AllLinked, Same
  <2> QED
    BY <2>1, <2>3, VerifierAccepts
<1> QED
  BY <1>1, ForestInvariant, AfforestProgress, LabelsNeverLeave, PTL

--------------------------------------------------------------------------------
(* A worker's step hooks the root of one end of an edge below the tree of    *)
(* the other, or leaves every vertex in its tree.                            *)
LEMMA StepsJoin ==
  ASSUME IInv, IInv', Progress, [Next]_vars
  PROVE  [C!Next]_C!vars
<1>1. /\ comp \in [Nodes -> Nodes] /\ my \in [Workers -> WorkerType]
      /\ \A w \in Workers : WorkerOK(my[w])
  BY DEF IInv, Types, Progress
<1>2. out_neigh' = out_neigh
  BY DEF Next, MainStep, WorkerStep, vars, graph
<1>3. Edges' = Edges
  BY <1>2 DEF Edges, Adjacent
<1>4. CASE Root' = Root
  BY <1>3, <1>4 DEF C!vars
<1>5. CASE \E w \in Workers : LinkHook(w) /\ comp[High(w)] = High(w)
  <2>1. PICK w \in Workers : LinkHook(w) /\ comp[High(w)] = High(w)
    BY <1>5
  <2>2. /\ my[w].pc = "cas" /\ comp' = [comp EXCEPT ![High(w)] = Low(w)]
    BY <2>1 DEF LinkHook
  <2>3. /\ High(w) \in Nodes /\ Low(w) \in Nodes /\ Low(w) < High(w) /\ InLink(my[w])
        /\ \/ High(w) = Left(my[w]) /\ Low(w) = Right(my[w])
           \/ High(w) = Right(my[w]) /\ Low(w) = Left(my[w])
    BY <2>2, LabelsCompared
  <2>4. PICK h \in Nodes, l \in Nodes : h = High(w) /\ l = Low(w)
    BY <2>3
  <2>5. l < h /\ comp[h] = h /\ comp' = [comp EXCEPT ![h] = l]
    BY <2>1, <2>2, <2>3, <2>4
  <2>6. Root[h] = h /\ Root[l] < h /\ Root' = Hooked(Root, h, l)
    BY <2>5, HookJoins
  <2>7. PICK x, y \in Nodes : Adjacent(x, y) /\ Joins(my[w], x, y)
    BY <1>1, <2>3 DEF WorkerOK
  <2>8. \/ Root[h] = Root[x] /\ Root[l] = Root[y]
        \/ Root[h] = Root[y] /\ Root[l] = Root[x]
    BY <2>3, <2>4, <2>7 DEF Joins, Between, Same
  <2>9. PICK u \in Nodes, v \in Nodes : /\ Adjacent(u, v)
                                        /\ Root[u] = Root[l] /\ Root[v] = h
    BY <2>6, <2>7, <2>8 DEF Adjacent
  <2>10. <<u, v>> \in Edges
    BY <2>9 DEF Edges
  <2>11. Root[u] < Root[v]
    BY <2>6, <2>9
  <2>12. Root' = [n \in Nodes |-> IF Root[n] = Root[v] THEN Root[u] ELSE Root[n]]
    BY <2>6, <2>9 DEF Hooked
  <2>13. C!Join(u, v)
    BY <1>3, <2>10, <2>11, <2>12 DEF C!Join
  <2> QED
    BY <2>13 DEF C!Next
<1>6. CASE MainStep \/ UNCHANGED vars
  <2>1. comp' = comp
    BY <1>6 DEF MainStep, EndRound, NextRound, SampleFrequentElement, EndFinal, Return, vars
  <2> QED
    BY <1>4, <2>1, SameRoots
<1>7. ASSUME NEW w \in Workers, WorkerStep(w)
      PROVE  Root' = Root \/ (LinkHook(w) /\ comp[High(w)] = High(w))
  <2>1. CASE comp' = comp
    BY <2>1, SameRoots
  <2>2. CASE CompressStore(w)
    BY <2>2, StoreKeepsTrees
  <2>3. CASE LinkHook(w)
    BY <2>1, <2>3 DEF LinkHook
  <2> QED
    BY <1>7, <2>1, <2>2, <2>3
       DEF WorkerStep, ClaimChunk, SampleVertex, FinishVertex, LinkReadU, LinkReadV, LinkReadHigh,
           LinkClimb, LinkClimbAgain, LinkReadLow, CompressTest
<1> QED
  BY <1>4, <1>5, <1>6, <1>7 DEF Next

(* No race takes a tree apart or joins two that no edge connects.            *)
THEOREM AfforestJoinsComponents == Spec => ImplementsComponents
<1>1. Init => C!Init
  <2> SUFFICES ASSUME Init PROVE C!Init
    OBVIOUS
  <2>1. IInv /\ comp = [n \in Nodes |-> n]
    BY InitEstablishes DEF Init, InitLabels
  <2>2. AreRoots(comp, Root)
    BY <2>1, RootsNow
  <2>3. Root = [n \in Nodes |-> n]
    BY <2>1, <2>2, GraphAssumption DEF AreRoots, Nodes
  <2> QED
    BY <2>3 DEF C!Init, Edges
<1>2. IInv /\ IInv' /\ Progress /\ [Next]_vars => [C!Next]_C!vars
  BY StepsJoin
<1> QED
  BY <1>1, <1>2, ForestInvariant, AfforestProgress, PTL DEF Spec, ImplementsComponents, C!Spec

================================================================================
