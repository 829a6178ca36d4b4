------------------------------- MODULE CCSVProofs -------------------------------
(***************************************************************************)
(* Proofs about Shiloach and Vishkin's program (module CCSV) for every       *)
(* graph, any number of threads and any static schedule.                    *)
(*                                                                          *)
(* Its hooks overwrite each other and can part a tree again, so nothing can  *)
(* be said of an edge across iterations.  But as long as nobody has hooked   *)
(* in an iteration no label has changed since all labels were made roots:    *)
(* whoever finds two labels then finds two roots and is sure to hook.  So an *)
(* iteration without a hook has seen equal labels on both ends of every      *)
(* edge.                                                                    *)
(***************************************************************************)
EXTENDS CCSV, TLAPS

(* No cut of the graph g separates u from v.                                 *)
ClosedIn(g, K) ==
  \A u, v \in Nodes : v \in g[u] \/ u \in g[v] => (u \in K <=> v \in K)
Connected(g, u, v) == \A K \in SUBSET Nodes : ClosedIn(g, K) => (u \in K <=> v \in K)

WorkerType ==
  [pc : {"vertex", "readv", "test", "hook", "shorten"}, edges : SUBSET (Nodes \X Nodes),
   n : Nodes, v : Nodes, comp_u : Nodes, comp_v : Nodes]

Types ==
  /\ out_neigh \in [Nodes -> SUBSET Nodes]
  /\ comp \in [Nodes -> Nodes]
  /\ pc \in {"hook", "compress", "done"}
  /\ todo \subseteq Nodes
  /\ my \in [Workers -> WorkerType]

(* What a worker knows of the labels it holds.                               *)
Knows(g, m) ==
  /\ \A e \in m.edges : e[2] \in g[e[1]]
  /\ m.pc = "readv" => Connected(g, m.comp_u, m.v)
  /\ m.pc \in {"test", "hook"} => m.comp_u # m.comp_v /\ Connected(g, m.comp_u, m.comp_v)
  /\ m.pc = "shorten" => m.v <= m.n /\ Connected(g, m.n, m.v)

LabelsOK ==
  /\ LabelsDescend
  /\ \A n \in Nodes : Connected(out_neigh, n, comp[n])
  /\ \A w \in Workers : Knows(out_neigh, my[w])

(* The label of n is a root.                                                 *)
Flat(n) == comp[comp[n]] = comp[n]

(* Where a worker can be in each region.  Only a vertex of its own that is   *)
(* no root is shortened; before the first hook of a region all the labels    *)
(* that have been read are roots.                                            *)
WorkerOK(w, m) ==
  /\ pc = "hook" => m.pc # "shorten"
  /\ pc # "hook" => m.edges = {} /\ m.pc \in {"vertex", "shorten"}
  /\ pc = "done" => m.pc = "vertex"
  /\ m.pc = "shorten" => m.n \in todo /\ owner[m.n] = w /\ comp[m.n] # m.n
  /\ ~change => /\ m.pc # "shorten"
                /\ m.pc \in {"readv", "test"} => comp[m.comp_u] = m.comp_u
                /\ m.pc = "test" => comp[m.comp_v] = m.comp_v

(* A worker that is to look at the edge, is looking at it or is sure to hook.*)
Looks(m, u, v) ==
  \/ <<u, v>> \in m.edges
  \/ m.pc = "readv" /\ m.v = v /\ m.comp_u = comp[u]
  \/ m.pc \in {"test", "hook"}

Seen(u, v) == comp[u] = comp[v] \/ u \in todo \/ \E w \in Workers : Looks(my[w], u, v)

EdgesOK ==
  /\ pc = "compress" => \A n \in Nodes \ todo : Flat(n)
  /\ ~change => \A n \in Nodes : Flat(n)
  /\ pc = "done" => ~change
  /\ ~change /\ pc = "hook" => \A u \in Nodes : \A v \in out_neigh[u] : Seen(u, v)
  /\ ~change /\ pc # "hook" => \A u \in Nodes : \A v \in out_neigh[u] : comp[u] = comp[v]

IInv ==
  /\ Types
  /\ LabelsOK
  /\ \A w \in Workers : WorkerOK(w, my[w])
  /\ EdgesOK

--------------------------------------------------------------------------------
(* Connection is an equivalence that contains the edges.                     *)

LEMMA Reflexive == ASSUME NEW g, NEW u PROVE Connected(g, u, u)
  BY DEF Connected

LEMMA Symmetric ==
  ASSUME NEW g, NEW u, NEW v, Connected(g, u, v) PROVE Connected(g, v, u)
  BY DEF Connected

LEMMA Transitive ==
  ASSUME NEW g, NEW u, NEW v, NEW w, Connected(g, u, v), Connected(g, v, w)
  PROVE Connected(g, u, w)
  BY DEF Connected

LEMMA EdgeConnects ==
  ASSUME NEW g, NEW u \in Nodes, NEW v \in Nodes, v \in g[u] \/ u \in g[v]
  PROVE Connected(g, u, v)
  BY DEF Connected, ClosedIn

--------------------------------------------------------------------------------
LEMMA NewWorkerOK ==
  ASSUME NEW g
  PROVE  /\ NewWorker \in WorkerType /\ Knows(g, NewWorker)
         /\ NewWorker.pc = "vertex" /\ NewWorker.edges = {}
<1>1. 0 \in Nodes
  BY GraphAssumption DEF Nodes
<1> QED
  BY <1>1 DEF NewWorker, WorkerType, Knows

LEMMA InitIInv == Init => IInv
<1> SUFFICES ASSUME Init PROVE IInv
  OBVIOUS
<1>1. /\ out_neigh \in [Nodes -> SUBSET Nodes] /\ comp = [n \in Nodes |-> n]
      /\ ~change /\ pc = "hook" /\ todo = Nodes
      /\ my = [w \in Workers |-> NewWorker]
  BY GraphAssumption DEF Init, InitLabels
<1>2. Types
  BY <1>1, NewWorkerOK DEF Types
<1>3. LabelsOK
  <2>1. \A n \in Nodes : comp[n] <= n /\ Connected(out_neigh, n, comp[n])
    BY <1>1, Reflexive, GraphAssumption DEF Nodes
  <2> QED
    BY <1>1, <2>1, NewWorkerOK DEF LabelsOK, LabelsDescend
<1>4. \A w \in Workers : WorkerOK(w, my[w])
  BY <1>1, NewWorkerOK DEF WorkerOK
<1>5. EdgesOK
  BY <1>1 DEF EdgesOK, Flat, Seen
<1> QED
  BY <1>2, <1>3, <1>4, <1>5 DEF IInv

(* At the end of the hooking region the edges have been seen, at the end of  *)
(* the compressing one all labels are roots.                                 *)
LEMMA MainKeeps == IInv /\ MainStep => IInv'
<1> SUFFICES ASSUME IInv, MainStep PROVE IInv'
  OBVIOUS
<1>1. out_neigh' = out_neigh /\ comp' = comp /\ my' = my /\ owner' = owner
  BY DEF MainStep, graph, EndHooking, NextIteration, Return
<1>2. /\ todo = {} /\ \A w \in Workers : my[w].pc = "vertex" /\ my[w].edges = {}
      /\ \/ pc = "hook" /\ pc' = "compress" /\ todo' = Nodes /\ change' = change
         \/ pc = "compress" /\ pc' = "hook" /\ todo' = Nodes /\ change' = FALSE
         \/ /\ pc = "compress" /\ ~change
            /\ pc' = "done" /\ todo' = todo /\ change' = change
  BY DEF MainStep, EndHooking, NextIteration, Return, Joined, Idle
<1>3. Types' /\ LabelsOK'
  BY <1>1, <1>2 DEF IInv, Types, LabelsOK, LabelsDescend
<1>4. \A w \in Workers : WorkerOK(w, my[w])'
  BY <1>1, <1>2 DEF WorkerOK
<1>5. \A u, v : Seen(u, v) => comp[u] = comp[v]
  BY <1>2 DEF Seen, Looks
<1>6. \A n \in Nodes : pc = "compress" \/ ~change => Flat(n)
  BY <1>2 DEF IInv, EdgesOK
<1>7. EdgesOK'
  <2>1. \A n : Flat(n)' <=> Flat(n)
    BY <1>1 DEF Flat
  <2>2. \A u, v : todo' = Nodes /\ u \in Nodes => Seen(u, v)'
    BY DEF Seen
  <2>3. ~change /\ pc = "hook" => \A u \in Nodes : \A v \in out_neigh[u] : comp[u] = comp[v]
    BY <1>5 DEF IInv, EdgesOK
  <2>4. ~change /\ pc # "hook" => \A u \in Nodes : \A v \in out_neigh[u] : comp[u] = comp[v]
    BY DEF IInv, EdgesOK
  <2> QED
    BY <1>1, <1>2, <1>6, <2>1, <2>2, <2>3, <2>4 DEF EdgesOK
<1> QED
  BY <1>3, <1>4, <1>7 DEF IInv

(* A step of worker w changes its own locals and at most one label, which it *)
(* lowers within its component.                                              *)
LEMMA StepKeeps ==
  ASSUME Types, LabelsOK, NEW w \in Workers,
         out_neigh' = out_neigh, pc' = pc, todo' \subseteq todo,
         NEW m \in WorkerType, my' = [my EXCEPT ![w] = m], Knows(out_neigh, m),
         \/ comp' = comp
         \/ \E x, y \in Nodes : /\ y <= x /\ Connected(out_neigh, x, y)
                                /\ comp' = [comp EXCEPT ![x] = y]
  PROVE  Types' /\ LabelsOK'
<1>1. /\ my' \in [Workers -> WorkerType]
      /\ \A x \in Workers : Knows(out_neigh, my'[x])
  BY DEF Types, LabelsOK
<1>2. comp' \in [Nodes -> Nodes]
  BY DEF Types
<1>3. \A n \in Nodes : comp'[n] <= n /\ Connected(out_neigh, n, comp'[n])
  BY DEF Types, LabelsOK, LabelsDescend
<1> QED
  BY <1>1, <1>2, <1>3 DEF Types, LabelsOK, LabelsDescend

(* A step without a store.  The edge that w was looking at has one label on  *)
(* both ends if w looks at it no more.                                       *)
LEMMA ReadKeeps ==
  ASSUME IInv, NEW w \in Workers,
         UNCHANGED <<out_neigh, comp, pc, change, owner>>, todo' \subseteq todo,
         NEW m \in WorkerType, my' = [my EXCEPT ![w] = m],
         Knows(out_neigh, m), WorkerOK(w, m)',
         \A x \in Workers \ {w} : my[x].pc = "shorten" => my[x].n \in todo',
         \A n \in todo \ todo' : pc = "compress" => Flat(n),
         ~change /\ pc = "hook" =>
           \A u \in Nodes : \A v \in out_neigh[u] :
             u \in todo \ todo' \/ Looks(my[w], u, v) =>
               Looks(m, u, v) \/ comp[u] = comp[v]
  PROVE  IInv'
<1>1. my \in [Workers -> WorkerType]
  BY DEF IInv, Types
<1>2. Types' /\ LabelsOK'
  BY StepKeeps DEF IInv
<1>3. /\ my'[w] = m
      /\ \A x \in Workers \ {w} : my'[x] = my[x]
  BY <1>1
<1>4. \A x \in Workers : WorkerOK(x, my[x])'
  BY <1>3 DEF IInv, WorkerOK
<1>5. \A n : Flat(n)' <=> Flat(n)
  BY DEF Flat
<1>6. ASSUME ~change, pc = "hook", NEW u \in Nodes, NEW v \in out_neigh[u]
      PROVE  Seen(u, v)'
  <2>1. Seen(u, v)
    BY <1>6 DEF IInv, EdgesOK
  <2>2. CASE comp[u] = comp[v] \/ u \in todo'
    BY <2>2 DEF Seen
  <2>3. CASE u \in todo \ todo' \/ Looks(my[w], u, v)
    <3>1. Looks(m, u, v) \/ comp[u] = comp[v]
      BY <1>6, <2>3
    <3> QED
      BY <1>3, <3>1 DEF Seen, Looks
  <2>4. CASE \E x \in Workers \ {w} : Looks(my[x], u, v)
    BY <1>3, <2>4 DEF Seen, Looks
  <2> QED
    BY <2>1, <2>2, <2>3, <2>4 DEF Seen
<1>7. EdgesOK'
  BY <1>5, <1>6 DEF IInv, EdgesOK
<1> QED
  BY <1>2, <1>4, <1>7 DEF IInv

--------------------------------------------------------------------------------
LEMMA HighAndLowLabel ==
  ASSUME NEW w \in Workers, my[w].comp_u \in Nodes, my[w].comp_v \in Nodes,
         my[w].comp_u # my[w].comp_v
  PROVE  /\ HighComp(w) \in Nodes /\ LowComp(w) \in Nodes
         /\ LowComp(w) < HighComp(w)
         /\ \/ HighComp(w) = my[w].comp_u /\ LowComp(w) = my[w].comp_v
            \/ HighComp(w) = my[w].comp_v /\ LowComp(w) = my[w].comp_u
<1>1. num_nodes \in Nat \ {0}
  BY GraphAssumption
<1> QED
  BY <1>1 DEF HighComp, LowComp, Nodes

LEMMA WorkerKeeps ==
  ASSUME IInv, NEW w \in Workers, WorkerStep(w) PROVE IInv'
<1>1. /\ out_neigh \in [Nodes -> SUBSET Nodes] /\ comp \in [Nodes -> Nodes]
      /\ todo \subseteq Nodes /\ my \in [Workers -> WorkerType]
      /\ my[w] \in WorkerType
  BY DEF IInv, Types
<1>2. Knows(out_neigh, my[w]) /\ WorkerOK(w, my[w])
  BY DEF IInv, LabelsOK
<1>3. UNCHANGED <<out_neigh, owner, pc>>
  BY DEF WorkerStep, graph
<1>4. /\ my[w].edges \subseteq Nodes \X Nodes /\ my[w].n \in Nodes /\ my[w].v \in Nodes
      /\ my[w].comp_u \in Nodes /\ my[w].comp_v \in Nodes
  BY <1>1 DEF WorkerType
<1>5. \A n \in Nodes : comp[n] \in Nodes /\ comp[n] <= n /\ Connected(out_neigh, n, comp[n])
  BY <1>1 DEF IInv, LabelsOK, LabelsDescend
<1>6. \A x \in Workers : my[x].pc = "shorten" => my[x].n \in todo /\ owner[my[x].n] = x
  BY DEF IInv, WorkerOK
<1>0. PICK over : over = EdgeDone(w)
  OBVIOUS
<1>7. over \in WorkerType /\ Knows(out_neigh, over)
      /\ over.pc = "vertex" /\ over.edges = my[w].edges
  BY <1>0, <1>2, <1>4, NewWorkerOK DEF EdgeDone, NewWorker, WorkerType, Knows
<1>8. CASE TakeVertex(w)
  <2>1. PICK u \in Nodes : /\ u \in todo /\ todo' = todo \ {u}
                           /\ my' = [my EXCEPT ![w].edges = {<<u, v>> : v \in out_neigh[u]}]
    BY <1>8 DEF TakeVertex, Takes
  <2>2. /\ pc = "hook" /\ my[w].pc = "vertex" /\ my[w].edges = {}
        /\ comp' = comp /\ change' = change
    BY <1>8 DEF TakeVertex, Idle
  <2>0. PICK m : m = [my[w] EXCEPT !.edges = {<<u, v>> : v \in out_neigh[u]}]
    OBVIOUS
  <2>3. m \in WorkerType /\ my' = [my EXCEPT ![w] = m] /\ m.pc = "vertex"
        /\ m.edges = {<<u, v>> : v \in out_neigh[u]}
    BY <1>1, <1>4, <2>0, <2>1, <2>2 DEF WorkerType
  <2>4. Knows(out_neigh, m) /\ WorkerOK(w, m)'
    BY <1>3, <2>2, <2>3 DEF Knows, WorkerOK
  <2>5. \A a \in Nodes : \A b \in out_neigh[a] :
          a \in todo \ todo' \/ Looks(my[w], a, b) => Looks(m, a, b)
    BY <2>1, <2>2, <2>3 DEF Looks
  <2>6. \A x \in Workers : my[x].pc # "shorten"
    BY <2>2 DEF IInv, WorkerOK
  <2> QED
    BY <1>3, <2>1, <2>2, <2>3, <2>4, <2>5, <2>6, ReadKeeps
<1>9. CASE ReadCompU(w)
  <2>1. PICK e \in my[w].edges :
             my' = [my EXCEPT ![w].edges = @ \ {e}, ![w].v = e[2],
                                    ![w].comp_u = comp[e[1]], ![w].pc = "readv"]
    BY <1>9 DEF ReadCompU
  <2>2. my[w].pc = "vertex" /\ comp' = comp /\ change' = change /\ todo' = todo
    BY <1>9 DEF ReadCompU
  <2>3. e = <<e[1], e[2]>> /\ e[1] \in Nodes /\ e[2] \in out_neigh[e[1]] /\ e[2] \in Nodes
        /\ pc = "hook"
    BY <1>1, <1>2, <1>4 DEF Knows, WorkerOK, IInv, Types
  <2>0. PICK m : m = [my[w] EXCEPT !.edges = @ \ {e}, !.v = e[2],
                                      !.comp_u = comp[e[1]], !.pc = "readv"]
    OBVIOUS
  <2>4. m \in WorkerType /\ my' = [my EXCEPT ![w] = m]
        /\ m.edges = my[w].edges \ {e} /\ m.v = e[2] /\ m.comp_u = comp[e[1]] /\ m.pc = "readv"
    BY <1>1, <1>4, <1>5, <2>0, <2>1, <2>3 DEF WorkerType
  <2>5. Connected(out_neigh, comp[e[1]], e[2])
    BY <1>5, <2>3, Symmetric, Transitive, EdgeConnects
  <2>6. Knows(out_neigh, m)
    BY <1>2, <2>4, <2>5 DEF Knows
  <2>7. ~change => comp[comp[e[1]]] = comp[e[1]]
    BY <2>3 DEF IInv, EdgesOK, Flat
  <2>8. WorkerOK(w, m)'
    BY <1>3, <2>2, <2>3, <2>4, <2>7 DEF WorkerOK
  <2>9. \A a \in Nodes : \A b \in out_neigh[a] : Looks(my[w], a, b) => Looks(m, a, b)
    <3> SUFFICES ASSUME NEW a \in Nodes, NEW b \in out_neigh[a], <<a, b>> \in my[w].edges
                 PROVE  Looks(m, a, b)
      BY <2>2 DEF Looks
    <3>1. CASE <<a, b>> = e
      BY <2>3, <2>4, <3>1 DEF Looks
    <3>2. CASE <<a, b>> # e
      BY <2>4, <3>2 DEF Looks
    <3> QED
      BY <3>1, <3>2
  <2> QED
    BY <1>3, <1>6, <2>2, <2>4, <2>6, <2>8, <2>9, ReadKeeps
<1>10. CASE ReadCompV(w)
  <2>1. my[w].pc = "readv" /\ comp' = comp /\ change' = change /\ todo' = todo
        /\ pc = "hook"
    BY <1>2, <1>10 DEF ReadCompV, WorkerOK
  <2>2. CASE comp[my[w].v] = my[w].comp_u
    <3>1. my' = [my EXCEPT ![w] = over]
      BY <1>0, <1>10, <2>2 DEF ReadCompV
    <3>2. WorkerOK(w, over)'
      BY <1>3, <1>7, <2>1 DEF WorkerOK
    <3>3. \A a \in Nodes : \A b \in out_neigh[a] :
            Looks(my[w], a, b) => Looks(over, a, b) \/ comp[a] = comp[b]
      BY <1>7, <2>1, <2>2 DEF Looks
    <3> QED
      BY <1>3, <1>6, <1>7, <2>1, <3>1, <3>2, <3>3, ReadKeeps
  <2>3. CASE comp[my[w].v] # my[w].comp_u
    <3>9. PICK comp_v : comp_v = comp[my[w].v]
      OBVIOUS
    <3>0. PICK m : m = [my[w] EXCEPT !.comp_v = comp_v, !.v = 0, !.pc = "test"]
      OBVIOUS
    <3>1. my' = [my EXCEPT ![w] = m]
      BY <1>1, <1>10, <2>3, <3>0, <3>9 DEF ReadCompV
    <3>2. m \in WorkerType /\ m.edges = my[w].edges /\ m.pc = "test"
          /\ m.comp_u = my[w].comp_u /\ m.comp_v = comp_v
      <4>1. 0 \in Nodes
        BY GraphAssumption DEF Nodes
      <4> QED
        BY <1>1, <1>4, <1>5, <3>0, <3>9, <4>1 DEF WorkerType
    <3>3. Connected(out_neigh, my[w].comp_u, comp_v)
      BY <1>2, <1>4, <1>5, <2>1, <3>9, Transitive DEF Knows
    <3>4. Knows(out_neigh, m)
      BY <1>2, <2>3, <3>2, <3>3, <3>9 DEF Knows
    <3>5. ~change => comp[comp_v] = comp_v
      BY <1>4, <3>9 DEF IInv, EdgesOK, Flat
    <3>6. WorkerOK(w, m)'
      BY <1>2, <1>3, <2>1, <3>2, <3>5 DEF WorkerOK
    <3>7. \A a, b : Looks(m, a, b)
      BY <3>2 DEF Looks
    <3> QED
      BY <1>3, <1>6, <2>1, <3>1, <3>2, <3>4, <3>6, <3>7, ReadKeeps
  <2> QED
    BY <2>2, <2>3
<1>11. CASE TestRoot(w)
  <2>1. my[w].pc = "test" /\ comp' = comp /\ change' = change /\ todo' = todo
        /\ pc = "hook"
    BY <1>2, <1>11 DEF TestRoot, WorkerOK
  <2>2. CASE comp[HighComp(w)] = HighComp(w)
    <3>0. PICK m : m = [my[w] EXCEPT !.pc = "hook"]
      OBVIOUS
    <3>1. my' = [my EXCEPT ![w] = m]
      BY <1>1, <1>11, <2>2, <3>0 DEF TestRoot
    <3>2. m \in WorkerType /\ m.edges = my[w].edges /\ m.pc = "hook"
          /\ m.comp_u = my[w].comp_u /\ m.comp_v = my[w].comp_v
      BY <1>1, <1>4, <3>0 DEF WorkerType
    <3>3. Knows(out_neigh, m) /\ WorkerOK(w, m)'
      BY <1>2, <1>3, <2>1, <3>2 DEF Knows, WorkerOK
    <3>4. \A a, b : Looks(m, a, b)
      BY <3>2 DEF Looks
    <3> QED
      BY <1>3, <1>6, <2>1, <3>1, <3>2, <3>3, <3>4, ReadKeeps
  <2>3. CASE comp[HighComp(w)] # HighComp(w)
    <3>1. my' = [my EXCEPT ![w] = over]
      BY <1>0, <1>11, <2>3 DEF TestRoot
    <3>2. change
      BY <1>2, <1>4, <2>1, <2>3, HighAndLowLabel DEF WorkerOK, Knows
    <3>3. WorkerOK(w, over)'
      BY <1>3, <1>7, <2>1, <3>2 DEF WorkerOK
    <3> QED
      BY <1>3, <1>6, <1>7, <2>1, <3>1, <3>2, <3>3, ReadKeeps
  <2> QED
    BY <2>2, <2>3
<1>12. CASE Hook(w)
  <2>1. /\ my[w].pc = "hook" /\ pc = "hook" /\ change' = TRUE /\ todo' = todo
        /\ comp' = [comp EXCEPT ![HighComp(w)] = LowComp(w)]
        /\ my' = [my EXCEPT ![w] = over]
    BY <1>0, <1>2, <1>12 DEF Hook, WorkerOK
  <2>2. /\ HighComp(w) \in Nodes /\ LowComp(w) \in Nodes
        /\ LowComp(w) <= HighComp(w)
        /\ Connected(out_neigh, HighComp(w), LowComp(w))
    <3>1. my[w].comp_u # my[w].comp_v
          /\ Connected(out_neigh, my[w].comp_u, my[w].comp_v)
      BY <1>2, <2>1 DEF Knows
    <3>2. Connected(out_neigh, my[w].comp_v, my[w].comp_u)
      BY <3>1, Symmetric
    <3> QED
      BY <1>4, <3>1, <3>2, HighAndLowLabel, GraphAssumption DEF Nodes
  <2>3. Types' /\ LabelsOK'
    BY <1>3, <1>7, <2>1, <2>2, StepKeeps DEF IInv
  <2>4. \A x \in Workers : WorkerOK(x, my[x])'
    BY <1>1, <1>3, <1>7, <2>1 DEF IInv, WorkerOK
  <2>5. EdgesOK'
    BY <1>3, <2>1 DEF EdgesOK
  <2> QED
    BY <2>3, <2>4, <2>5 DEF IInv
<1>13. CASE CompressTest(w)
  <2>1. /\ pc = "compress" /\ my[w].pc = "vertex" /\ my[w].edges = {}
        /\ comp' = comp /\ change' = change
    BY <1>13 DEF CompressTest, Idle
  <2>2. PICK n \in Nodes : /\ n \in todo /\ owner[n] = w
                           /\ IF comp[n] = comp[comp[n]]
                              THEN todo' = todo \ {n} /\ my' = my
                              ELSE /\ todo' = todo
                                   /\ my' = [my EXCEPT ![w].n = n, ![w].v = comp[comp[n]],
                                                             ![w].pc = "shorten"]
    BY <1>13 DEF CompressTest, Takes
  <2>3. CASE comp[n] = comp[comp[n]]
    <3>0. PICK m : m = my[w]
      OBVIOUS
    <3>1. todo' = todo \ {n} /\ my' = [my EXCEPT ![w] = m] /\ Flat(n)
      BY <1>1, <2>2, <2>3, <3>0 DEF Flat
    <3>2. WorkerOK(w, m)'
      BY <1>2, <1>3, <2>1, <3>0, <3>1 DEF WorkerOK
    <3>3. \A x \in Workers \ {w} : my[x].pc = "shorten" => my[x].n \in todo'
      BY <1>6, <2>2, <3>1
    <3> QED
      BY <1>1, <1>2, <1>3, <2>1, <3>0, <3>1, <3>2, <3>3, ReadKeeps
  <2>4. CASE comp[n] # comp[comp[n]]
    <3>0. PICK m : m = [my[w] EXCEPT !.n = n, !.v = comp[comp[n]], !.pc = "shorten"]
      OBVIOUS
    <3>1. my' = [my EXCEPT ![w] = m] /\ todo' = todo
      BY <1>1, <2>2, <2>4, <3>0
    <3>2. m \in WorkerType /\ m.edges = {} /\ m.pc = "shorten" /\ m.n = n /\ m.v = comp[comp[n]]
      BY <1>1, <1>4, <1>5, <2>1, <3>0 DEF WorkerType
    <3>3. comp[comp[n]] <= n /\ Connected(out_neigh, n, comp[comp[n]])
      <4>1. comp[n] \in Nodes /\ comp[comp[n]] \in Nodes /\ comp[n] <= n /\ comp[comp[n]] <= comp[n]
        BY <1>5
      <4>2. comp[comp[n]] <= n
        BY <4>1, GraphAssumption DEF Nodes
      <4> QED
        BY <1>5, <4>1, <4>2, Transitive
    <3>4. Knows(out_neigh, m)
      BY <3>2, <3>3 DEF Knows
    <3>5. change
      BY <2>4 DEF IInv, EdgesOK, Flat
    <3>6. WorkerOK(w, m)'
      BY <1>3, <2>1, <2>2, <2>4, <3>1, <3>2, <3>5 DEF WorkerOK
    <3> QED
      BY <1>3, <1>6, <2>1, <3>1, <3>2, <3>4, <3>5, <3>6, ReadKeeps
  <2> QED
    BY <2>3, <2>4
<1>14. CASE CompressStore(w)
  <2> DEFINE n == my[w].n
  <2>1. PICK label \in {my[w].v, comp[comp[n]]} : comp' = [comp EXCEPT ![n] = label]
    BY <1>14 DEF CompressStore
  <2>2. /\ my[w].pc = "shorten" /\ change' = change /\ todo' = todo
        /\ my' = [my EXCEPT ![w] = NewWorker]
        /\ pc = "compress" /\ change
        /\ n \in Nodes /\ n \in todo /\ owner[n] = w /\ comp[n] # n
    BY <1>1, <1>2, <1>4, <1>14 DEF CompressStore, WorkerOK, IInv, Types
  <2>3. label \in Nodes /\ label <= n /\ Connected(out_neigh, n, label)
    <3>1. comp[n] \in Nodes /\ comp[comp[n]] \in Nodes /\ comp[n] <= n /\ comp[comp[n]] <= comp[n]
      BY <1>5, <2>2
    <3>2. comp[comp[n]] <= n
      BY <2>2, <3>1, GraphAssumption DEF Nodes
    <3>3. Connected(out_neigh, n, comp[comp[n]])
      BY <1>5, <2>2, <3>1, Transitive
    <3> QED
      BY <1>2, <1>4, <2>1, <2>2, <3>1, <3>2, <3>3 DEF Knows
  <2>4. Types' /\ LabelsOK'
    BY <1>3, <2>1, <2>2, <2>3, StepKeeps, NewWorkerOK DEF IInv
  <2>5. \A x \in Workers : WorkerOK(x, my[x])'
    <3>1. ASSUME NEW x \in Workers \ {w} PROVE WorkerOK(x, my[x])'
      <4>1. my'[x] = my[x] /\ WorkerOK(x, my[x])
        BY <1>1, <2>2 DEF IInv
      <4>2. my[x].pc = "shorten" => my[x].n # n
        BY <1>6, <2>2
      <4>3. my[x].n \in Nodes
        BY <1>1 DEF WorkerType
      <4>4. my[x].pc = "shorten" => comp'[my[x].n] = comp[my[x].n]
        BY <1>1, <2>1, <4>2, <4>3
      <4> QED
        BY <1>3, <2>2, <4>1, <4>4 DEF WorkerOK
    <3>2. WorkerOK(w, my[w])'
      BY <1>1, <1>3, <2>2, NewWorkerOK DEF WorkerOK
    <3> QED
      BY <3>1, <3>2
  <2>6. EdgesOK'
    <3>1. ASSUME NEW k \in Nodes \ todo PROVE Flat(k)'
      <4>1. comp[comp[k]] = comp[k] /\ k # n /\ comp[k] # n /\ comp[k] \in Nodes
        BY <1>5, <2>2 DEF IInv, EdgesOK, Flat
      <4> QED
        BY <1>1, <2>1, <2>2, <4>1 DEF Flat
    <3> QED
      BY <1>3, <2>2, <3>1 DEF EdgesOK
  <2> QED
    BY <2>4, <2>5, <2>6 DEF IInv
<1> QED
  BY <1>8, <1>9, <1>10, <1>11, <1>12, <1>13, <1>14 DEF WorkerStep

(* What every hook, however stale, and every shortening keeps, and who is    *)
(* still to look at which edge as long as nobody has hooked.                 *)
THEOREM HookingInvariant == Spec => []IInv
<1>1. IInv /\ [Next]_vars => IInv'
  <2> SUFFICES ASSUME IInv, [Next]_vars PROVE IInv'
    OBVIOUS
  <2>1. CASE Next
    BY <2>1, MainKeeps, WorkerKeeps DEF Next
  <2>2. CASE UNCHANGED vars
    BY <2>2 DEF vars, graph, IInv, Types, LabelsOK, LabelsDescend,
                WorkerOK, EdgesOK, Flat, Seen, Looks
  <2> QED
    BY <2>1, <2>2
<1> QED
  BY <1>1, InitIInv, PTL DEF Spec

LEMMA LabelsStay == IInv => LabelsDescend /\ LabelsStayInComponent
<1> SUFFICES ASSUME IInv PROVE LabelsDescend /\ LabelsStayInComponent
  OBVIOUS
<1>1. ASSUME NEW K \in SUBSET Nodes, Closed(K), NEW n \in Nodes
      PROVE  n \in K <=> comp[n] \in K
  <2>1. ClosedIn(out_neigh, K)
    BY <1>1 DEF Closed, Adjacent, ClosedIn
  <2> QED
    BY <2>1 DEF IInv, LabelsOK, Connected
<1> QED
  BY <1>1 DEF IInv, LabelsOK, LabelsStayInComponent

(* cc_sv.cc:66-70: a hook is a plain store that may overwrite another one,   *)
(* and still labels only descend and never leave the component.              *)
THEOREM HookedLabelsStay == Spec => [](LabelsDescend /\ LabelsStayInComponent)
  BY LabelsStay, HookingInvariant, PTL

(* cc_sv.cc:57,68-71: when the team leaves a hooking region and nobody has   *)
(* hooked, every edge lies within one label: a lost hook is never the last.  *)
THEOREM NoHookMeansDone == Spec => []StoppingIsSound
<1>1. IInv => StoppingIsSound
  <2> SUFFICES ASSUME IInv, Joined("hook"), ~change,
                      NEW u \in Nodes, NEW v \in Nodes, Adjacent(u, v)
               PROVE  comp[u] = comp[v]
    BY DEF StoppingIsSound
  <2>1. /\ pc = "hook" /\ todo = {}
        /\ \A w \in Workers : my[w].pc = "vertex" /\ my[w].edges = {}
    BY DEF Joined, Idle
  <2>2. \A a, b : ~Seen(a, b) \/ comp[a] = comp[b]
    BY <2>1 DEF Seen, Looks
  <2> QED
    BY <2>1, <2>2 DEF IInv, EdgesOK, Adjacent
<1> QED
  BY <1>1, HookingInvariant, PTL

--------------------------------------------------------------------------------
(* What CCProofs proves of the verifier, to which Afforest's rounds, chunks  *)
(* and sampled label do not matter.                                         *)
Labels == INSTANCE CCProofs WITH
  neighbor_rounds <- 1, kChunk <- 1, round <- 0, c <- 0, next_index <- 0

LEMMA LabelsAssumptions == Labels!GraphAssumption /\ Labels!CCAssumption /\ Labels!Nodes = Nodes
<1>1. Labels!Nodes = Nodes
  BY DEF Labels!Nodes, Nodes
<1>2. Labels!GraphAssumption
  BY <1>1, GraphAssumption
<1>3. Labels!CCAssumption
  <2>1. 1 \in Nat \ {0}
    OBVIOUS
  <2> QED
    BY <2>1, WorkersAssumption DEF IsFiniteSet, Labels!IsFiniteSet
<1> QED
  BY <1>1, <1>2, <1>3

(* Afforest and this program share the text of their verifier.               *)
LEMMA SameVerifier ==
  /\ LabelsStayInComponent => Labels!LabelsStayInComponent
  /\ Labels!IsComponentLabelling => IsComponentLabelling
<1>1. LabelsStayInComponent => Labels!LabelsStayInComponent
  BY DEF LabelsStayInComponent, Closed, Adjacent, Nodes,
         Labels!LabelsStayInComponent, Labels!Closed, Labels!Adjacent, Labels!Nodes
<1>2. Labels!IsComponentLabelling => IsComponentLabelling
  BY DEF IsComponentLabelling, CCVerifier, Component, label_to_source, Adjacent, Nodes,
         Labels!IsComponentLabelling, Labels!CCVerifier, Labels!Component,
         Labels!label_to_source, Labels!Adjacent, Labels!Nodes
<1> QED
  BY <1>1, <1>2

(* cc_sv.cc:104-148: the labels that are returned name the components.       *)
THEOREM HookedLabelsNameComponents == Spec => []ResultVerifies
<1>1. IInv => ResultVerifies
  <2> SUFFICES ASSUME IInv, pc = "done" PROVE IsComponentLabelling
    BY DEF ResultVerifies
  <2>1. comp \in [Nodes -> Nodes] /\ out_neigh \in [Nodes -> SUBSET Nodes]
    BY DEF IInv, Types
  <2>2. \A u, v \in Nodes : Labels!Adjacent(u, v) => comp[u] = comp[v]
    BY DEF IInv, EdgesOK, Labels!Adjacent
  <2>3. Labels!LabelsStayInComponent
    BY LabelsStay, SameVerifier
  <2>4. Labels!IsComponentLabelling
    BY <2>1, <2>2, <2>3, LabelsAssumptions, Labels!VerifierAccepts
  <2> QED
    BY <2>4, SameVerifier
<1> QED
  BY <1>1, HookingInvariant, PTL

=================================================================================
