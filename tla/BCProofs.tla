-------------------------------- MODULE BCProofs --------------------------------
(***************************************************************************)
(* Betweenness centrality counts every shortest path once and adds up every  *)
(* dependency once, on every graph, with any number of threads, any chunk    *)
(* size and any buffer.                                                      *)
(*                                                                           *)
(* SearchInv is the invariant of the search: the window is the level being   *)
(* expanded, every edge out of it is waiting, in the hands of one thread or  *)
(* marked, and a count is the sum over the marked edges that are not being   *)
(* counted.  ScoresInv relates the way back to it: a delta is complete as    *)
(* soon as its vertex is neither waiting nor in somebody's hands.            *)
(***************************************************************************)
EXTENDS BC, FiniteSetTheorems, WellFoundedInduction, TLAPS

--------------------------------------------------------------------------------
(* The invariant of the search.                                              *)

(* The labels a thread goes through in the search and on the way back.       *)
SearchPCs == {"while", "window", "cas", "push", "copy", "check", "count", "flush", "lastcopy",
              "barrier", "done"}
BackPCs == {"vertex", "edges", "score", "done"}

WorkerType ==
  [pc : SearchPCs \cup BackPCs, depth : Nat, i : Nat, end : Nat, u : Nodes,
   todo : SUBSET Nodes, v : Nodes, delta : Nat, score : Nat]

(* The types of everything but the queue.                                    *)
Types ==
  /\ out_neigh \in [Nodes -> SUBSET Nodes] /\ sources \in [1 .. num_iters -> Nodes]
  /\ pc \in {"next", "bfs", "back", "done"}
  /\ iter \in 0 .. num_iters /\ (pc \in {"bfs", "back"} => iter > 0)
  /\ depths \in [Nodes -> Int] /\ path_counts \in [Nodes -> Nat]
  /\ succ \subseteq Nodes \X Nodes
  /\ depth_index \in Seq(Nat) /\ d \in Int
  /\ deltas \in [Nodes -> Nat] /\ scores \in [Nodes -> Nat] /\ biggest_score \in Nat
  /\ next_index \in Nat
  /\ my \in [Workers -> WorkerType]

(* What the serial search from this iteration's source finds, and the level  *)
(* the threads are at.                                                       *)
root == sources[iter]
Dist == Depths(root)
Edges == Successors(root)
Counts == PathCounts(root)
Level(k) == {v \in Nodes : Dist[v] = k}
level == Len(depth_index) - 1

(* The queue.                                                                *)
QueueTypes ==
  /\ shared_in \in Nat /\ shared_out_start \in Nat /\ shared_out_end \in Nat
  /\ shared_out_start <= shared_out_end /\ shared_out_end <= shared_in
  /\ shared \in [queue!Slots -> Nodes \cup {Garbage}]
  /\ local_queue \in [Workers -> Seq(Nodes)]
  /\ copy_start \in [Workers -> Nat \cup {queue!NotFlushing}]

(* Every item is in one slot or one buffer, once.                            *)
OnePlaceEach ==
  /\ \A i, j \in queue!Written : shared[i] = shared[j] => i = j
  /\ \A i \in queue!Written : shared[i] \in Nodes
  /\ \A i \in queue!Written, t \in Workers : \A k \in 1 .. Len(local_queue[t]) : local_queue[t][k] # shared[i]
  /\ \A t, u \in Workers : \A k \in 1 .. Len(local_queue[t]), l \in 1 .. Len(local_queue[u]) :
        local_queue[t][k] = local_queue[u][l] => t = u /\ k = l

(* What the queue keeps.                                                     *)
QOK == QueueTypes /\ OnePlaceEach /\ queue!FlushesAreDisjoint

(* A thread's buffer is in use only while it expands a level.                *)
BuffersMatch ==
  \A w \in Workers :
    /\ copy_start[w] # queue!NotFlushing <=> pc = "bfs" /\ my[w].pc \in {"copy", "lastcopy"}
    /\ pc # "bfs" \/ my[w].pc \in {"while", "barrier", "done"} => local_queue[w] = <<>>

(* The threads that have claimed a vertex and not pushed it yet; and those   *)
(* vertices.                                                                 *)
Pushing(w) == my[w].pc \in {"push", "copy"}
Unpushed == {my[w].v : w \in {x \in Workers : Pushing(x)}}

(* What is about to be pushed is not in the queue, nor about to be pushed by *)
(* another thread.                                                           *)
PushesOK ==
  /\ \A w \in Workers : Pushing(w) => my[w].v \notin queue!Pending
  /\ \A w, x \in Workers : Pushing(w) /\ Pushing(x) /\ my[w].v = my[x].v => w = x

(* The dynamic schedule over n iterations: those that nobody has begun.  No  *)
(* two threads have one in common.                                           *)
Ahead(n) == {j \in 0 .. n - 1 : j >= next_index \/ \E w \in Workers : my[w].i <= j /\ j < my[w].end}

Claims(n) ==
  /\ \A w \in Workers : my[w].i <= my[w].end /\ my[w].end <= n /\ my[w].end <= next_index
  /\ \A w, x \in Workers : w # x /\ my[w].i < my[w].end /\ my[x].i < my[x].end
        => my[w].end <= my[x].i \/ my[x].end <= my[w].i

(* Iteration j of a loop over n slots of the queue is for the vertex in slot *)
(* b + j.  A vertex of level k is waiting, in the hands of one thread or     *)
(* behind it.                                                                *)
Waiting(b, n) == {shared[b + j] : j \in Ahead(n)}

Busy(w) ==
  my[w].pc \in {"cas", "push", "copy", "check", "count", "edges", "score"} \/ my[w].todo # {}

Hands(b, n, k) ==
  /\ \A w \in Workers : Busy(w) => my[w].u \in Level(k) /\ my[w].u \notin Waiting(b, n)
  /\ \A w, x \in Workers : Busy(w) /\ Busy(x) /\ my[w].u = my[x].u => w = x

(* The out-neighbours of its vertex that a thread has not looked at or not   *)
(* finished with; and the edges that may still be marked.                    *)
Looking == {"cas", "push", "copy", "check"}
Held(w) == my[w].todo \cup {v \in Nodes : my[w].pc \in Looking /\ my[w].v = v}

Unmarked(u, v) ==
  \/ u \in Waiting(shared_out_start, queue!size)
  \/ \E w \in Workers : my[w].u = u /\ v \in Held(w)

(* The predecessors that path_counts[v] includes.                            *)
Counting(u, v) == \E w \in Workers : my[w].pc = "count" /\ my[w].u = u /\ my[w].v = v
Counted(v) == {u \in Nodes : <<u, v>> \in succ /\ ~Counting(u, v)}

(* depth_index says where the levels begin in the queue; the first one is    *)
(* that of nothing, before the source.                                       *)
Begin(j) == IF j + 2 <= Len(depth_index) THEN depth_index[j + 2] ELSE shared_out_start

LevelsOK(n) ==
  /\ depth_index[1] = 0 /\ Begin(0) = 0
  /\ \A j \in 0 .. n - 1 :
       /\ Begin(j) <= Begin(j + 1) /\ Begin(j + 1) <= shared_out_end
       /\ {shared[i] : i \in Begin(j) .. Begin(j + 1) - 1} = Level(j)

(* A thread of the search.                                                   *)
SearchWorker(w) ==
  LET m == my[w] IN
  /\ m.pc \in SearchPCs
  /\ m.depth = IF m.pc \in {"while", "done"} THEN level ELSE level + 1
  /\ m.pc # "while" => (m.pc = "done" <=> queue!empty)
  /\ m.pc \in {"while", "flush", "lastcopy", "barrier", "done"} => m.i = 0 /\ m.end = 0 /\ m.todo = {}
  /\ m.pc \in {"flush", "lastcopy", "barrier"} => next_index >= queue!size
  /\ m.pc \in Looking \cup {"count"} => m.v \in out_neigh[m.u] /\ m.v \notin m.todo
  /\ m.todo \subseteq out_neigh[m.u]
  /\ m.pc \in {"push", "copy"} => depths[m.v] = level + 1
  /\ m.pc = "check" => depths[m.v] # -1
  /\ m.pc = "count" => <<m.u, m.v>> \in succ

DepthsOK ==
  \A v \in Nodes : /\ Dist[v] \in 0 .. level => depths[v] = Dist[v]
                   /\ depths[v] \in {-1, Dist[v]}
                   /\ depths[v] <= level + 1

SuccOK ==
  \A u, v \in Nodes :
    /\ <<u, v>> \in succ <=>
         <<u, v>> \in Edges /\ (Dist[u] < level \/ (Dist[u] = level /\ ~Unmarked(u, v)))
    /\ <<u, v>> \in succ => depths[v] # -1

CountsOK ==
  \A v \in Nodes :
    path_counts[v] = IF Dist[v] <= level THEN Counts[v] ELSE SumFunctionOnSet(Counts, Counted(v))

(* The region of the search.                                                 *)
QueueOK ==
  /\ queue!Pending \cup Unpushed = {v \in Nodes : depths[v] = level + 1}
  /\ PushesOK
  /\ queue!Window = Level(level)
  /\ \A i \in 0 .. shared_out_end - 1 : Dist[shared[i]] \in 0 .. level
  /\ LevelsOK(level)

InSearch ==
  /\ Len(depth_index) >= 1
  /\ \A w \in Workers : SearchWorker(w)
  /\ DepthsOK
  /\ SuccOK
  /\ CountsOK
  /\ Claims(queue!size)
  /\ Hands(shared_out_start, queue!size, level)
  /\ QueueOK

(* On the way back, what the search found does not change any more.          *)
Levels == Len(depth_index) - 2

InBack ==
  /\ path_counts = Counts
  /\ succ = Edges
  /\ LevelsOK(Levels)
  /\ d \in 0 .. Levels
  /\ Claims(last - first) /\ Hands(first, last - first, d - 1)
  /\ \A v \in Nodes : Dist[v] < Levels
  /\ \A w \in Workers : \A v \in my[w].todo : path_counts[v] # 0

SearchInv ==
  /\ Types
  /\ QOK
  /\ BuffersMatch
  /\ pc = "bfs" => InSearch
  /\ pc # "bfs" => shared_in = shared_out_end
  /\ pc = "back" => InBack

--------------------------------------------------------------------------------
(* Sums: what the reductions compute.                                        *)

(* The fold behind Reduce, unfolded: a sum takes some element and goes on    *)
(* with the others.                                                          *)
Pick(s) == CHOOSE x \in s : TRUE
SumBody(f, g, s) == IF s = {} THEN 0 ELSE f[Pick(s)] + g[s \ {Pick(s)}]
IsSum(f, S, g) == g = [s \in SUBSET S |-> SumBody(f, g, s)]

(* A family of subsets of a finite set has a smallest one; the inductions    *)
(* below are on the smallest counterexample.                                 *)
LEMMA SmallestSubset ==
  ASSUME NEW S, IsFiniteSet(S), NEW F, F \subseteq SUBSET S, F # {}
  PROVE  \E T \in F : \A U \in F : U \subseteq T => U = T
<1>1. F \subseteq FiniteSubsetsOf(S)
  BY FS_FiniteSubsetsOfFinite
<1>2. PICK T \in F : \A U \in F : <<U, T>> \notin StrictSubsetOrdering(S)
  BY <1>1, FS_StrictSubsetOrderingWellFounded, WFMin
<1>3. \A U \in F : U \subseteq T => U = T
  BY <1>2 DEF StrictSubsetOrdering
<1> QED
  BY <1>3

(* The element the fold takes is one of the set's.                           *)
LEMMA PickFromSet == ASSUME NEW s, s # {} PROVE Pick(s) \in s
  BY DEF Pick

(* One function at most satisfies the fold's equation.                       *)
LEMMA SumIsUnique ==
  ASSUME NEW f, NEW S, IsFiniteSet(S), NEW g, NEW h, IsSum(f, S, g), IsSum(f, S, h)
  PROVE  g = h
<1> DEFINE F == {s \in SUBSET S : g[s] # h[s]}
<1>1. CASE F = {}
  BY <1>1 DEF IsSum
<1>2. CASE F # {}
  <2>1. PICK T \in F : \A U \in F : U \subseteq T => U = T
    <3> HIDE DEF F
    <3>1. F \subseteq SUBSET S
      BY DEF F
    <3> QED
      BY <1>2, <3>1, SmallestSubset
  <2>2. g[T] = SumBody(f, g, T) /\ h[T] = SumBody(f, h, T) /\ T # {}
    BY DEF IsSum, SumBody
  <2>3. Pick(T) \in T
    BY <2>2, PickFromSet
  <2>4. g[T \ {Pick(T)}] = h[T \ {Pick(T)}]
    BY <2>1, <2>3
  <2> QED
    BY <2>2, <2>4 DEF SumBody
<1> QED
  BY <1>1, <1>2

(* The fold over a set is also the fold over its subsets.                    *)
LEMMA SumRestricts ==
  ASSUME NEW f, NEW S, NEW g, IsSum(f, S, g), NEW T \in SUBSET S
  PROVE  IsSum(f, T, [s \in SUBSET T |-> g[s]])
<1> DEFINE h == [s \in SUBSET T |-> g[s]]
<1>1. ASSUME NEW s \in SUBSET T PROVE h[s] = SumBody(f, h, s)
  <2>1. g[s] = SumBody(f, g, s)
    BY DEF IsSum
  <2>2. CASE s = {}
    BY <2>1, <2>2 DEF SumBody
  <2>3. CASE s # {}
    <3>1. h[s \ {Pick(s)}] = g[s \ {Pick(s)}]
      OBVIOUS
    <3> QED
      BY <2>1, <2>3, <3>1 DEF SumBody
  <2> QED
    BY <2>2, <2>3
<1> QED
  BY <1>1 DEF IsSum

(* Some function satisfies the fold's equation.                              *)
LEMMA SumExists ==
  ASSUME NEW f, NEW S, IsFiniteSet(S)
  PROVE  \E g : IsSum(f, S, g)
<1> SUFFICES ASSUME ~\E g : IsSum(f, S, g) PROVE FALSE
  OBVIOUS
<1> DEFINE F == {T \in SUBSET S : ~\E g : IsSum(f, T, g)}
<1>1. PICK T \in F : \A U \in F : U \subseteq T => U = T
  <2> HIDE DEF F
  <2>1. F \subseteq SUBSET S /\ S \in F
    BY DEF F
  <2> QED
    BY <2>1, SmallestSubset
<1> DEFINE G(U) == CHOOSE g : IsSum(f, U, g)
           Value(s) == IF s = {} THEN 0 ELSE f[Pick(s)] + G(s \ {Pick(s)})[s \ {Pick(s)}]
           h == [s \in SUBSET T |-> Value(s)]
<1>2. ASSUME NEW U \in SUBSET T, U # T PROVE IsSum(f, U, G(U)) /\ IsFiniteSet(U)
  BY <1>1, <1>2, FS_Subset
<1>3. ASSUME NEW U \in SUBSET T, U # T PROVE G(U)[U] = Value(U)
  <2>1. G(U)[U] = SumBody(f, G(U), U)
    <3> HIDE DEF G
    <3> QED BY <1>2, <1>3 DEF IsSum
  <2>2. CASE U = {}
    <3> HIDE DEF G
    <3> QED BY <2>1, <2>2 DEF SumBody
  <2>3. CASE U # {}
    <3> DEFINE V == U \ {Pick(U)}
    <3>1. V \subseteq U /\ V # U
      BY <2>3, PickFromSet
    <3>2. G(V) = [s \in SUBSET V |-> G(U)[s]]
      <4> HIDE DEF G, V
      <4>1. IsSum(f, V, [s \in SUBSET V |-> G(U)[s]])
        BY <1>2, <1>3, <3>1, SumRestricts
      <4>2. IsSum(f, V, G(V)) /\ IsFiniteSet(V)
        BY <1>2, <1>3, <3>1
      <4> QED
        BY <4>1, <4>2, SumIsUnique
    <3>3. G(V)[V] = G(U)[V]
      <4> HIDE DEF G, V
      <4> QED BY <3>2
    <3> HIDE DEF G
    <3> QED
      BY <2>1, <2>3, <3>3 DEF SumBody
  <2> QED
    BY <2>2, <2>3
<1>4. ASSUME NEW s \in SUBSET T PROVE h[s] = SumBody(f, h, s)
  <2>1. CASE s = {}
    BY <2>1 DEF SumBody
  <2>2. CASE s # {}
    <3> DEFINE V == s \ {Pick(s)}
    <3>1. V \in SUBSET T /\ V # T
      BY <2>2, PickFromSet
    <3>2. h[V] = G(V)[V]
      <4>1. G(V)[V] = Value(V)
        BY <1>3, <3>1
      <4> HIDE DEF V, Value
      <4> QED BY <4>1, <3>1
    <3> QED
      <4>1. h[s] = f[Pick(s)] + G(V)[V]
        <5> HIDE DEF G
        <5> QED BY <2>2
      <4> HIDE DEF h
      <4> QED BY <2>2, <3>2, <4>1 DEF SumBody
  <2> QED
    BY <2>1, <2>2
<1>5. IsSum(f, T, h)
  <2> HIDE DEF Value
  <2>1. h = [s \in SUBSET T |-> h[s]]
    OBVIOUS
  <2> HIDE DEF h
  <2> QED BY <1>4, <2>1 DEF IsSum
<1> QED
  <2> HIDE DEF h
  <2> QED BY <1>5

(* The fold unfolds.                                                         *)
LEMMA SumUnfolds ==
  ASSUME NEW f, NEW S, IsFiniteSet(S)
  PROVE  \E g : IsSum(f, S, g) /\ SumFunctionOnSet(f, S) = g[S]
<1> DEFINE g == CHOOSE g : g = [s \in SUBSET S |-> IF s = {} THEN 0 ELSE f[CHOOSE x \in s : TRUE] + g[s \ {CHOOSE x \in s : TRUE}]]
<1>1. SumFunctionOnSet(f, S) = g[S]
  BY DEF SumFunctionOnSet, FoldFunctionOnSet, MapThenFoldSet
<1>2. \E h : h = [s \in SUBSET S |-> IF s = {} THEN 0 ELSE f[CHOOSE x \in s : TRUE] + h[s \ {CHOOSE x \in s : TRUE}]]
  <2>1. PICK h : IsSum(f, S, h)
    BY SumExists
  <2>2. h = [s \in SUBSET S |-> IF s = {} THEN 0 ELSE f[CHOOSE x \in s : TRUE] + h[s \ {CHOOSE x \in s : TRUE}]]
    BY <2>1 DEF IsSum, SumBody, Pick
  <2> QED
    BY <2>2
<1>3. g = [s \in SUBSET S |-> IF s = {} THEN 0 ELSE f[CHOOSE x \in s : TRUE] + g[s \ {CHOOSE x \in s : TRUE}]]
  BY <1>2
<1>4. IsSum(f, S, g)
  <2> HIDE DEF g
  <2> QED BY <1>3 DEF IsSum, SumBody, Pick
<1> QED
  BY <1>1, <1>4

(* The fold, as an equation.                                                 *)
LEMMA SumStep ==
  ASSUME NEW f, NEW S, IsFiniteSet(S)
  PROVE  /\ S = {} => SumFunctionOnSet(f, S) = 0
         /\ S # {} => SumFunctionOnSet(f, S) = f[Pick(S)] + SumFunctionOnSet(f, S \ {Pick(S)})
<1>1. PICK g : IsSum(f, S, g) /\ SumFunctionOnSet(f, S) = g[S]
  BY SumUnfolds
<1>2. g[S] = SumBody(f, g, S)
  BY <1>1 DEF IsSum
<1>3. CASE S = {}
  BY <1>1, <1>2, <1>3 DEF SumBody
<1>4. CASE S # {}
  <2> DEFINE T == S \ {Pick(S)}
  <2>1. IsFiniteSet(T) /\ T \in SUBSET S
    BY FS_RemoveElement
  <2>2. PICK h : IsSum(f, T, h) /\ SumFunctionOnSet(f, T) = h[T]
    BY <2>1, SumUnfolds
  <2>3. h = [s \in SUBSET T |-> g[s]]
    <3> HIDE DEF T
    <3> QED BY <1>1, <2>1, <2>2, SumRestricts, SumIsUnique
  <2>4. h[T] = g[T]
    <3> HIDE DEF T
    <3> QED BY <2>3
  <2> QED
    BY <1>1, <1>2, <1>4, <2>2, <2>4 DEF SumBody
<1> QED
  BY <1>3, <1>4

(* The sum of nothing.                                                       *)
LEMMA SumEmpty == ASSUME NEW f PROVE SumFunctionOnSet(f, {}) = 0
  BY SumStep, FS_EmptySet

(* A sum of integers is an integer.                                          *)
LEMMA SumIsInt ==
  ASSUME NEW f, NEW S, IsFiniteSet(S), \A x \in S : f[x] \in Int
  PROVE  SumFunctionOnSet(f, S) \in Int
<1> SUFFICES ASSUME SumFunctionOnSet(f, S) \notin Int PROVE FALSE
  OBVIOUS
<1> DEFINE F == {T \in SUBSET S : SumFunctionOnSet(f, T) \notin Int}
<1>1. PICK T \in F : \A U \in F : U \subseteq T => U = T
  <2> HIDE DEF F
  <2>1. F \subseteq SUBSET S /\ S \in F
    BY DEF F
  <2> QED
    BY <2>1, SmallestSubset
<1>2. IsFiniteSet(T) /\ T # {}
  <2>1. IsFiniteSet(T)
    BY <1>1, FS_Subset
  <2>2. CASE T = {}
    BY <1>1, <2>2, SumEmpty
  <2> QED
    BY <2>1, <2>2
<1>3. Pick(T) \in T
  BY <1>2, PickFromSet
<1>4. SumFunctionOnSet(f, T \ {Pick(T)}) \in Int
  BY <1>1, <1>3
<1> QED
  BY <1>1, <1>2, <1>3, <1>4, SumStep

(* Any element can be taken out first.                                       *)
LEMMA SumRemove ==
  ASSUME NEW f, NEW S, IsFiniteSet(S), \A x \in S : f[x] \in Int, NEW y \in S
  PROVE  SumFunctionOnSet(f, S) = f[y] + SumFunctionOnSet(f, S \ {y})
<1> DEFINE Holds(T) == \A z \in T : SumFunctionOnSet(f, T) = f[z] + SumFunctionOnSet(f, T \ {z})
           F == {T \in SUBSET S : ~Holds(T)}
<1> SUFFICES ASSUME ~Holds(S) PROVE FALSE
  OBVIOUS
<1>1. PICK T \in F : \A U \in F : U \subseteq T => U = T
  <2> HIDE DEF F
  <2>1. F \subseteq SUBSET S /\ S \in F
    BY DEF F
  <2> QED
    BY <2>1, SmallestSubset
<1>2. PICK z \in T : SumFunctionOnSet(f, T) # f[z] + SumFunctionOnSet(f, T \ {z})
  BY <1>1
<1>3. IsFiniteSet(T) /\ T \subseteq S /\ Pick(T) \in T
  BY <1>1, <1>2, FS_Subset, PickFromSet
<1> DEFINE x == Pick(T)
           R == (T \ {x}) \ {z}
<1>4. SumFunctionOnSet(f, T) = f[x] + SumFunctionOnSet(f, T \ {x})
  BY <1>2, <1>3, SumStep
<1>5. x # z
  BY <1>2, <1>4
<1>6. Holds(T \ {x}) /\ Holds(T \ {z})
  BY <1>1, <1>2, <1>3
<1>7. SumFunctionOnSet(f, T \ {x}) = f[z] + SumFunctionOnSet(f, R)
  BY <1>2, <1>3, <1>5, <1>6
<1>8. SumFunctionOnSet(f, T \ {z}) = f[x] + SumFunctionOnSet(f, R)
  <2>1. (T \ {z}) \ {x} = R
    OBVIOUS
  <2> QED
    BY <1>2, <1>3, <1>5, <1>6, <2>1
<1>9. /\ SumFunctionOnSet(f, R) \in Int /\ f[x] \in Int /\ f[z] \in Int
  BY <1>2, <1>3, FS_RemoveElement, SumIsInt
<1> HIDE DEF R, x
<1> QED
  BY <1>2, <1>4, <1>7, <1>8, <1>9

(* The sum depends on the values summed only.                                *)
LEMMA SumDependsOnValues ==
  ASSUME NEW f, NEW g, NEW S, IsFiniteSet(S), \A x \in S : f[x] = g[x]
  PROVE  SumFunctionOnSet(f, S) = SumFunctionOnSet(g, S)
<1> SUFFICES ASSUME SumFunctionOnSet(f, S) # SumFunctionOnSet(g, S) PROVE FALSE
  OBVIOUS
<1> DEFINE F == {T \in SUBSET S : SumFunctionOnSet(f, T) # SumFunctionOnSet(g, T)}
<1>1. PICK T \in F : \A U \in F : U \subseteq T => U = T
  <2> HIDE DEF F
  <2>1. F \subseteq SUBSET S /\ S \in F
    BY DEF F
  <2> QED
    BY <2>1, SmallestSubset
<1>2. IsFiniteSet(T) /\ T # {}
  <2>1. IsFiniteSet(T)
    BY <1>1, FS_Subset
  <2>2. CASE T = {}
    BY <1>1, <2>2, SumEmpty
  <2> QED
    BY <2>1, <2>2
<1>3. Pick(T) \in T
  BY <1>2, PickFromSet
<1>4. SumFunctionOnSet(f, T \ {Pick(T)}) = SumFunctionOnSet(g, T \ {Pick(T)})
  BY <1>1, <1>3
<1> QED
  BY <1>1, <1>2, <1>3, <1>4, SumStep

(* A sum of naturals is a natural, zero only if all of them are.             *)
LEMMA SumIsNat ==
  ASSUME NEW f, NEW S, IsFiniteSet(S), \A x \in S : f[x] \in Nat
  PROVE  /\ SumFunctionOnSet(f, S) \in Nat
         /\ SumFunctionOnSet(f, S) # 0 => \E x \in S : f[x] # 0
<1> DEFINE Holds(T) == /\ SumFunctionOnSet(f, T) \in Nat
                       /\ SumFunctionOnSet(f, T) # 0 => \E x \in T : f[x] # 0
           F == {T \in SUBSET S : ~Holds(T)}
<1> SUFFICES ASSUME ~Holds(S) PROVE FALSE
  OBVIOUS
<1>1. PICK T \in F : \A U \in F : U \subseteq T => U = T
  <2> HIDE DEF F
  <2>1. F \subseteq SUBSET S /\ S \in F
    BY DEF F
  <2> QED
    BY <2>1, SmallestSubset
<1>2. IsFiniteSet(T) /\ T # {}
  <2>1. IsFiniteSet(T)
    BY <1>1, FS_Subset
  <2>2. CASE T = {}
    BY <1>1, <2>2, SumEmpty
  <2> QED
    BY <2>1, <2>2
<1>3. Pick(T) \in T
  BY <1>2, PickFromSet
<1>4. Holds(T \ {Pick(T)})
  BY <1>1, <1>3
<1>5. SumFunctionOnSet(f, T) = f[Pick(T)] + SumFunctionOnSet(f, T \ {Pick(T)})
  BY <1>2, SumStep
<1>6. Holds(T)
  BY <1>1, <1>3, <1>4, <1>5
<1> QED
  BY <1>1, <1>6

(* A function's sum, over its domain.                                        *)
LEMMA SumTypes ==
  ASSUME NEW S, IsFiniteSet(S), NEW f \in [S -> Int]
  PROVE  /\ SumFunction(f) \in Int
         /\ f \in [S -> Nat] => SumFunction(f) \in Nat
         /\ SumFunction(f) # 0 => S # {}
<1>1. SumFunction(f) = SumFunctionOnSet(f, S)
  BY DEF SumFunction
<1>2. SumFunctionOnSet(f, S) \in Int
  BY SumIsInt
<1>3. ASSUME f \in [S -> Nat] PROVE SumFunctionOnSet(f, S) \in Nat
  BY <1>3, SumIsNat
<1>4. S = {} => SumFunctionOnSet(f, S) = 0
  BY SumEmpty
<1> QED
  BY <1>1, <1>2, <1>3, <1>4

(* A non-empty set of naturals has a smallest one.                           *)
LEMMA SmallestNumber ==
  ASSUME NEW F, F \subseteq Nat, F # {}
  PROVE  \E m \in F : \A n \in F : m <= n
<1>1. PICK top \in F : TRUE
  OBVIOUS
<1> DEFINE S == 0 .. top
           G == {T \in SUBSET S : \E n \in F : T = 0 .. n}
<1>2. PICK T \in G : \A U \in G : U \subseteq T => U = T
  <2>1. S \in G /\ G \subseteq SUBSET S
    BY <1>1
  <2>2. IsFiniteSet(S)
    BY <1>1, FS_Interval
  <2> HIDE DEF G, S
  <2> QED
    BY <2>1, <2>2, SmallestSubset
<1>3. PICK m \in F : T = 0 .. m
  BY <1>2
<1>4. ASSUME NEW n \in F, n < m PROVE FALSE
  <2>1. 0 .. n \subseteq T /\ 0 .. n \in G /\ m \notin 0 .. n /\ m \in T
    BY <1>2, <1>3, <1>4
  <2> QED
    BY <1>2, <2>1
<1> QED
  BY <1>4

(* An element is added to what is summed.                                    *)
LEMMA SumAdds ==
  ASSUME NEW f, NEW S, IsFiniteSet(S), NEW y, y \notin S, \A x \in S \cup {y} : f[x] \in Int
  PROVE  SumFunctionOnSet(f, S \cup {y}) = SumFunctionOnSet(f, S) + f[y]
<1>1. IsFiniteSet(S \cup {y}) /\ y \in S \cup {y} /\ (S \cup {y}) \ {y} = S
  BY FS_AddElement
<1>2. SumFunctionOnSet(f, S \cup {y}) = f[y] + SumFunctionOnSet(f, S)
  BY <1>1, SumRemove
<1>3. SumFunctionOnSet(f, S) \in Int /\ f[y] \in Int
  BY SumIsInt
<1> QED
  BY <1>2, <1>3

--------------------------------------------------------------------------------
(* What the serial search finds: depths.                                     *)

(* The vertices.                                                             *)
LEMMA NodesAreFinite ==
  /\ IsFiniteSet(Nodes) /\ Cardinality(Nodes) = num_nodes /\ Nodes \subseteq Nat
  /\ num_nodes \in Nat \ {0} /\ 0 \in Nodes
<1>1. num_nodes \in Nat \ {0}
  BY BCAssumption
<1> QED
  BY <1>1, FS_Interval DEF Nodes

(* The balls around s, as an equation.                                       *)
Grown(B) == B \cup UNION {out_neigh[u] : u \in B}
AreBalls(s, n, f) == f = [k \in 0 .. n |-> IF k = 0 THEN {s} ELSE Grown(f[k - 1])]

(* Some function satisfies it.                                               *)
LEMMA BallsExist ==
  ASSUME NEW s, NEW n \in Nat
  PROVE  \E f : AreBalls(s, n, f)
<1> SUFFICES ASSUME ~\E f : AreBalls(s, n, f) PROVE FALSE
  OBVIOUS
<1> DEFINE F == {m \in Nat : ~\E f : AreBalls(s, m, f)}
<1>1. PICK m \in F : \A l \in F : m <= l
  <2>1. F \subseteq Nat /\ F # {}
    OBVIOUS
  <2> HIDE DEF F
  <2> QED
    BY <2>1, SmallestNumber
<1>2. CASE m = 0
  <2>1. AreBalls(s, 0, [k \in 0 .. 0 |-> {s}])
    BY DEF AreBalls
  <2> QED
    BY <1>1, <1>2, <2>1
<1>3. CASE m # 0
  <2>1. m \in Nat /\ m - 1 \in Nat /\ m - 1 \notin F
    BY <1>1, <1>3
  <2>2. PICK f : AreBalls(s, m - 1, f)
    BY <2>1
  <2> DEFINE g == [k \in 0 .. m |-> IF k < m THEN f[k] ELSE Grown(f[m - 1])]
  <2>3. ASSUME NEW k \in 0 .. m
        PROVE  g[k] = IF k = 0 THEN {s} ELSE Grown(g[k - 1])
    <3>1. CASE k = m
      <4>1. g[k - 1] = f[m - 1]
        BY <2>1, <3>1
      <4> QED
        BY <1>3, <3>1, <4>1
    <3>2. CASE k # m
      <4>1. k \in 0 .. m - 1 /\ k < m
        BY <2>1, <3>2
      <4>2. f[k] = IF k = 0 THEN {s} ELSE Grown(f[k - 1])
        BY <2>2, <4>1 DEF AreBalls
      <4>3. k # 0 => g[k - 1] = f[k - 1]
        BY <2>1, <4>1
      <4> QED
        BY <4>1, <4>2, <4>3
    <3> QED
      BY <3>1, <3>2
  <2>4. g = [k \in 0 .. m |-> g[k]]
    OBVIOUS
  <2> HIDE DEF g
  <2>5. g = [k \in 0 .. m |-> IF k = 0 THEN {s} ELSE Grown(g[k - 1])]
    BY <2>3, <2>4
  <2>6. AreBalls(s, m, g)
    BY <2>5 DEF AreBalls
  <2> QED
    BY <1>1, <2>6
<1> QED
  BY <1>2, <1>3

(* Ball(s) does.                                                             *)
LEMMA BallGrows == ASSUME NEW s PROVE AreBalls(s, num_nodes, Ball(s))
<1>1. num_nodes \in Nat
  BY NodesAreFinite
<1>2. PICK f : AreBalls(s, num_nodes, f)
  BY <1>1, BallsExist
<1>3. \E r : r = [k \in 0 .. num_nodes |->
                    IF k = 0 THEN {s} ELSE r[k - 1] \cup UNION {out_neigh[u] : u \in r[k - 1]}]
  BY <1>2 DEF AreBalls, Grown
<1>4. Ball(s) = [k \in 0 .. num_nodes |->
                    IF k = 0 THEN {s} ELSE Ball(s)[k - 1] \cup UNION {out_neigh[u] : u \in Ball(s)[k - 1]}]
  BY <1>3 DEF Ball
<1> QED
  BY <1>4 DEF AreBalls, Grown

(* The next ball has the out-neighbours of this one's vertices.              *)
LEMMA NextBall ==
  ASSUME NEW s, NEW k \in Nat, k < num_nodes
  PROVE  /\ Ball(s)[0] = {s}
         /\ Ball(s)[k + 1] = Grown(Ball(s)[k])
<1>1. num_nodes \in Nat
  BY NodesAreFinite
<1>2. 0 \in 0 .. num_nodes /\ k + 1 \in 0 .. num_nodes /\ k + 1 # 0 /\ (k + 1) - 1 = k
  BY <1>1
<1>3. PICK f : f = Ball(s)
  OBVIOUS
<1>4. f = [j \in 0 .. num_nodes |-> IF j = 0 THEN {s} ELSE Grown(f[j - 1])]
  BY <1>3, BallGrows DEF AreBalls
<1>5. f[0] = {s} /\ f[k + 1] = Grown(f[k])
  <2> HIDE DEF Grown
  <2> QED
    BY <1>2, <1>4
<1> QED
  BY <1>3, <1>5

(* Balls are sets of vertices around s.                                      *)
LEMMA BallTypes ==
  ASSUME out_neigh \in [Nodes -> SUBSET Nodes], NEW s \in Nodes
  PROVE  \A k \in 0 .. num_nodes : Ball(s)[k] \subseteq Nodes /\ s \in Ball(s)[k]
<1> DEFINE OK(k) == Ball(s)[k] \subseteq Nodes /\ s \in Ball(s)[k]
           F == {k \in 0 .. num_nodes : ~OK(k)}
<1> SUFFICES ASSUME F # {} PROVE FALSE
  OBVIOUS
<1>1. num_nodes \in Nat \ {0}
  BY NodesAreFinite
<1>2. PICK m \in F : \A l \in F : m <= l
  <2>1. F \subseteq Nat
    BY <1>1
  <2> HIDE DEF F
  <2> QED
    BY <2>1, SmallestNumber
<1>3. m # 0
  <2>1. OK(0)
    BY <1>1, NextBall
  <2> QED
    BY <1>2, <2>1
<1>4. m - 1 \in Nat /\ m - 1 < num_nodes /\ (m - 1) + 1 = m
  BY <1>1, <1>2, <1>3
<1>5. OK(m - 1)
  <2>1. m - 1 \notin F
    BY <1>2, <1>4
  <2> QED
    BY <1>1, <1>4, <2>1
<1>6. Ball(s)[m] = Grown(Ball(s)[m - 1])
  BY <1>4, NextBall
<1>7. OK(m)
  BY <1>5, <1>6 DEF Grown
<1> QED
  BY <1>2, <1>7

(* The last ball is closed: while balls grow they have more vertices than    *)
(* their radius.                                                             *)
LEMMA BallCloses ==
  ASSUME out_neigh \in [Nodes -> SUBSET Nodes], NEW s \in Nodes
  PROVE  Grown(Ball(s)[num_nodes]) = Ball(s)[num_nodes]
<1> DEFINE B(k) == Ball(s)[k]
           Closed(k) == Grown(B(k)) = B(k)
           OK(k) == Closed(k) \/ Cardinality(B(k)) >= k + 1
           F == {k \in 0 .. num_nodes : ~OK(k)}
<1>1. num_nodes \in Nat \ {0} /\ IsFiniteSet(Nodes) /\ Cardinality(Nodes) = num_nodes
  BY NodesAreFinite
<1>2. ASSUME NEW k \in 0 .. num_nodes
      PROVE  B(k) \subseteq Nodes /\ IsFiniteSet(B(k)) /\ Cardinality(B(k)) \in Nat /\ Cardinality(B(k)) <= num_nodes
  <2>1. B(k) \in SUBSET Nodes
    BY BallTypes
  <2> HIDE DEF B
  <2>2. IsFiniteSet(B(k)) /\ Cardinality(B(k)) <= num_nodes
    BY <1>1, <2>1, FS_Subset
  <2> QED
    BY <2>1, <2>2, FS_CardinalityType
<1>3. ASSUME F # {} PROVE FALSE
  <2>1. PICK m \in F : \A l \in F : m <= l
    <3>1. F \subseteq Nat
      BY <1>1
    <3> HIDE DEF F
    <3> QED
      BY <1>3, <3>1, SmallestNumber
  <2>2. m \in 0 .. num_nodes /\ ~OK(m)
    BY <2>1
  <2>3. CASE m = 0
    <3>1. B(m) = {s}
      BY <1>1, <2>3, NextBall
    <3>2. Cardinality(B(m)) = 1
      BY <3>1, FS_Singleton
    <3> HIDE DEF B, Closed
    <3> QED
      BY <2>2, <2>3, <3>2
  <2>4. CASE m # 0
    <3>1. PICK k \in 0 .. num_nodes - 1 : m = k + 1
      BY <1>1, <2>2, <2>4
    <3>2. k \in 0 .. num_nodes /\ k \in Nat /\ k < num_nodes
      BY <1>1
    <3>3. OK(k)
      <4>1. k \notin F
        BY <2>1, <3>1, <3>2
      <4> QED
        BY <3>2, <4>1
    <3>4. B(m) = Grown(B(k))
      BY <3>1, <3>2, NextBall
    <3>5. B(k) # B(m)
      BY <2>2, <3>4
    <3>6. Cardinality(B(k)) >= k + 1
      BY <3>3, <3>4, <3>5
    <3>7. B(k) \in SUBSET B(m)
      BY <3>4 DEF Grown
    <3> HIDE DEF B, Closed
    <3>8. Cardinality(B(k)) <= Cardinality(B(m)) /\ Cardinality(B(m)) # Cardinality(B(k))
      BY <1>2, <2>2, <3>5, <3>7, FS_Subset
    <3>9. Cardinality(B(k)) \in Nat /\ Cardinality(B(m)) \in Nat
      BY <1>2, <2>2, <3>2
    <3>10. Cardinality(B(m)) >= m + 1
      BY <3>1, <3>2, <3>6, <3>8, <3>9
    <3> QED
      BY <2>2, <3>10
  <2> QED
    BY <2>3, <2>4
<1>4. OK(num_nodes) /\ num_nodes \in 0 .. num_nodes
  <2>1. num_nodes \in 0 .. num_nodes /\ num_nodes \notin F
    BY <1>1, <1>3
  <2> HIDE DEF OK
  <2> QED
    BY <2>1
<1>5. Closed(num_nodes)
  <2> HIDE DEF B, Closed
  <2> QED
    BY <1>1, <1>2, <1>4
<1> QED
  BY <1>5

(* Balls grow.                                                               *)
LEMMA BallsNest ==
  ASSUME out_neigh \in [Nodes -> SUBSET Nodes], NEW s \in Nodes,
         NEW j \in 0 .. num_nodes, NEW k \in 0 .. num_nodes, j <= k
  PROVE  Ball(s)[j] \subseteq Ball(s)[k]
<1> DEFINE F == {m \in 0 .. num_nodes : j <= m /\ ~(Ball(s)[j] \subseteq Ball(s)[m])}
<1> SUFFICES ASSUME F # {} PROVE FALSE
  OBVIOUS
<1>1. num_nodes \in Nat
  BY NodesAreFinite
<1>2. PICK m \in F : \A l \in F : m <= l
  <2>1. F \subseteq Nat
    BY <1>1
  <2> HIDE DEF F
  <2> QED
    BY <2>1, SmallestNumber
<1>3. m # j /\ m \in 0 .. num_nodes /\ j <= m
  BY <1>2
<1>4. m - 1 \in Nat /\ m - 1 < num_nodes /\ (m - 1) + 1 = m /\ j <= m - 1 /\ m - 1 \in 0 .. num_nodes
  BY <1>1, <1>3
<1>5. Ball(s)[j] \subseteq Ball(s)[m - 1]
  <2>1. m - 1 \notin F
    BY <1>2, <1>4
  <2> QED
    BY <1>4, <2>1
<1>6. Ball(s)[m - 1] \subseteq Ball(s)[m]
  BY <1>4, NextBall DEF Grown
<1> QED
  BY <1>2, <1>5, <1>6

(* Depths by balls.                                                          *)
LEMMA DepthMeans ==
  ASSUME out_neigh \in [Nodes -> SUBSET Nodes], NEW s \in Nodes, NEW v \in Nodes
  PROVE  \/ v \notin Ball(s)[num_nodes] /\ Depths(s)[v] = -1
         \/ /\ Depths(s)[v] \in 0 .. num_nodes
            /\ \A k \in 0 .. num_nodes : v \in Ball(s)[k] <=> Depths(s)[v] <= k
<1>1. num_nodes \in Nat
  BY NodesAreFinite
<1> DEFINE B == Ball(s)
           First(k) == v \in B[k] /\ (k = 0 \/ v \notin B[k - 1])
<1>2. Depths(s)[v] = IF v \notin B[num_nodes] THEN -1 ELSE CHOOSE k \in 0 .. num_nodes : First(k)
  BY DEF Depths
<1>3. CASE v \notin B[num_nodes]
  BY <1>2, <1>3
<1>4. CASE v \in B[num_nodes]
  <2> DEFINE F == {k \in 0 .. num_nodes : v \in B[k]}
  <2>1. PICK m \in F : \A l \in F : m <= l
    <3>1. F \subseteq Nat /\ F # {}
      <4>1. num_nodes \in F
        BY <1>1, <1>4
      <4> QED
        BY <1>1, <4>1
    <3> HIDE DEF F
    <3> QED
      BY <3>1, SmallestNumber
  <2>2. First(m) /\ m \in 0 .. num_nodes
    <3>1. m # 0 => m - 1 \notin F /\ m - 1 \in 0 .. num_nodes
      BY <1>1, <2>1
    <3> QED
      BY <2>1, <3>1
  <2> HIDE DEF First
  <2>3. PICK k \in 0 .. num_nodes : k = Depths(s)[v] /\ First(k)
    BY <1>2, <1>4, <2>2
  <2>4. ASSUME NEW l \in 0 .. num_nodes PROVE v \in B[l] <=> k <= l
    <3>1. ASSUME k <= l PROVE v \in B[l]
      BY <2>3, <3>1, BallsNest DEF First
    <3>2. ASSUME l < k PROVE v \notin B[l]
      <4>1. k # 0 /\ k - 1 \in 0 .. num_nodes /\ l <= k - 1
        BY <1>1, <3>2
      <4>2. B[l] \subseteq B[k - 1]
        BY <4>1, BallsNest
      <4> QED
        BY <2>3, <4>1, <4>2 DEF First
    <3> QED
      BY <3>1, <3>2
  <2> HIDE DEF B
  <2> QED
    BY <2>3, <2>4 DEF B
<1> QED
  BY <1>3, <1>4

(* What characterises the depths.                                            *)
LEMMA DepthFacts ==
  ASSUME out_neigh \in [Nodes -> SUBSET Nodes], NEW s \in Nodes
  PROVE  /\ Depths(s) \in [Nodes -> Int]
         /\ \A v \in Nodes : Depths(s)[v] \in -1 .. num_nodes
         /\ \A v \in Nodes : Depths(s)[v] = 0 <=> v = s
         /\ \A u \in Nodes : \A v \in out_neigh[u] :
               Depths(s)[u] # -1 => Depths(s)[v] # -1 /\ Depths(s)[v] <= Depths(s)[u] + 1
         /\ \A v \in Nodes : Depths(s)[v] > 0 =>
               \E u \in Nodes : v \in out_neigh[u] /\ Depths(s)[u] = Depths(s)[v] - 1
<1>1. num_nodes \in Nat \ {0}
  BY NodesAreFinite
<1>2. PICK D : D = Depths(s)
  OBVIOUS
<1>3. PICK B : B = Ball(s)
  OBVIOUS
<1>4. ASSUME NEW v \in Nodes
      PROVE  \/ v \notin B[num_nodes] /\ D[v] = -1
             \/ D[v] \in 0 .. num_nodes /\ \A k \in 0 .. num_nodes : v \in B[k] <=> D[v] <= k
  BY <1>2, <1>3, DepthMeans
<1>5. \A v \in Nodes : D[v] \in -1 .. num_nodes /\ D[v] \in Int
  BY <1>1, <1>4
<1>6. D \in [Nodes -> Int]
  <2>1. D = [v \in Nodes |-> D[v]]
    BY <1>2 DEF Depths
  <2> QED
    BY <1>5, <2>1
<1>7. B[0] = {s} /\ s \in B[num_nodes]
  BY <1>1, <1>3, NextBall, BallTypes
<1>8. ASSUME NEW v \in Nodes PROVE D[v] = 0 <=> v = s
  BY <1>1, <1>4, <1>7
<1>9. ASSUME NEW u \in Nodes, NEW v \in out_neigh[u], D[u] # -1
      PROVE  D[v] # -1 /\ D[v] <= D[u] + 1
  <2>1. v \in Nodes /\ D[u] \in 0 .. num_nodes /\ u \in B[D[u]] /\ u \in B[num_nodes]
    BY <1>1, <1>4, <1>9
  <2>2. CASE D[u] = num_nodes
    <3>1. v \in B[num_nodes]
      BY <1>3, <2>1, BallCloses DEF Grown
    <3> QED
      BY <1>1, <1>4, <2>1, <2>2, <3>1
  <2>3. CASE D[u] # num_nodes
    <3>1. PICK k \in Nat : k = D[u] /\ k < num_nodes /\ k + 1 \in 0 .. num_nodes
      BY <1>1, <2>1, <2>3
    <3>2. v \in B[k + 1]
      <4>1. B[k + 1] = Grown(B[k])
        BY <1>3, <3>1, NextBall
      <4>2. u \in B[k]
        BY <2>1, <3>1
      <4> QED
        BY <4>1, <4>2 DEF Grown
    <3>3. B[k + 1] \subseteq B[num_nodes]
      BY <1>1, <1>3, <3>1, BallsNest
    <3> QED
      BY <1>1, <1>4, <2>1, <3>1, <3>2, <3>3
  <2> QED
    BY <2>2, <2>3
<1>10. ASSUME NEW v \in Nodes, D[v] > 0
       PROVE  \E u \in Nodes : v \in out_neigh[u] /\ D[u] = D[v] - 1
  <2>1. PICK k \in Nat : k = D[v] - 1 /\ k < num_nodes /\ k + 1 = D[v] /\ k \in 0 .. num_nodes /\ k + 1 \in 0 .. num_nodes
    BY <1>1, <1>4, <1>10
  <2>2. v \in B[k + 1] /\ v \notin B[k]
    BY <1>4, <2>1
  <2>3. PICK u \in B[k] : v \in out_neigh[u]
    BY <1>3, <2>1, <2>2, NextBall DEF Grown
  <2>4. u \in Nodes
    BY <1>3, <2>1, BallTypes
  <2>5. D[u] \in 0 .. num_nodes /\ D[u] <= k
    <3>1. B[k] \subseteq B[num_nodes]
      BY <1>1, <1>3, <2>1, BallsNest
    <3> QED
      BY <1>4, <2>1, <2>4, <3>1
  <2>6. D[u] = k
    <3>1. D[v] <= D[u] + 1
      BY <1>9, <2>3, <2>4, <2>5
    <3> QED
      BY <2>1, <2>5, <3>1
  <2> QED
    BY <2>1, <2>3, <2>4, <2>6
<1> QED
  BY <1>2, <1>5, <1>6, <1>8, <1>9, <1>10

--------------------------------------------------------------------------------
(* What the serial search finds: numbers of paths.                           *)

Preds(s, v) == {u \in Nodes : <<u, v>> \in Successors(s)}
Succs(s, u) == {v \in Nodes : <<u, v>> \in Successors(s)}

(* The edges from one depth to the next, and that there is one to every      *)
(* vertex but the source.                                                    *)
LEMMA SuccessorFacts ==
  ASSUME out_neigh \in [Nodes -> SUBSET Nodes], NEW s \in Nodes
  PROVE  /\ \A u, v : <<u, v>> \in Successors(s) <=>
               /\ u \in Nodes /\ v \in Nodes /\ v \in out_neigh[u]
               /\ Depths(s)[u] # -1 /\ Depths(s)[v] = Depths(s)[u] + 1
         /\ Successors(s) \subseteq Nodes \X Nodes
         /\ \A v \in Nodes : Depths(s)[v] > 0 => Preds(s, v) # {}
         /\ \A v \in Nodes : Depths(s)[v] <= 0 => Preds(s, v) = {}
         /\ \A u \in Nodes : Depths(s)[u] = -1 => Succs(s, u) = {}
<1>1. PICK D : D = Depths(s)
  OBVIOUS
<1>2. ASSUME NEW u, NEW v
      PROVE  <<u, v>> \in Successors(s) <=>
               u \in Nodes /\ v \in Nodes /\ v \in out_neigh[u] /\ D[u] # -1 /\ D[v] = D[u] + 1
  <2>1. <<u, v>> \in Nodes \X Nodes <=> u \in Nodes /\ v \in Nodes
    OBVIOUS
  <2>2. <<u, v>>[1] = u /\ <<u, v>>[2] = v
    OBVIOUS
  <2> QED
    BY <1>1, <2>1, <2>2 DEF Successors
<1>3. Successors(s) \subseteq Nodes \X Nodes
  BY DEF Successors
<1>4. /\ \A v \in Nodes : D[v] \in -1 .. num_nodes
      /\ \A v \in Nodes : D[v] > 0 => \E u \in Nodes : v \in out_neigh[u] /\ D[u] = D[v] - 1
      /\ num_nodes \in Nat
  BY <1>1, DepthFacts, NodesAreFinite
<1>5. ASSUME NEW v \in Nodes, D[v] > 0 PROVE Preds(s, v) # {}
  <2>1. PICK u \in Nodes : v \in out_neigh[u] /\ D[u] = D[v] - 1
    BY <1>4, <1>5
  <2>2. D[u] # -1 /\ D[v] = D[u] + 1
    BY <1>4, <1>5, <2>1
  <2> QED
    BY <1>2, <2>1, <2>2 DEF Preds
<1>6. ASSUME NEW v \in Nodes, D[v] <= 0 PROVE Preds(s, v) = {}
  <2> SUFFICES ASSUME NEW u \in Nodes, <<u, v>> \in Successors(s) PROVE FALSE
    BY DEF Preds
  <2> QED
    BY <1>2, <1>4, <1>6
<1>7. ASSUME NEW u \in Nodes, D[u] = -1 PROVE Succs(s, u) = {}
  BY <1>2, <1>7 DEF Succs
<1> QED
  BY <1>1, <1>2, <1>3, <1>5, <1>6, <1>7

(* The numbers of paths, as an equation for a vertex.                        *)
PathsTo(s, P, v) == IF v = s THEN 1 ELSE SumFunctionOnSet(P, Preds(s, v))

(* PathCounts(s) satisfies it: the number of paths to a vertex depends on    *)
(* vertices of a smaller depth only.                                         *)
LEMMA PathCountsAdd ==
  ASSUME out_neigh \in [Nodes -> SUBSET Nodes], NEW s \in Nodes
  PROVE  /\ \A v \in Nodes : PathCounts(s)[v] = PathsTo(s, PathCounts(s), v)
         /\ PathCounts(s) = [v \in Nodes |-> PathCounts(s)[v]]
<1>1. PICK D : D = Depths(s)
  OBVIOUS
<1>2. /\ num_nodes \in Nat /\ IsFiniteSet(Nodes)
      /\ \A v \in Nodes : D[v] \in -1 .. num_nodes
  BY <1>1, DepthFacts, NodesAreFinite
<1>3. ASSUME NEW v \in Nodes
      PROVE  /\ Preds(s, v) \subseteq Nodes /\ IsFiniteSet(Preds(s, v))
             /\ \A u \in Preds(s, v) : D[u] < D[v]
  <2>1. Preds(s, v) \subseteq Nodes
    BY DEF Preds
  <2>2. \A u \in Preds(s, v) : D[v] = D[u] + 1
    BY <1>1, SuccessorFacts DEF Preds
  <2> QED
    BY <1>2, <2>1, <2>2, FS_Subset
<1>4. ASSUME NEW f, NEW g, NEW v \in Nodes, \A u \in Nodes : D[u] < D[v] => f[u] = g[u]
      PROVE  PathsTo(s, f, v) = PathsTo(s, g, v)
  <2>1. \A u \in Preds(s, v) : f[u] = g[u]
    BY <1>3, <1>4
  <2>2. SumFunctionOnSet(f, Preds(s, v)) = SumFunctionOnSet(g, Preds(s, v))
    BY <1>3, <2>1, SumDependsOnValues
  <2> QED
    BY <2>2 DEF PathsTo
<1> DEFINE Solves(f, k) == \A v \in Nodes : D[v] < k => f[v] = PathsTo(s, f, v)
           F == {k \in Nat : ~\E f : Solves(f, k)}
<1>5. F = {}
  <2> SUFFICES ASSUME F # {} PROVE FALSE
    OBVIOUS
  <2>1. PICK m \in F : \A l \in F : m <= l
    <3>1. F \subseteq Nat
      OBVIOUS
    <3> HIDE DEF F
    <3> QED
      BY <3>1, SmallestNumber
  <2>2. PICK f : \A v \in Nodes : D[v] < m - 1 => f[v] = PathsTo(s, f, v)
    <3>1. CASE m = 0
      <4>1. \A v \in Nodes : ~(D[v] < m - 1)
        BY <1>2, <3>1
      <4> QED
        BY <4>1
    <3>2. CASE m # 0
      <4>1. m - 1 \in Nat /\ m - 1 \notin F
        BY <2>1, <3>2
      <4> QED
        BY <4>1
    <3> QED
      BY <3>1, <3>2
  <2> DEFINE g == [v \in Nodes |-> IF D[v] = m - 1 THEN PathsTo(s, f, v) ELSE f[v]]
  <2>3. ASSUME NEW v \in Nodes, D[v] < m PROVE g[v] = PathsTo(s, g, v)
    <3>1. D[v] <= m - 1 /\ D[v] \in Int /\ m \in Int
      BY <1>2, <2>1, <2>3
    <3>2. \A u \in Nodes : D[u] < D[v] => f[u] = g[u]
      BY <1>2, <3>1
    <3>3. PathsTo(s, f, v) = PathsTo(s, g, v)
      <4> HIDE DEF g
      <4> QED
        BY <1>4, <3>2
    <3>4. g[v] = PathsTo(s, f, v)
      BY <2>2, <3>1
    <3> QED
      BY <3>3, <3>4
  <2>4. m \notin F
    <3> HIDE DEF g
    <3> QED
      BY <2>3
  <2> QED
    BY <2>1, <2>4
<1>6. PICK f : \A v \in Nodes : f[v] = PathsTo(s, f, v)
  <2>1. num_nodes + 1 \in Nat /\ \A v \in Nodes : D[v] < num_nodes + 1
    BY <1>2
  <2> HIDE DEF F
  <2>2. num_nodes + 1 \notin F
    BY <1>5
  <2>3. PICK f : Solves(f, num_nodes + 1)
    BY <2>1, <2>2 DEF F
  <2> QED
    BY <2>1, <2>3
<1> DEFINE Body(P, v) == IF v = s THEN 1
                         ELSE SumFunction([u \in {x \in Nodes : <<x, v>> \in Successors(s)} |-> P[u]])
<1>7. ASSUME NEW P, NEW v \in Nodes PROVE Body(P, v) = PathsTo(s, P, v)
  <2> DEFINE h == [u \in {x \in Nodes : <<x, v>> \in Successors(s)} |-> P[u]]
  <2>1. SumFunction(h) = SumFunctionOnSet(h, Preds(s, v))
    BY DEF SumFunction, Preds
  <2>2. \A u \in Preds(s, v) : h[u] = P[u]
    BY DEF Preds
  <2>3. SumFunctionOnSet(h, Preds(s, v)) = SumFunctionOnSet(P, Preds(s, v))
    <3> HIDE DEF h
    <3> QED
      BY <1>3, <2>2, SumDependsOnValues
  <2> QED
    BY <2>1, <2>3 DEF PathsTo
<1>8. \E P : P = [v \in Nodes |-> Body(P, v)]
  <2> DEFINE g == [v \in Nodes |-> f[v]]
  <2>1. ASSUME NEW v \in Nodes PROVE g[v] = Body(g, v)
    <3>1. PathsTo(s, g, v) = PathsTo(s, f, v)
      <4>1. \A u \in Nodes : g[u] = f[u]
        OBVIOUS
      <4> HIDE DEF g
      <4> QED
        BY <1>4, <4>1
    <3>2. g[v] = f[v]
      OBVIOUS
    <3> HIDE DEF Body, g
    <3> QED
      BY <1>6, <1>7, <3>1, <3>2
  <2>2. g = [v \in Nodes |-> g[v]]
    OBVIOUS
  <2> HIDE DEF Body, g
  <2> QED
    BY <2>1, <2>2
<1>9. PathCounts(s) = [v \in Nodes |-> Body(PathCounts(s), v)]
  BY <1>8 DEF PathCounts
<1> HIDE DEF Body
<1>10. PICK P : P = PathCounts(s)
  OBVIOUS
<1>11. P = [v \in Nodes |-> Body(P, v)]
  BY <1>9, <1>10
<1>12. P = [v \in Nodes |-> P[v]] /\ \A v \in Nodes : P[v] = Body(P, v)
  BY <1>11
<1> QED
  BY <1>7, <1>10, <1>12

(* What characterises the numbers of paths.                                  *)
LEMMA PathCountFacts ==
  ASSUME out_neigh \in [Nodes -> SUBSET Nodes], NEW s \in Nodes
  PROVE  /\ PathCounts(s) \in [Nodes -> Nat]
         /\ PathCounts(s)[s] = 1
         /\ \A v \in Nodes \ {s} : PathCounts(s)[v] = SumFunctionOnSet(PathCounts(s), Preds(s, v))
         /\ \A v \in Nodes : Depths(s)[v] = -1 <=> PathCounts(s)[v] = 0
<1>1. PICK D : D = Depths(s)
  OBVIOUS
<1>2. PICK P : P = PathCounts(s)
  OBVIOUS
<1>3. \A v \in Nodes : P[v] = PathsTo(s, P, v)
  BY <1>2, PathCountsAdd
<1>4. /\ num_nodes \in Nat
      /\ \A v \in Nodes : D[v] \in -1 .. num_nodes
      /\ \A v \in Nodes : D[v] = 0 <=> v = s
  BY <1>1, DepthFacts, NodesAreFinite
<1>5. P[s] = 1 /\ \A v \in Nodes \ {s} : P[v] = SumFunctionOnSet(P, Preds(s, v))
  BY <1>3 DEF PathsTo
<1> DEFINE OK(v) == P[v] \in Nat /\ (D[v] = -1 <=> P[v] = 0)
           F == {k \in Nat : \E v \in Nodes : D[v] = k - 1 /\ ~OK(v)}
<1>6. F = {}
  <2> SUFFICES ASSUME F # {} PROVE FALSE
    OBVIOUS
  <2>1. PICK m \in F : \A l \in F : m <= l
    <3>1. F \subseteq Nat
      OBVIOUS
    <3> HIDE DEF F
    <3> QED
      BY <3>1, SmallestNumber
  <2>2. PICK v \in Nodes : D[v] = m - 1 /\ ~OK(v)
    BY <2>1
  <2>3. v # s
    <3>1. s \in Nodes /\ D[s] = 0 /\ P[s] = 1
      BY <1>4, <1>5
    <3> QED
      BY <2>2, <3>1
  <2>4. P[v] = SumFunctionOnSet(P, Preds(s, v))
    BY <1>5, <2>3
  <2>5. ASSUME NEW u \in Preds(s, v) PROVE P[u] \in Nat /\ P[u] # 0
    <3>1. u \in Nodes /\ D[u] # -1 /\ D[v] = D[u] + 1
      BY <1>1, SuccessorFacts DEF Preds
    <3>2. m - 1 \in Nat /\ D[u] = (m - 1) - 1 /\ m - 1 < m
      BY <1>4, <2>2, <3>1
    <3>3. m - 1 \notin F
      BY <2>1, <3>2
    <3>4. OK(u)
      BY <3>1, <3>2, <3>3
    <3> QED
      BY <3>1, <3>4
  <2>6. IsFiniteSet(Preds(s, v))
    BY NodesAreFinite, FS_Subset DEF Preds
  <2>7. P[v] \in Nat
    BY <2>4, <2>5, <2>6, SumIsNat
  <2>8. CASE D[v] = -1
    <3>1. Preds(s, v) = {}
      BY <1>1, <2>8, SuccessorFacts
    <3> QED
      BY <2>2, <2>4, <2>8, <3>1, SumEmpty
  <2>9. CASE D[v] # -1
    <3>1. D[v] > 0
      BY <1>4, <2>3, <2>9
    <3>2. PICK u \in Preds(s, v) : TRUE
      BY <1>1, <3>1, SuccessorFacts
    <3>3. P[v] = P[u] + SumFunctionOnSet(P, Preds(s, v) \ {u})
      <4>1. \A x \in Preds(s, v) : P[x] \in Int
        BY <2>5
      <4> QED
        BY <2>4, <2>6, <4>1, SumRemove
    <3>4. SumFunctionOnSet(P, Preds(s, v) \ {u}) \in Nat
      <4>1. IsFiniteSet(Preds(s, v) \ {u})
        BY <2>6, FS_RemoveElement
      <4>2. \A x \in Preds(s, v) \ {u} : P[x] \in Nat
        BY <2>5
      <4> QED
        BY <4>1, <4>2, SumIsNat
    <3>5. P[u] \in Nat /\ P[u] # 0
      BY <2>5
    <3>6. P[v] # 0
      BY <3>3, <3>4, <3>5
    <3> QED
      BY <2>2, <2>7, <2>9, <3>6
  <2> QED
    BY <2>8, <2>9
<1>7. \A v \in Nodes : OK(v)
  <2> SUFFICES ASSUME NEW v \in Nodes, ~OK(v) PROVE FALSE
    OBVIOUS
  <2>1. D[v] + 1 \in Nat /\ D[v] = (D[v] + 1) - 1
    BY <1>4
  <2>2. D[v] + 1 \in F
    BY <2>1
  <2> QED
    BY <1>6, <2>2
<1>8. P \in [Nodes -> Nat]
  <2>1. P = [v \in Nodes |-> P[v]]
    BY <1>2, PathCountsAdd
  <2> QED
    BY <1>7, <2>1
<1> QED
  BY <1>1, <1>2, <1>5, <1>7, <1>8

--------------------------------------------------------------------------------
(* What the serial search finds: dependencies.                               *)

(* What v adds to the dependency on u, and their sum over what follows u.    *)
Share(s, D, u) ==
  [v \in Nodes |-> (PathCounts(s)[u] * (kScale + D[v])) \div PathCounts(s)[v]]
Owed(s, D, u) == SumFunctionOnSet(Share(s, D, u), Succs(s, u))

(* Dependencies(s) satisfies it: the dependency on a vertex depends on       *)
(* vertices of a greater depth only.                                         *)
LEMMA DependenciesAdd ==
  ASSUME out_neigh \in [Nodes -> SUBSET Nodes], NEW s \in Nodes
  PROVE  /\ \A u \in Nodes : Dependencies(s)[u] = Owed(s, Dependencies(s), u)
         /\ Dependencies(s) = [u \in Nodes |-> Dependencies(s)[u]]
<1>1. PICK D : D = Depths(s)
  OBVIOUS
<1>2. /\ num_nodes \in Nat /\ IsFiniteSet(Nodes)
      /\ \A v \in Nodes : D[v] \in -1 .. num_nodes
  BY <1>1, DepthFacts, NodesAreFinite
<1>3. ASSUME NEW u \in Nodes
      PROVE  /\ Succs(s, u) \subseteq Nodes /\ IsFiniteSet(Succs(s, u))
             /\ \A v \in Succs(s, u) : D[u] < D[v]
  <2>1. Succs(s, u) \subseteq Nodes
    BY DEF Succs
  <2>2. \A v \in Succs(s, u) : D[v] = D[u] + 1
    BY <1>1, SuccessorFacts DEF Succs
  <2> QED
    BY <1>2, <2>1, <2>2, FS_Subset
<1>4. ASSUME NEW f, NEW g, NEW u \in Nodes, \A v \in Nodes : D[u] < D[v] => f[v] = g[v]
      PROVE  Owed(s, f, u) = Owed(s, g, u)
  <2>1. \A v \in Succs(s, u) : Share(s, f, u)[v] = Share(s, g, u)[v]
    BY <1>3, <1>4 DEF Share
  <2>2. SumFunctionOnSet(Share(s, f, u), Succs(s, u)) = SumFunctionOnSet(Share(s, g, u), Succs(s, u))
    BY <1>3, <2>1, SumDependsOnValues
  <2> QED
    BY <2>2 DEF Owed
<1> DEFINE Solves(f, k) == \A u \in Nodes : num_nodes - D[u] < k => f[u] = Owed(s, f, u)
           F == {k \in Nat : ~\E f : Solves(f, k)}
<1>5. F = {}
  <2> SUFFICES ASSUME F # {} PROVE FALSE
    OBVIOUS
  <2>1. PICK m \in F : \A l \in F : m <= l
    <3>1. F \subseteq Nat
      OBVIOUS
    <3> HIDE DEF F
    <3> QED
      BY <3>1, SmallestNumber
  <2>2. PICK f : \A u \in Nodes : num_nodes - D[u] < m - 1 => f[u] = Owed(s, f, u)
    <3>1. CASE m = 0
      <4>1. \A u \in Nodes : ~(num_nodes - D[u] < m - 1)
        BY <1>2, <3>1
      <4> QED
        BY <4>1
    <3>2. CASE m # 0
      <4>1. m - 1 \in Nat /\ m - 1 \notin F
        BY <2>1, <3>2
      <4> QED
        BY <4>1
    <3> QED
      BY <3>1, <3>2
  <2> DEFINE g == [u \in Nodes |-> IF num_nodes - D[u] = m - 1 THEN Owed(s, f, u) ELSE f[u]]
  <2>3. ASSUME NEW u \in Nodes, num_nodes - D[u] < m PROVE g[u] = Owed(s, g, u)
    <3>1. num_nodes - D[u] <= m - 1 /\ D[u] \in Int /\ m \in Int
      BY <1>2, <2>1, <2>3
    <3>2. \A v \in Nodes : D[u] < D[v] => f[v] = g[v]
      BY <1>2, <3>1
    <3>3. Owed(s, f, u) = Owed(s, g, u)
      <4> HIDE DEF g
      <4> QED
        BY <1>4, <3>2
    <3>4. g[u] = Owed(s, f, u)
      BY <1>2, <2>2, <3>1
    <3> QED
      BY <3>3, <3>4
  <2>4. m \notin F
    <3> HIDE DEF g
    <3> QED
      BY <2>3
  <2> QED
    BY <2>1, <2>4
<1>6. PICK f : \A u \in Nodes : f[u] = Owed(s, f, u)
  <2>1. num_nodes + 2 \in Nat /\ \A u \in Nodes : num_nodes - D[u] < num_nodes + 2
    BY <1>2
  <2> HIDE DEF F
  <2>2. num_nodes + 2 \notin F
    BY <1>5
  <2>3. PICK f : Solves(f, num_nodes + 2)
    BY <2>1, <2>2 DEF F
  <2> QED
    BY <2>1, <2>3
<1> DEFINE Term(e, u, v) == (PathCounts(s)[u] * (kScale + e[v])) \div PathCounts(s)[v]
           Body(e, u) == SumFunction([v \in {x \in Nodes : <<u, x>> \in Successors(s)} |-> Term(e, u, v)])
<1>7. ASSUME NEW e, NEW u \in Nodes PROVE Body(e, u) = Owed(s, e, u)
  <2> DEFINE h == [v \in {x \in Nodes : <<u, x>> \in Successors(s)} |-> Term(e, u, v)]
  <2>1. SumFunction(h) = SumFunctionOnSet(h, Succs(s, u))
    BY DEF SumFunction, Succs
  <2>2. \A v \in Succs(s, u) : h[v] = Share(s, e, u)[v]
    BY DEF Succs, Share
  <2>3. SumFunctionOnSet(h, Succs(s, u)) = SumFunctionOnSet(Share(s, e, u), Succs(s, u))
    <3> HIDE DEF h
    <3> QED
      BY <1>3, <2>2, SumDependsOnValues
  <2> QED
    BY <2>1, <2>3 DEF Owed
<1>8. \E e : e = [u \in Nodes |-> Body(e, u)]
  <2> DEFINE g == [u \in Nodes |-> f[u]]
  <2>1. ASSUME NEW u \in Nodes PROVE g[u] = Body(g, u)
    <3>1. Owed(s, g, u) = Owed(s, f, u)
      <4>1. \A v \in Nodes : g[v] = f[v]
        OBVIOUS
      <4> HIDE DEF g
      <4> QED
        BY <1>4, <4>1
    <3>2. g[u] = f[u]
      OBVIOUS
    <3> HIDE DEF Body, g
    <3> QED
      BY <1>6, <1>7, <3>1, <3>2
  <2>2. g = [u \in Nodes |-> g[u]]
    OBVIOUS
  <2> HIDE DEF Body, g
  <2> QED
    BY <2>1, <2>2
<1>9. Dependencies(s) = [u \in Nodes |-> Body(Dependencies(s), u)]
  BY <1>8 DEF Dependencies
<1> HIDE DEF Body
<1>10. PICK P : P = Dependencies(s)
  OBVIOUS
<1>11. P = [u \in Nodes |-> Body(P, u)]
  BY <1>9, <1>10
<1>12. P = [u \in Nodes |-> P[u]] /\ \A u \in Nodes : P[u] = Body(P, u)
  BY <1>11
<1> QED
  BY <1>7, <1>10, <1>12

(* A share is a natural number.                                              *)
LEMMA ShareTypes ==
  ASSUME out_neigh \in [Nodes -> SUBSET Nodes], NEW s \in Nodes, NEW u \in Nodes,
         NEW D, NEW v \in Succs(s, u), D[v] \in Nat
  PROVE  Share(s, D, u)[v] \in Nat
<1>1. PICK a \in Nat : a = PathCounts(s)[u]
  BY PathCountFacts
<1>2. v \in Nodes /\ Depths(s)[v] # -1
  <2>1. v \in Nodes /\ Depths(s)[u] # -1 /\ Depths(s)[v] = Depths(s)[u] + 1
    BY SuccessorFacts DEF Succs
  <2>2. Depths(s)[u] \in -1 .. num_nodes /\ num_nodes \in Nat
    BY DepthFacts, NodesAreFinite
  <2> QED
    BY <2>1, <2>2
<1>3. PICK b \in Nat \ {0} : b = PathCounts(s)[v]
  BY <1>2, PathCountFacts
<1>4. PICK c \in Nat : c = a * (kScale + D[v])
  <2>1. kScale \in Nat
    BY BCAssumption
  <2> QED
    BY <2>1
<1>5. c \div b \in Nat
  OBVIOUS
<1> QED
  BY <1>1, <1>2, <1>3, <1>4, <1>5 DEF Share

(* What characterises the dependencies.                                      *)
LEMMA DependencyFacts ==
  ASSUME out_neigh \in [Nodes -> SUBSET Nodes], NEW s \in Nodes
  PROVE  /\ Dependencies(s) \in [Nodes -> Nat]
         /\ \A u \in Nodes : Dependencies(s)[u] = Owed(s, Dependencies(s), u)
         /\ \A u \in Nodes : Depths(s)[u] = -1 => Dependencies(s)[u] = 0
<1>1. PICK D : D = Depths(s)
  OBVIOUS
<1>2. PICK P : P = Dependencies(s)
  OBVIOUS
<1>3. (\A u \in Nodes : P[u] = Owed(s, P, u)) /\ P = [u \in Nodes |-> P[u]]
  BY <1>2, DependenciesAdd
<1>4. num_nodes \in Nat /\ \A v \in Nodes : D[v] \in -1 .. num_nodes
  BY <1>1, DepthFacts, NodesAreFinite
<1> DEFINE F == {k \in Nat : \E u \in Nodes : num_nodes - D[u] = k /\ P[u] \notin Nat}
<1>5. F = {}
  <2> SUFFICES ASSUME F # {} PROVE FALSE
    OBVIOUS
  <2>1. PICK m \in F : \A l \in F : m <= l
    <3>1. F \subseteq Nat
      OBVIOUS
    <3> HIDE DEF F
    <3> QED
      BY <3>1, SmallestNumber
  <2>2. PICK u \in Nodes : num_nodes - D[u] = m /\ P[u] \notin Nat
    BY <2>1
  <2>3. ASSUME NEW v \in Succs(s, u) PROVE Share(s, P, u)[v] \in Nat
    <3>1. v \in Nodes /\ D[v] = D[u] + 1
      BY <1>1, SuccessorFacts DEF Succs
    <3>2. num_nodes - D[v] \in Nat /\ num_nodes - D[v] < m
      BY <1>4, <2>2, <3>1
    <3>3. num_nodes - D[v] \notin F
      BY <1>4, <2>1, <3>2
    <3>4. P[v] \in Nat
      BY <3>1, <3>2, <3>3
    <3> QED
      BY <3>4, ShareTypes
  <2>4. IsFiniteSet(Succs(s, u))
    BY NodesAreFinite, FS_Subset DEF Succs
  <2>5. SumFunctionOnSet(Share(s, P, u), Succs(s, u)) \in Nat
    BY <2>3, <2>4, SumIsNat
  <2> QED
    BY <1>3, <2>2, <2>5 DEF Owed
<1>6. ASSUME NEW u \in Nodes PROVE P[u] \in Nat
  <2>1. num_nodes - D[u] \in Nat
    BY <1>4
  <2> QED
    BY <1>5, <2>1
<1>7. ASSUME NEW u \in Nodes, D[u] = -1 PROVE P[u] = 0
  <2>1. Succs(s, u) = {}
    BY <1>1, <1>7, SuccessorFacts
  <2> QED
    BY <1>3, <2>1, SumEmpty DEF Owed
<1> QED
  BY <1>1, <1>2, <1>3, <1>6, <1>7
--------------------------------------------------------------------------------
(* The queue.                                                                *)

(* What a thread's buffer holds.                                             *)
LEMMA BufferFacts ==
  ASSUME QueueTypes, NEW t \in Workers
  PROVE  /\ local_queue[t] \in Seq(Nodes) /\ Len(local_queue[t]) \in Nat
         /\ DOMAIN local_queue[t] = 1 .. Len(local_queue[t])
         /\ \A k \in 1 .. Len(local_queue[t]) : local_queue[t][k] \in Nodes
         /\ copy_start[t] \in Int
  BY DEF QueueTypes, queue!NotFlushing

(* The reserved slots of a thread, as bounds.                                *)
LEMMA ReservedMeans ==
  ASSUME QueueTypes, NEW t \in Workers, NEW i
  PROVE  i \in queue!Reserved(t) <=> /\ copy_start[t] # queue!NotFlushing
                                    /\ i \in Int /\ copy_start[t] <= i
                                    /\ i < copy_start[t] + Len(local_queue[t])
  BY BufferFacts DEF queue!Reserved

(* The written slots, as bounds.                                             *)
LEMMA WrittenMeans ==
  ASSUME NEW i
  PROVE  i \in queue!Written <=> i \in 0 .. shared_in - 1 /\ \A t \in Workers : i \notin queue!Reserved(t)
  BY DEF queue!Written

(* What was pushed since the last slide is in a buffer or behind the window. *)
PendingParts ==
  \A x : x \in queue!Pending <=>
           \/ \E t \in Workers : \E k \in 1 .. Len(local_queue[t]) : local_queue[t][k] = x
           \/ \E i \in queue!Written : i >= shared_out_end /\ shared[i] = x

(* Pending, place by place.                                                  *)
LEMMA PendingMeans == QueueTypes => PendingParts
<1> SUFFICES ASSUME QueueTypes, NEW x
             PROVE  x \in queue!Pending <=>
                      \/ \E t \in Workers : \E k \in 1 .. Len(local_queue[t]) : local_queue[t][k] = x
                      \/ \E i \in queue!Written : i >= shared_out_end /\ shared[i] = x
  BY DEF PendingParts
<1>1. x \in queue!Buffered <=> \E t \in Workers : \E k \in 1 .. Len(local_queue[t]) : local_queue[t][k] = x
  BY BufferFacts DEF queue!Buffered, queue!ToSet
<1>2. \A i \in queue!Written : i \notin 0 .. shared_out_end - 1 <=> i >= shared_out_end
  BY DEF queue!Written, QueueTypes
<1> QED
  BY <1>1, <1>2 DEF queue!Pending

(* The queue keeps NoItemTwice, in the form the proofs use.                  *)
LEMMA OnePlaceEachIsNoItemTwice ==
  ASSUME QueueTypes
  PROVE  OnePlaceEach <=> queue!NoItemTwice
<1>1. ASSUME NEW x PROVE x \in queue!Buffered <=> \E t \in Workers : \E k \in 1 .. Len(local_queue[t]) : local_queue[t][k] = x
  BY BufferFacts DEF queue!Buffered, queue!ToSet
<1>2. ASSUME NEW t \in Workers
      PROVE  queue!IsInjective(local_queue[t]) <=>
                \A k, l \in 1 .. Len(local_queue[t]) : local_queue[t][k] = local_queue[t][l] => k = l
  BY BufferFacts DEF queue!IsInjective
<1>3. ASSUME NEW t \in Workers, NEW u \in Workers
      PROVE  queue!ToSet(local_queue[t]) \cap queue!ToSet(local_queue[u]) = {} <=>
                \A k \in 1 .. Len(local_queue[t]), l \in 1 .. Len(local_queue[u]) :
                   local_queue[t][k] # local_queue[u][l]
  BY BufferFacts DEF queue!ToSet
<1>4. ASSUME OnePlaceEach PROVE queue!NoItemTwice
  <2>1. \A i \in queue!Written : shared[i] \in Nodes \ queue!Buffered
    BY <1>1, <1>4 DEF OnePlaceEach
  <2>2. \A t \in Workers : queue!IsInjective(local_queue[t])
    BY <1>2, <1>4 DEF OnePlaceEach
  <2>3. \A t, u \in Workers : t # u => queue!ToSet(local_queue[t]) \cap queue!ToSet(local_queue[u]) = {}
    BY <1>3, <1>4 DEF OnePlaceEach
  <2>4. \A i, j \in queue!Written : shared[i] = shared[j] => i = j
    BY <1>4 DEF OnePlaceEach
  <2> QED
    BY <2>1, <2>2, <2>3, <2>4 DEF queue!NoItemTwice
<1>5. ASSUME queue!NoItemTwice PROVE OnePlaceEach
  <2>1. \A i \in queue!Written : shared[i] \in Nodes /\ shared[i] \notin queue!Buffered
    BY <1>5 DEF queue!NoItemTwice
  <2>2. \A i, j \in queue!Written : shared[i] = shared[j] => i = j
    BY <1>5 DEF queue!NoItemTwice
  <2>3. \A i \in queue!Written, t \in Workers : \A k \in 1 .. Len(local_queue[t]) : local_queue[t][k] # shared[i]
    BY <1>1, <2>1
  <2>4. ASSUME NEW t \in Workers, NEW u \in Workers, NEW k \in 1 .. Len(local_queue[t]), NEW l \in 1 .. Len(local_queue[u]),
               local_queue[t][k] = local_queue[u][l]
        PROVE  t = u /\ k = l
    <3>1. t = u
      BY <1>3, <1>5, <2>4 DEF queue!NoItemTwice
    <3> QED
      BY <1>2, <1>5, <2>4, <3>1 DEF queue!NoItemTwice
  <2> QED
    BY <2>1, <2>2, <2>3, <2>4 DEF OnePlaceEach
<1> QED
  BY <1>4, <1>5

(* NeverOverflows: the slots in use hold different items.                    *)
LEMMA SlotsSuffice ==
  ASSUME QOK
  PROVE  shared_in <= num_nodes
<1> DEFINE Owner(j) == CHOOSE t \in Workers : j \in queue!Reserved(t)
           Content == [j \in 0 .. shared_in - 1 |->
                         IF j \in queue!Written THEN shared[j]
                         ELSE local_queue[Owner(j)][j - copy_start[Owner(j)] + 1]]
<1> USE DEF QOK
<1>1. ASSUME NEW j \in 0 .. shared_in - 1, j \notin queue!Written
      PROVE  Owner(j) \in Workers /\ j \in queue!Reserved(Owner(j))
  BY <1>1, WrittenMeans
<1>2. ASSUME NEW j \in 0 .. shared_in - 1, j \notin queue!Written
      PROVE  /\ j - copy_start[Owner(j)] + 1 \in 1 .. Len(local_queue[Owner(j)])
             /\ copy_start[Owner(j)] \in Int
  <2> HIDE DEF Owner
  <2> QED BY <1>1, <1>2, ReservedMeans, BufferFacts
<1>3. Content \in [0 .. shared_in - 1 -> Nodes]
  <2>1. ASSUME NEW j \in 0 .. shared_in - 1 PROVE Content[j] \in Nodes
    <3>1. CASE j \in queue!Written
      BY <3>1 DEF OnePlaceEach
    <3>2. CASE j \notin queue!Written
      <4> HIDE DEF Owner
      <4> QED BY <3>2, <1>1, <1>2, BufferFacts
    <3> QED BY <3>1, <3>2
  <2> QED
    BY <2>1
<1>4. ASSUME NEW i \in 0 .. shared_in - 1, NEW j \in 0 .. shared_in - 1, Content[i] = Content[j]
      PROVE  i = j
  <2> HIDE DEF Owner
  <2>1. CASE i \in queue!Written /\ j \in queue!Written
    BY <1>4, <2>1 DEF OnePlaceEach
  <2>2. CASE i \notin queue!Written /\ j \notin queue!Written
    <3>1. ASSUME NEW x \in 0 .. shared_in - 1, x \notin queue!Written
          PROVE  \E t \in Workers : \E k \in 1 .. Len(local_queue[t]) :
                    x = k + copy_start[t] - 1 /\ Content[x] = local_queue[t][k]
      <4>1. x = (x - copy_start[Owner(x)] + 1) + copy_start[Owner(x)] - 1
        BY <1>2, <3>1
      <4> QED
        BY <1>1, <1>2, <3>1, <4>1
    <3>2. PICK t \in Workers : \E k \in 1 .. Len(local_queue[t]) :
                    i = k + copy_start[t] - 1 /\ Content[i] = local_queue[t][k]
      BY <2>2, <3>1
    <3>3. PICK u \in Workers : \E l \in 1 .. Len(local_queue[u]) :
                    j = l + copy_start[u] - 1 /\ Content[j] = local_queue[u][l]
      BY <2>2, <3>1
    <3> HIDE DEF Content
    <3> QED
      BY <1>4, <3>2, <3>3 DEF OnePlaceEach
  <2>3. ASSUME NEW x \in 0 .. shared_in - 1, NEW y \in 0 .. shared_in - 1,
               x \in queue!Written, y \notin queue!Written
        PROVE  Content[x] # Content[y]
    BY <1>1, <1>2, <2>3 DEF OnePlaceEach
  <2> QED
    BY <1>4, <2>1, <2>2, <2>3
<1>5. shared_in \in Nat /\ num_nodes \in Nat
  BY BCAssumption DEF QueueTypes
<1>6. IsFiniteSet(0 .. shared_in - 1) /\ Cardinality(0 .. shared_in - 1) = shared_in
  BY <1>5, FS_Interval
<1>7. IsFiniteSet(Nodes) /\ Cardinality(Nodes) = num_nodes
  BY <1>5, FS_Interval DEF Nodes
<1>8. Content \in Injection(0 .. shared_in - 1, Nodes)
  <2> HIDE DEF Content
  <2> QED BY <1>3, <1>4 DEF Injection, IsInjective
<1> HIDE DEF Content
<1> QED
  BY <1>6, <1>7, <1>8, FS_Injection

(* The queue is sized for every vertex (bc.cc:103).                          *)
LEMMA SharedSize == queue!shared_size = num_nodes /\ num_nodes \in Nat \ {0}
<1>1. num_nodes \in Nat \ {0}
  BY BCAssumption
<1>2. queue!Cardinality(Nodes) = Cardinality(Nodes)
  BY DEF queue!Cardinality, Cardinality
<1> QED
  BY <1>1, <1>2, FS_Interval DEF queue!shared_size, Nodes

(* push_back into the buffer                                                 *)
LEMMA PushKeepsQueue ==
  ASSUME QOK, NEW t \in Workers, NEW x \in Nodes, queue!LocalPush(t, x),
         x \notin queue!Pending, \A i \in 0 .. shared_out_end - 1 : shared[i] # x
  PROVE  QOK' /\ queue!Pending' = queue!Pending \cup {x}
<1> USE DEF QOK
<1>1. /\ copy_start[t] = queue!NotFlushing
      /\ local_queue' = [local_queue EXCEPT ![t] = Append(@, x)]
      /\ UNCHANGED <<shared, shared_in, shared_out_start, shared_out_end, copy_start>>
  BY DEF queue!LocalPush
<1>2. /\ Len(local_queue'[t]) = Len(local_queue[t]) + 1 /\ local_queue'[t] \in Seq(Nodes)
      /\ \A k \in 1 .. Len(local_queue[t]) : local_queue'[t][k] = local_queue[t][k]
      /\ local_queue'[t][Len(local_queue[t]) + 1] = x
      /\ \A u \in Workers \ {t} : local_queue'[u] = local_queue[u]
  BY <1>1, BufferFacts DEF QueueTypes
<1>3. QueueTypes'
  BY <1>1, <1>2 DEF QueueTypes, queue!Slots, queue!NotFlushing
<1>4. \A u \in Workers : queue!Reserved(u)' = queue!Reserved(u)
  BY <1>1, <1>2 DEF queue!Reserved
<1>5. queue!Written' = queue!Written
  BY <1>1, <1>4 DEF queue!Written
<1>6. \A u \in Workers : \A k \in 1 .. Len(local_queue'[u]) :
         \/ k \in 1 .. Len(local_queue[u]) /\ local_queue'[u][k] = local_queue[u][k]
         \/ u = t /\ k = Len(local_queue[t]) + 1 /\ local_queue'[u][k] = x
  BY <1>2, BufferFacts
<1>7. /\ \A u \in Workers : \A k \in 1 .. Len(local_queue[u]) : local_queue[u][k] # x
      /\ \A i \in queue!Written : shared[i] # x
  <2>1. \A i \in queue!Written : i \in 0 .. shared_out_end - 1 \/ i >= shared_out_end
    BY WrittenMeans DEF QueueTypes
  <2> QED
    BY <2>1, PendingMeans DEF PendingParts
<1>8. OnePlaceEach'
  BY <1>1, <1>5, <1>6, <1>7 DEF OnePlaceEach
<1>9. queue!FlushesAreDisjoint'
  BY <1>1, <1>4 DEF queue!FlushesAreDisjoint
<1>10. (QueueTypes => PendingParts)'
  BY PendingMeans, PTL
<1>11. queue!Pending' = queue!Pending \cup {x}
  <2>1. ASSUME NEW y PROVE y \in queue!Pending' <=> y \in queue!Pending \/ y = x
    <3>1. y \in queue!Pending' <=>
           \/ \E u \in Workers : \E k \in 1 .. Len(local_queue'[u]) : local_queue'[u][k] = y
           \/ \E i \in queue!Written : i >= shared_out_end /\ shared[i] = y
      BY <1>1, <1>3, <1>5, <1>10 DEF PendingParts
    <3>2. y \in queue!Pending <=>
           \/ \E u \in Workers : \E k \in 1 .. Len(local_queue[u]) : local_queue[u][k] = y
           \/ \E i \in queue!Written : i >= shared_out_end /\ shared[i] = y
      BY PendingMeans DEF PendingParts
    <3>3. (\E u \in Workers : \E k \in 1 .. Len(local_queue'[u]) : local_queue'[u][k] = y)
            <=> (\E u \in Workers : \E k \in 1 .. Len(local_queue[u]) : local_queue[u][k] = y) \/ y = x
      <4>1. t \in Workers /\ Len(local_queue[t]) + 1 \in 1 .. Len(local_queue'[t])
        BY <1>2, BufferFacts
      <4>2. \A u \in Workers : \A k \in 1 .. Len(local_queue[u]) :
               k \in 1 .. Len(local_queue'[u]) /\ local_queue'[u][k] = local_queue[u][k]
        BY <1>2, BufferFacts
      <4> QED
        BY <1>2, <1>6, <4>1, <4>2
    <3> QED
      BY <3>1, <3>2, <3>3
  <2> QED
    BY <2>1
<1> QED
  BY <1>3, <1>8, <1>9, <1>11

(* fetch_and_add                                                             *)
LEMMA ReserveKeepsQueue ==
  ASSUME QOK, NEW t \in Workers, queue!Reserve(t)
  PROVE  /\ QOK' /\ queue!Pending' = queue!Pending
         /\ shared_in' = shared_in + Len(local_queue[t])
<1> USE DEF QOK
<1>1. /\ copy_start[t] = queue!NotFlushing
      /\ copy_start' = [copy_start EXCEPT ![t] = shared_in]
      /\ shared_in' = shared_in + Len(local_queue[t])
      /\ UNCHANGED <<shared, shared_out_start, shared_out_end, local_queue>>
      /\ Len(local_queue[t]) \in Nat
  BY BufferFacts DEF queue!Reserve
<1>2. QueueTypes'
  BY <1>1 DEF QueueTypes, queue!Slots, queue!NotFlushing
<1>3. /\ \A u \in Workers \ {t} : queue!Reserved(u)' = queue!Reserved(u)
      /\ queue!Reserved(t) = {} /\ queue!Reserved(t)' = shared_in .. shared_in' - 1
  BY <1>1 DEF queue!Reserved, QueueTypes, queue!NotFlushing
<1>4. \A u \in Workers : queue!Reserved(u) \subseteq shared_out_end .. shared_in - 1
  BY DEF queue!FlushesAreDisjoint
<1>5. queue!Written' = queue!Written
  <2>1. queue!Written' = (0 .. shared_in' - 1) \ UNION {queue!Reserved(u)' : u \in Workers}
    BY DEF queue!Written
  <2>2. ASSUME NEW i PROVE i \in queue!Written' <=> i \in queue!Written
    <3>1. i \in queue!Written' <=> /\ i \in 0 .. shared_in' - 1
                                  /\ \A u \in Workers : i \notin queue!Reserved(u)'
      BY <2>1
    <3>2. i \in queue!Reserved(t)' <=> i \in shared_in .. shared_in' - 1
      BY <1>3
    <3>3. \A u \in Workers \ {t} : i \in queue!Reserved(u)' <=> i \in queue!Reserved(u)
      BY <1>3
    <3>4. i \in 0 .. shared_in - 1 <=> i \in 0 .. shared_in' - 1 /\ i \notin shared_in .. shared_in' - 1
      BY <1>1 DEF QueueTypes
    <3> QED
      BY <1>3, <3>1, <3>2, <3>3, <3>4, WrittenMeans
  <2> QED
    BY <2>2
<1>6. OnePlaceEach'
  BY <1>1, <1>5 DEF OnePlaceEach
<1>7. queue!FlushesAreDisjoint'
  <2>1. /\ shared_out_end .. shared_in - 1 \subseteq shared_out_end' .. shared_in' - 1
        /\ queue!Reserved(t)' \subseteq shared_out_end' .. shared_in' - 1
        /\ queue!Reserved(t)' \cap (shared_out_end .. shared_in - 1) = {}
    BY <1>1, <1>3 DEF QueueTypes
  <2>2. \A u \in Workers : queue!Reserved(u)' \subseteq shared_out_end' .. shared_in' - 1
    BY <1>3, <1>4, <2>1
  <2>3. \A u \in Workers \ {t} : queue!Reserved(t)' \cap queue!Reserved(u)' = {}
    BY <1>3, <1>4, <2>1
  <2>4. \A u, v \in Workers \ {t} : u # v => queue!Reserved(u)' \cap queue!Reserved(v)' = {}
    BY <1>3 DEF queue!FlushesAreDisjoint
  <2> QED
    BY <2>2, <2>3, <2>4 DEF queue!FlushesAreDisjoint
<1>8. queue!Pending' = queue!Pending
  <2>1. (QueueTypes => PendingParts)'
    BY PendingMeans, PTL
  <2>2. \A y : y \in queue!Pending' <=> y \in queue!Pending
    BY <1>1, <1>2, <1>5, <2>1, PendingMeans DEF PendingParts
  <2> QED
    BY <2>2
<1> QED
  BY <1>1, <1>2, <1>6, <1>7, <1>8

(* std::copy                                                                 *)
LEMMA CopyKeepsQueue ==
  ASSUME QOK, NEW t \in Workers, queue!CopyOut(t)
  PROVE  /\ QOK' /\ queue!Pending' = queue!Pending
         /\ \A i \in 0 .. shared_out_end - 1 : shared'[i] = shared[i]
<1> USE DEF QOK
<1> DEFINE b == copy_start[t]
<1>1. /\ copy_start[t] # queue!NotFlushing
      /\ shared' = [i \in queue!Slots |-> IF i \in queue!Reserved(t) THEN local_queue[t][i - b + 1] ELSE shared[i]]
      /\ local_queue' = [local_queue EXCEPT ![t] = <<>>]
      /\ copy_start' = [copy_start EXCEPT ![t] = queue!NotFlushing]
      /\ UNCHANGED <<shared_in, shared_out_start, shared_out_end>>
      /\ Len(local_queue[t]) \in Nat /\ b \in Nat
  BY BufferFacts DEF queue!CopyOut, QueueTypes
<1>2. /\ \A u \in Workers \ {t} : queue!Reserved(u)' = queue!Reserved(u)
      /\ queue!Reserved(t)' = {} /\ queue!Reserved(t) = b .. b + Len(local_queue[t]) - 1
  BY <1>1 DEF queue!Reserved, QueueTypes, queue!NotFlushing
<1>3. \A u \in Workers : queue!Reserved(u) \subseteq shared_out_end .. shared_in - 1
  BY DEF queue!FlushesAreDisjoint
<1>4. shared_in <= num_nodes /\ queue!Slots = 0 .. num_nodes - 1 /\ num_nodes \in Nat
  BY SlotsSuffice, SharedSize DEF queue!Slots
<1>5. ASSUME NEW i \in queue!Reserved(t)
      PROVE  /\ i \in queue!Slots /\ i - b + 1 \in 1 .. Len(local_queue[t]) /\ i \in Int /\ i >= shared_out_end
             /\ shared'[i] = local_queue[t][i - b + 1]
  <2>1. i \in shared_out_end .. shared_in - 1 /\ i \in b .. b + Len(local_queue[t]) - 1
    BY <1>2, <1>3
  <2>2. i \in queue!Slots /\ i - b + 1 \in 1 .. Len(local_queue[t])
    BY <1>1, <1>4, <2>1 DEF QueueTypes
  <2> QED
    BY <1>1, <2>1, <2>2
<1>6. ASSUME NEW i \in queue!Slots, i \notin queue!Reserved(t) PROVE shared'[i] = shared[i]
  BY <1>1, <1>6
<1>7. ASSUME NEW i PROVE i \in queue!Written' <=> i \in queue!Written \/ i \in queue!Reserved(t)
  <2>1. queue!Written' = (0 .. shared_in' - 1) \ UNION {queue!Reserved(u)' : u \in Workers}
    BY DEF queue!Written
  <2>2. \A u \in Workers \ {t} : queue!Reserved(t) \cap queue!Reserved(u) = {}
    BY DEF queue!FlushesAreDisjoint
  <2>3. i \in queue!Reserved(t) => i \in 0 .. shared_in - 1
    BY <1>3 DEF QueueTypes
  <2> QED
    BY <1>1, <1>2, <2>1, <2>2, <2>3, WrittenMeans
<1>8. \A i \in queue!Written : i \in queue!Slots /\ i \notin queue!Reserved(t)
  BY <1>4, WrittenMeans DEF QueueTypes
<1>9. \A u \in Workers : \A k \in 1 .. Len(local_queue'[u]) :
         u # t /\ k \in 1 .. Len(local_queue[u]) /\ local_queue'[u][k] = local_queue[u][k]
  <2>1. Len(local_queue'[t]) = 0
    BY <1>1 DEF QueueTypes
  <2> QED
    BY <1>1, <2>1, BufferFacts DEF QueueTypes
<1>10. QueueTypes'
  <2>1. shared' \in [queue!Slots -> Nodes \cup {Garbage}]
    <3>1. ASSUME NEW i \in queue!Slots PROVE shared'[i] \in Nodes \cup {Garbage}
      BY <1>5, <1>6, BufferFacts DEF QueueTypes
    <3>2. shared' = [i \in queue!Slots |-> shared'[i]]
      BY <1>1
    <3> QED
      BY <3>1, <3>2
  <2>2. queue!Slots' = queue!Slots
    BY DEF queue!Slots
  <2>3. local_queue' \in [Workers -> Seq(Nodes)] /\ copy_start' \in [Workers -> Nat \cup {queue!NotFlushing}]
    BY <1>1 DEF QueueTypes
  <2> QED
    BY <1>1, <2>1, <2>2, <2>3 DEF QueueTypes
<1> HIDE DEF b
<1>11. OnePlaceEach'
  <2>1. ASSUME NEW i, i \in queue!Written'
        PROVE  \/ i \in queue!Written /\ shared'[i] = shared[i]
               \/ i \in queue!Reserved(t) /\ i - b + 1 \in 1 .. Len(local_queue[t])
                  /\ i \in Int /\ shared'[i] = local_queue[t][i - b + 1]
    BY <1>5, <1>6, <1>7, <1>8, <2>1
  <2>2. \A i \in queue!Written' : shared'[i] \in Nodes
    BY <2>1, BufferFacts DEF OnePlaceEach
  <2>3. ASSUME NEW i \in queue!Written', NEW j \in queue!Written', shared'[i] = shared'[j]
        PROVE  i = j
    <3>a. \A k, l \in 1 .. Len(local_queue[t]) : local_queue[t][k] = local_queue[t][l] => k = l
      BY DEF OnePlaceEach
    <3>b. \A m \in queue!Written : \A k \in 1 .. Len(local_queue[t]) : local_queue[t][k] # shared[m]
      BY DEF OnePlaceEach
    <3>c. \A m, n \in queue!Written : shared[m] = shared[n] => m = n
      BY DEF OnePlaceEach
    <3>1. CASE i \in queue!Written /\ shared'[i] = shared[i]
      <4>1. CASE j \in queue!Written /\ shared'[j] = shared[j]
        BY <2>3, <3>1, <3>c, <4>1
      <4>2. CASE /\ j - b + 1 \in 1 .. Len(local_queue[t])
                 /\ j \in Int /\ shared'[j] = local_queue[t][j - b + 1]
        BY <2>3, <3>1, <3>b, <4>2
      <4> QED
        BY <2>1, <4>1, <4>2
    <3>2. CASE /\ i - b + 1 \in 1 .. Len(local_queue[t])
               /\ i \in Int /\ shared'[i] = local_queue[t][i - b + 1]
      <4>1. CASE j \in queue!Written /\ shared'[j] = shared[j]
        BY <2>3, <3>2, <3>b, <4>1
      <4>2. CASE /\ j - b + 1 \in 1 .. Len(local_queue[t])
                 /\ j \in Int /\ shared'[j] = local_queue[t][j - b + 1]
        <5>1. i - b + 1 = j - b + 1
          BY <2>3, <3>2, <3>a, <4>2
        <5> QED
          BY <1>1, <3>2, <4>2, <5>1
      <4> QED
        BY <2>1, <4>1, <4>2
    <3> QED
      BY <2>1, <3>1, <3>2
  <2>4. ASSUME NEW i \in queue!Written', NEW u \in Workers, NEW k \in 1 .. Len(local_queue'[u])
        PROVE  local_queue'[u][k] # shared'[i]
    BY <1>9, <2>1 DEF OnePlaceEach
  <2>5. \A u, w \in Workers : \A k \in 1 .. Len(local_queue'[u]), l \in 1 .. Len(local_queue'[w]) :
           local_queue'[u][k] = local_queue'[w][l] => u = w /\ k = l
    BY <1>9 DEF OnePlaceEach
  <2> QED
    BY <2>2, <2>3, <2>4, <2>5 DEF OnePlaceEach
<1>12. queue!FlushesAreDisjoint'
  BY <1>1, <1>2, <1>3 DEF queue!FlushesAreDisjoint, QueueTypes
<1>13. queue!Pending' = queue!Pending
  <2>1. (QueueTypes => PendingParts)'
    BY PendingMeans, PTL
  <2>2. ASSUME NEW y PROVE y \in queue!Pending' <=>
           \/ \E u \in Workers : \E k \in 1 .. Len(local_queue'[u]) : local_queue'[u][k] = y
           \/ \E i \in queue!Written' : i >= shared_out_end /\ shared'[i] = y
    BY <1>1, <1>10, <2>1 DEF PendingParts
  <2>3. ASSUME NEW y PROVE y \in queue!Pending <=>
           \/ \E u \in Workers : \E k \in 1 .. Len(local_queue[u]) : local_queue[u][k] = y
           \/ \E i \in queue!Written : i >= shared_out_end /\ shared[i] = y
    BY PendingMeans DEF PendingParts
  <2>4. ASSUME NEW y, y \in queue!Pending PROVE y \in queue!Pending'
    <3>1. CASE \E i \in queue!Written : i >= shared_out_end /\ shared[i] = y
      BY <1>6, <1>7, <1>8, <2>2, <3>1
    <3>2. ASSUME NEW u \in Workers, NEW k \in 1 .. Len(local_queue[u]), local_queue[u][k] = y, u # t
          PROVE  y \in queue!Pending'
      <4>1. local_queue'[u] = local_queue[u]
        BY <1>1, <3>2 DEF QueueTypes
      <4> QED
        BY <2>2, <3>2, <4>1
    <3>3. ASSUME NEW k \in 1 .. Len(local_queue[t]), local_queue[t][k] = y
          PROVE  y \in queue!Pending'
      <4>1. b + k - 1 \in queue!Reserved(t) /\ (b + k - 1) - b + 1 = k
        BY <1>1, <1>2 DEF b
      <4>2. shared'[b + k - 1] = y /\ b + k - 1 \in queue!Written' /\ b + k - 1 >= shared_out_end
        BY <1>5, <1>7, <3>3, <4>1
      <4> QED
        BY <2>2, <4>2
    <3> QED
      BY <2>3, <2>4, <3>1, <3>2, <3>3
  <2>5. ASSUME NEW y, y \in queue!Pending' PROVE y \in queue!Pending
    <3>1. ASSUME NEW u \in Workers, NEW k \in 1 .. Len(local_queue'[u]), local_queue'[u][k] = y
          PROVE  y \in queue!Pending
      BY <1>9, <2>3, <3>1
    <3>2. ASSUME NEW i \in queue!Written', i >= shared_out_end, shared'[i] = y
          PROVE  y \in queue!Pending
      <4>1. CASE i \in queue!Reserved(t)
        BY <1>5, <2>3, <3>2, <4>1
      <4>2. CASE i \in queue!Written
        BY <1>6, <1>8, <2>3, <3>2, <4>2
      <4> QED
        BY <1>7, <4>1, <4>2
    <3> QED
      BY <2>2, <2>5, <3>1, <3>2
  <2> QED
    BY <2>4, <2>5
<1>14. \A i \in 0 .. shared_out_end - 1 : shared'[i] = shared[i]
  BY <1>3, <1>4, <1>6 DEF QueueTypes
<1> QED
  BY <1>10, <1>11, <1>12, <1>13, <1>14

(* slide_window                                                              *)
LEMMA SlideKeepsQueue ==
  ASSUME QOK, queue!slide_window,
         \A t \in Workers : copy_start[t] = queue!NotFlushing /\ local_queue[t] = <<>>
  PROVE  QOK' /\ queue!Pending' = {} /\ queue!Window' = queue!Pending
<1> USE DEF QOK
<1>1. /\ shared_out_start' = shared_out_end /\ shared_out_end' = shared_in
      /\ UNCHANGED <<shared, shared_in, local_queue, copy_start>>
  BY DEF queue!slide_window
<1>2. QueueTypes'
  BY <1>1 DEF QueueTypes, queue!Slots
<1>3. \A t \in Workers : queue!Reserved(t) = {} /\ queue!Reserved(t)' = {}
  BY <1>1 DEF queue!Reserved
<1>4. queue!Written = 0 .. shared_in - 1 /\ queue!Written' = 0 .. shared_in - 1
  BY <1>1, <1>3 DEF queue!Written
<1>5. OnePlaceEach'
  BY <1>1, <1>4 DEF OnePlaceEach
<1>6. queue!FlushesAreDisjoint'
  BY <1>3 DEF queue!FlushesAreDisjoint
<1>7. \A t \in Workers : 1 .. Len(local_queue[t]) = {}
  OBVIOUS
<1>8. queue!Pending' = {}
  <2>1. (QueueTypes => PendingParts)'
    BY PendingMeans, PTL
  <2> QED
    BY <1>1, <1>2, <1>4, <1>7, <2>1 DEF PendingParts, QueueTypes
<1>9. queue!Window' = queue!Pending
  <2>1. queue!Window' = {shared[i] : i \in shared_out_end .. shared_in - 1}
    BY <1>1 DEF queue!Window, queue!WindowSlots
  <2>2. \A y : y \in queue!Pending <=> \E i \in shared_out_end .. shared_in - 1 : shared[i] = y
    BY <1>4, <1>7, PendingMeans DEF PendingParts, QueueTypes
  <2> QED
    BY <2>1, <2>2
<1> QED
  BY <1>2, <1>5, <1>6, <1>8, <1>9

(* reset, push_back and slide_window of the source                           *)
LEMMA FirstPushKeepsQueue ==
  ASSUME QueueTypes, NEW x \in Nodes, queue!reset_push_back_and_slide(x),
         \A t \in Workers : copy_start[t] = queue!NotFlushing /\ local_queue[t] = <<>>
  PROVE  /\ QOK' /\ queue!Pending' = {} /\ queue!Window' = {x}
         /\ shared_in' = 1 /\ shared_out_start' = 0 /\ shared_out_end' = 1 /\ shared'[0] = x
         /\ UNCHANGED <<local_queue, copy_start>>
<1>1. /\ shared' = [shared EXCEPT ![0] = x]
      /\ shared_in' = 1 /\ shared_out_start' = 0 /\ shared_out_end' = 1
      /\ UNCHANGED <<local_queue, copy_start>>
  BY DEF queue!reset_push_back_and_slide, queue!PushAndSlide
<1>2. queue!Slots = 0 .. num_nodes - 1 /\ 0 \in queue!Slots
  BY SharedSize DEF queue!Slots
<1>3. shared'[0] = x /\ QueueTypes'
  BY <1>1, <1>2 DEF QueueTypes, queue!Slots
<1>4. \A t \in Workers : queue!Reserved(t)' = {}
  BY <1>1 DEF queue!Reserved
<1>5. queue!Written' = {0}
  BY <1>1, <1>4 DEF queue!Written
<1>6. \A t \in Workers : 1 .. Len(local_queue'[t]) = {}
  BY <1>1
<1>7. OnePlaceEach'
  BY <1>3, <1>5, <1>6 DEF OnePlaceEach
<1>8. queue!FlushesAreDisjoint'
  BY <1>4 DEF queue!FlushesAreDisjoint
<1>9. queue!Pending' = {}
  <2>1. (QueueTypes => PendingParts)'
    BY PendingMeans, PTL
  <2> QED
    BY <1>1, <1>3, <1>5, <1>6, <2>1 DEF PendingParts
<1>10. queue!Window' = {x}
  BY <1>1, <1>3 DEF queue!Window, queue!WindowSlots
<1> QED
  BY <1>1, <1>3, <1>7, <1>8, <1>9, <1>10 DEF QOK

--------------------------------------------------------------------------------
(* What the steps of a thread of the search leave alone.                     *)

(* What main and the arguments are, and what lies before the end of the      *)
(* window.                                                                   *)
Frame ==
  /\ pc = "bfs"
  /\ UNCHANGED <<args, main_vars, shared_out_start, shared_out_end>>
  /\ \A i \in 0 .. shared_out_end - 1 : shared'[i] = shared[i]

(* A thread keeps its place in the schedule, what it has marked and counted, *)
(* and what it does with the queue.                                          *)
KeepsPlace(x) ==
  /\ my'[x].i = my[x].i
  /\ my'[x].end = my[x].end
  /\ Busy(x)' => Busy(x) /\ (my'[x].u = my[x].u)

KeepsHeld(x) ==
  /\ Held(x)' = Held(x)
  /\ Held(x) # {} => (my'[x].u = my[x].u)

KeepsCount(x) ==
  /\ (my'[x].pc = "count") <=> (my[x].pc = "count")
  /\ (my[x].pc = "count") => (my'[x].u = my[x].u) /\ (my'[x].v = my[x].v)

KeepsMarks(x) == KeepsHeld(x) /\ KeepsCount(x)

KeepsPush(x) ==
  /\ Pushing(x)' <=> Pushing(x)
  /\ Pushing(x) => (my'[x].v = my[x].v)

KeepsBuffer(x) ==
  /\ KeepsPush(x)
  /\ (my'[x].pc \in {"copy", "lastcopy"}) <=> (my[x].pc \in {"copy", "lastcopy"})
  /\ (my'[x].pc \in {"while", "barrier", "done"}) => (my[x].pc \in {"while", "barrier", "done"})

(* A thread whose local variables do not change keeps all of these.          *)
LEMMA ThoseWhoStay ==
  ASSUME NEW x, my'[x] = my[x]
  PROVE  KeepsPlace(x) /\ KeepsMarks(x) /\ KeepsBuffer(x)
  BY DEF KeepsPlace, KeepsMarks, KeepsHeld, KeepsCount, KeepsPush, KeepsBuffer, Busy, Held, Pushing

(* What the serial search finds depends on the graph and the source.         *)
LEMMA StaticStays ==
  ASSUME UNCHANGED out_neigh, NEW s
  PROVE  /\ Depths(s)' = Depths(s) /\ Successors(s)' = Successors(s)
         /\ PathCounts(s)' = PathCounts(s) /\ Dependencies(s)' = Dependencies(s)
<1>1. Ball(s)' = Ball(s)
  BY DEF Ball
<1>2. Depths(s)' = Depths(s)
  BY <1>1 DEF Depths
<1>3. Successors(s)' = Successors(s)
  BY <1>2 DEF Successors
<1>4. PathCounts(s)' = PathCounts(s)
  BY <1>3 DEF PathCounts
<1>5. Dependencies(s)' = Dependencies(s)
  BY <1>3, <1>4 DEF Dependencies
<1> QED
  BY <1>2, <1>3, <1>4, <1>5

(* An iteration's source, and what the search from it finds.                 *)
LEMMA RootStays ==
  ASSUME UNCHANGED <<args, iter>>
  PROVE  /\ root' = root /\ Dist' = Dist /\ Edges' = Edges /\ Counts' = Counts
         /\ \A k : Level(k)' = Level(k)
<1>1. PICK s : s = root
  OBVIOUS
<1>2. root' = s
  BY <1>1 DEF root, args
<1>3. /\ Depths(s)' = Depths(s) /\ Successors(s)' = Successors(s)
      /\ PathCounts(s)' = PathCounts(s)
  BY StaticStays DEF args
<1>4. Dist' = Depths(s)' /\ Edges' = Successors(s)' /\ Counts' = PathCounts(s)'
  BY <1>2 DEF Dist, Edges, Counts
<1>5. Dist = Depths(s) /\ Edges = Successors(s) /\ Counts = PathCounts(s)
  BY <1>1 DEF Dist, Edges, Counts
<1>6. Dist' = Dist
  BY <1>3, <1>4, <1>5
<1>7. \A k : Level(k)' = Level(k)
  BY <1>6 DEF Level
<1> QED
  BY <1>1, <1>2, <1>3, <1>4, <1>5, <1>6, <1>7

(* The facts about the serial search from this iteration's source.           *)
LEMMA RootFacts ==
  ASSUME Types, iter > 0
  PROVE  /\ root \in Nodes
         /\ Dist \in [Nodes -> Int]
         /\ \A v \in Nodes : Dist[v] \in -1 .. num_nodes
         /\ \A v \in Nodes : Dist[v] = 0 <=> v = root
         /\ \A u \in Nodes : \A v \in out_neigh[u] : Dist[u] # -1 => Dist[v] # -1 /\ Dist[v] <= Dist[u] + 1
         /\ \A v \in Nodes : Dist[v] > 0 => \E u \in Nodes : v \in out_neigh[u] /\ Dist[u] = Dist[v] - 1
         /\ \A u, v : <<u, v>> \in Edges <=> /\ u \in Nodes /\ v \in Nodes /\ v \in out_neigh[u]
                                            /\ Dist[u] # -1 /\ Dist[v] = Dist[u] + 1
         /\ Edges \subseteq Nodes \X Nodes
         /\ Counts \in [Nodes -> Nat]
         /\ Counts[root] = 1
         /\ \A v \in Nodes \ {root} : Counts[v] = SumFunctionOnSet(Counts, {u \in Nodes : <<u, v>> \in Edges})
         /\ \A v \in Nodes : Dist[v] = -1 <=> Counts[v] = 0
<1>1. root \in Nodes /\ out_neigh \in [Nodes -> SUBSET Nodes]
  <2>1. iter \in 1 .. num_iters
    BY BCAssumption DEF Types
  <2> QED
    BY <2>1 DEF Types, root
<1>2. PICK s \in Nodes : s = root
  BY <1>1
<1>3. Dist = Depths(s) /\ Edges = Successors(s) /\ Counts = PathCounts(s)
  BY <1>2 DEF Dist, Edges, Counts
<1>4. \A v \in Nodes : Preds(s, v) = {u \in Nodes : <<u, v>> \in Edges}
  BY <1>3 DEF Preds
<1>5. /\ Dist \in [Nodes -> Int]
      /\ \A v \in Nodes : Dist[v] \in -1 .. num_nodes
      /\ \A v \in Nodes : Dist[v] = 0 <=> v = root
      /\ \A u \in Nodes : \A v \in out_neigh[u] : Dist[u] # -1 => Dist[v] # -1 /\ Dist[v] <= Dist[u] + 1
      /\ \A v \in Nodes : Dist[v] > 0 => \E u \in Nodes : v \in out_neigh[u] /\ Dist[u] = Dist[v] - 1
  BY <1>1, <1>2, <1>3, DepthFacts
<1>6. /\ \A u, v : <<u, v>> \in Edges <=> /\ u \in Nodes /\ v \in Nodes /\ v \in out_neigh[u]
                                          /\ Dist[u] # -1 /\ Dist[v] = Dist[u] + 1
      /\ Edges \subseteq Nodes \X Nodes
  BY <1>1, <1>3, SuccessorFacts
<1>7. /\ Counts \in [Nodes -> Nat]
      /\ Counts[root] = 1
      /\ \A v \in Nodes \ {root} : Counts[v] = SumFunctionOnSet(Counts, Preds(s, v))
      /\ \A v \in Nodes : Dist[v] = -1 <=> Counts[v] = 0
  BY <1>1, <1>2, <1>3, PathCountFacts
<1>8. \A v \in Nodes \ {root} : Counts[v] = SumFunctionOnSet(Counts, {u \in Nodes : <<u, v>> \in Edges})
  BY <1>4, <1>7
<1> QED
  BY <1>1, <1>5, <1>6, <1>7, <1>8

(* A level of the queue lies before the end of the window.                   *)
LEMMA LevelsStay ==
  ASSUME UNCHANGED <<args, iter, depth_index, shared_out_start, shared_out_end>>,
         \A i \in 0 .. shared_out_end - 1 : shared'[i] = shared[i],
         depth_index \in Seq(Nat), shared_out_start \in Nat, shared_out_end \in Nat,
         NEW n \in Int, LevelsOK(n)
  PROVE  LevelsOK(n)'
<1>1. \A j : Begin(j)' = Begin(j)
  BY DEF Begin
<1>2. \A j \in 0 .. n : Begin(j) \in Nat
  BY DEF Begin
<1>3. ASSUME NEW j \in 0 .. n - 1
      PROVE  {shared[i] : i \in Begin(j) .. Begin(j + 1) - 1}' = {shared[i] : i \in Begin(j) .. Begin(j + 1) - 1}
  <2>1. j + 1 \in 0 .. n /\ j \in 0 .. n
    OBVIOUS
  <2>2. PICK a \in Nat, b \in Nat : a = Begin(j) /\ b = Begin(j + 1) /\ b <= shared_out_end
    BY <1>2, <2>1 DEF LevelsOK
  <2>3. \A i \in a .. b - 1 : i \in 0 .. shared_out_end - 1
    BY <2>2
  <2>4. {shared'[i] : i \in a .. b - 1} = {shared[i] : i \in a .. b - 1}
    BY <2>3
  <2>5. Begin(j)' = a /\ Begin(j + 1)' = b
    BY <1>1, <2>2
  <2> QED
    BY <2>2, <2>4, <2>5
<1>4. \A j \in 0 .. n - 1 : Level(j)' = Level(j)
  BY RootStays
<1> QED
  BY <1>1, <1>3, <1>4 DEF LevelsOK

(* What follows from the frame.                                              *)
LEMMA FrameFacts ==
  ASSUME SearchInv, Frame
  PROVE  /\ pc = "bfs" /\ pc' = "bfs" /\ iter > 0
         /\ root' = root /\ Dist' = Dist /\ Edges' = Edges /\ Counts' = Counts
         /\ \A k : Level(k)' = Level(k)
         /\ level' = level /\ level \in Nat
         /\ queue!size' = queue!size /\ queue!size \in Nat
         /\ queue!empty' = queue!empty
         /\ \A j \in 0 .. queue!size - 1 : shared'[shared_out_start + j] = shared[shared_out_start + j]
         /\ queue!Window' = queue!Window
         /\ \A i \in 0 .. shared_out_end' - 1 : Dist'[shared'[i]] \in 0 .. level'
         /\ LevelsOK(level)'
<1>1. /\ pc' = "bfs" /\ iter > 0 /\ InSearch /\ Types /\ QueueTypes
      /\ UNCHANGED <<args, iter, depth_index, shared_out_start, shared_out_end>>
      /\ \A i \in 0 .. shared_out_end - 1 : shared'[i] = shared[i]
      /\ pc = "bfs"
  BY DEF SearchInv, Frame, QOK, main_vars, Types
<1>2. /\ root' = root /\ Dist' = Dist /\ Edges' = Edges /\ Counts' = Counts
      /\ \A k : Level(k)' = Level(k)
  BY <1>1, RootStays
<1>3. level' = level /\ level \in Nat
  BY <1>1 DEF level, InSearch, Types
<1>4. /\ queue!size' = queue!size /\ queue!size \in Nat /\ queue!empty' = queue!empty
      /\ \A j \in 0 .. queue!size - 1 : shared_out_start + j \in 0 .. shared_out_end - 1
  BY <1>1 DEF queue!size, queue!empty, QueueTypes
<1>5. \A j \in 0 .. queue!size - 1 : shared'[shared_out_start + j] = shared[shared_out_start + j]
  BY <1>1, <1>4
<1>6. queue!Window' = queue!Window
  <2>1. \A i \in shared_out_start .. shared_out_end - 1 : i \in 0 .. shared_out_end - 1
    BY <1>1 DEF QueueTypes
  <2> QED
    BY <1>1, <2>1 DEF queue!Window, queue!WindowSlots
<1>7. \A i \in 0 .. shared_out_end' - 1 : Dist'[shared'[i]] \in 0 .. level'
  BY <1>1, <1>2, <1>3 DEF InSearch, QueueOK
<1>8. LevelsOK(level)'
  <2>1. PICK n \in Nat : n = level
    BY <1>3
  <2>2. LevelsOK(n)
    BY <1>1, <2>1 DEF InSearch, QueueOK
  <2>3. LevelsOK(n)'
    BY <1>1, <2>2, LevelsStay DEF Types, QueueTypes
  <2> QED
    BY <1>3, <2>1, <2>3
<1> QED
  BY <1>1, <1>2, <1>3, <1>4, <1>5, <1>6, <1>7, <1>8

(* The schedule, when nobody takes anything from it.                         *)
LEMMA ScheduleStays ==
  ASSUME NEW n \in Nat, NEW b \in Nat, NEW k, Level(k)' = Level(k),
         UNCHANGED next_index, \A j \in 0 .. n - 1 : shared'[b + j] = shared[b + j],
         \A x \in Workers : KeepsPlace(x)
  PROVE  /\ Claims(n) => Claims(n)'
         /\ Waiting(b, n)' = Waiting(b, n)
         /\ Hands(b, n, k) => Hands(b, n, k)'
<1>1. Claims(n) => Claims(n)'
  BY DEF Claims, KeepsPlace
<1>2. Ahead(n)' = Ahead(n) /\ Ahead(n) \subseteq 0 .. n - 1
  BY DEF Ahead, KeepsPlace
<1>3. Waiting(b, n)' = Waiting(b, n)
  BY <1>2 DEF Waiting
<1>4. Hands(b, n, k) => Hands(b, n, k)'
  <2> HIDE DEF Waiting, Level, Busy
  <2> QED
    BY <1>3 DEF Hands, KeepsPlace
<1> QED
  BY <1>1, <1>3, <1>4

(* The same in the search.                                                   *)
LEMMA ScheduleKept ==
  ASSUME SearchInv, Frame, UNCHANGED next_index,
         \A x \in Workers : KeepsPlace(x)
  PROVE  /\ Claims(queue!size)' /\ Hands(shared_out_start, queue!size, level)'
         /\ Waiting(shared_out_start, queue!size)' = Waiting(shared_out_start, queue!size)
<1>1. /\ queue!size' = queue!size /\ queue!size \in Nat /\ level' = level
      /\ \A k : Level(k)' = Level(k)
      /\ \A j \in 0 .. queue!size - 1 : shared'[shared_out_start + j] = shared[shared_out_start + j]
      /\ pc = "bfs"
  BY FrameFacts
<1>2. PICK n \in Nat : n = queue!size
  BY <1>1
<1>3. PICK b \in Nat : b = shared_out_start
  BY DEF SearchInv, QOK, QueueTypes
<1>4. PICK k : k = level
  OBVIOUS
<1>5. Claims(n) /\ Hands(b, n, k)
  BY <1>1, <1>2, <1>3, <1>4 DEF SearchInv, InSearch
<1>6. /\ Claims(n)' /\ Hands(b, n, k)' /\ Waiting(b, n)' = Waiting(b, n)
  BY <1>1, <1>2, <1>3, <1>5, ScheduleStays
<1>7. n = queue!size' /\ b = shared_out_start' /\ k = level'
  BY <1>1, <1>2, <1>3, <1>4 DEF Frame
<1> QED
  BY <1>2, <1>3, <1>4, <1>6, <1>7

(* A thread that another one's step does not move.                           *)
LEMMA OthersStay ==
  ASSUME SearchInv, Frame, NEW x \in Workers, my'[x] = my[x], succ \subseteq succ',
         next_index' \in Nat, next_index <= next_index',
         \A v \in Nodes : depths[v] # -1 => depths'[v] = depths[v]
  PROVE  SearchWorker(x)'
<1>1. /\ SearchWorker(x) /\ my[x] \in WorkerType /\ next_index \in Nat
      /\ UNCHANGED out_neigh /\ level' = level /\ level \in Nat /\ queue!empty' = queue!empty
      /\ queue!size' = queue!size /\ queue!size \in Nat
  BY FrameFacts DEF SearchInv, InSearch, Types, Frame, args
<1>2. my[x].pc \in {"push", "copy"} => depths'[my[x].v] = level + 1
  <2>1. level + 1 # -1 /\ my[x].v \in Nodes
    BY <1>1 DEF WorkerType
  <2> QED
    BY <1>1, <2>1 DEF SearchWorker
<1>3. my[x].pc = "check" => depths'[my[x].v] # -1
  <2>1. my[x].v \in Nodes
    BY <1>1 DEF WorkerType
  <2> QED
    BY <1>1, <2>1 DEF SearchWorker
<1>4. my[x].pc = "count" => <<my[x].u, my[x].v>> \in succ'
  BY <1>1 DEF SearchWorker
<1>5. my[x].pc \in {"flush", "lastcopy", "barrier"} => next_index' >= queue!size
  BY <1>1 DEF SearchWorker
<1> QED
  BY <1>1, <1>2, <1>3, <1>4, <1>5 DEF SearchWorker

(* The marks, when none is set: what may still be marked may still be.       *)
LEMMA SuccKeeps ==
  ASSUME SearchInv, Frame, UNCHANGED succ,
         \A v \in Nodes : depths[v] # -1 => depths'[v] # -1,
         \A u, v : <<u, v>> \in Edges => (Unmarked(u, v)' <=> Unmarked(u, v))
  PROVE  SuccOK'
<1>1. Edges' = Edges /\ Dist' = Dist /\ level' = level /\ SuccOK
  BY FrameFacts DEF SearchInv, InSearch
<1> HIDE DEF Unmarked
<1> QED
  BY <1>1 DEF SuccOK

(* The edges still to be marked, when the window and what the threads hold   *)
(* stay the same.                                                            *)
LEMMA UnmarkedStays ==
  ASSUME Waiting(shared_out_start, queue!size)' = Waiting(shared_out_start, queue!size),
         \A x \in Workers : KeepsHeld(x)
  PROVE  \A u, v : Unmarked(u, v)' <=> Unmarked(u, v)
  BY DEF Unmarked, KeepsHeld

(* The counts, when none changes.                                            *)
LEMMA CountsKeep ==
  ASSUME SearchInv, Frame, UNCHANGED path_counts, \A v \in Nodes : Counted(v)' = Counted(v)
  PROVE  CountsOK'
<1>1. Dist' = Dist /\ Counts' = Counts /\ level' = level /\ CountsOK
  BY FrameFacts DEF SearchInv, InSearch
<1> QED
  BY <1>1 DEF CountsOK

(* What has been added to a count, when no edge is marked and nobody begins  *)
(* or ends counting.                                                         *)
LEMMA CountedStays ==
  ASSUME UNCHANGED succ, \A x \in Workers : KeepsCount(x)
  PROVE  \A v : Counted(v)' = Counted(v)
<1>1. \A u, v : Counting(u, v)' <=> Counting(u, v)
  BY DEF Counting, KeepsCount
<1> QED
  BY <1>1 DEF Counted

(* The marks and the counts, when neither changes.                           *)
LEMMA MarksStay ==
  ASSUME SearchInv, Frame, UNCHANGED <<succ, path_counts>>,
         Waiting(shared_out_start, queue!size)' = Waiting(shared_out_start, queue!size),
         \A v \in Nodes : depths[v] # -1 => depths'[v] # -1,
         \A x \in Workers : KeepsMarks(x)
  PROVE  SuccOK' /\ CountsOK'
<1>1. \A u, v : Unmarked(u, v)' <=> Unmarked(u, v)
  BY UnmarkedStays DEF KeepsMarks
<1>2. \A v : Counted(v)' = Counted(v)
  BY CountedStays DEF KeepsMarks
<1> QED
  BY <1>1, <1>2, SuccKeeps, CountsKeep

(* The depths, when none changes.                                            *)
LEMMA DepthsStay ==
  ASSUME SearchInv, Frame, UNCHANGED depths
  PROVE  DepthsOK'
  BY FrameFacts DEF SearchInv, InSearch, DepthsOK

(* The queue, when nobody uses it.                                           *)
LEMMA QueueFrame ==
  ASSUME QOK, UNCHANGED queue_vars
  PROVE  /\ QOK' /\ queue!Pending' = queue!Pending /\ queue!Window' = queue!Window
         /\ queue!size' = queue!size /\ queue!empty' = queue!empty
<1> USE DEF queue_vars
<1>1. queue!Written' = queue!Written /\ queue!Pending' = queue!Pending /\ queue!Window' = queue!Window
      /\ \A t \in Workers : queue!Reserved(t)' = queue!Reserved(t)
  BY DEF queue!Written, queue!Reserved, queue!Pending, queue!Buffered, queue!Window, queue!WindowSlots
<1>2. QOK'
  BY <1>1 DEF QOK, QueueTypes, queue!Slots, OnePlaceEach, queue!FlushesAreDisjoint
<1> QED
  BY <1>1, <1>2 DEF queue!size, queue!empty

(* The region, when the window and the levels stay.                          *)
LEMMA QueueAssembles ==
  ASSUME SearchInv, Frame, queue!Pending' \cup Unpushed' = {v \in Nodes : depths'[v] = level + 1}, PushesOK'
  PROVE  QueueOK'
<1>1. /\ level' = level /\ \A k : Level(k)' = Level(k)
      /\ queue!Window' = queue!Window
      /\ \A i \in 0 .. shared_out_end' - 1 : Dist'[shared'[i]] \in 0 .. level'
      /\ LevelsOK(level)' /\ QueueOK
  BY FrameFacts DEF SearchInv, InSearch
<1> QED
  BY <1>1 DEF QueueOK

(* The queue's invariant, when its items and the depths stay the same.       *)
LEMMA QueueKeeps ==
  ASSUME SearchInv, Frame, UNCHANGED depths, queue!Pending' = queue!Pending,
         \A x \in Workers : KeepsPush(x)
  PROVE  QueueOK'
<1>1. pc = "bfs" /\ QueueOK
  BY DEF Frame, SearchInv, InSearch
<1>2. Unpushed' = Unpushed
  BY DEF Unpushed, KeepsPush
<1>3. PushesOK'
  BY <1>1 DEF QueueOK, PushesOK, KeepsPush
<1> QED
  BY <1>1, <1>2, <1>3, QueueAssembles DEF QueueOK

(* The same when a step does not touch the queue at all.                     *)
LEMMA QueueStays ==
  ASSUME SearchInv, Frame, UNCHANGED <<queue_vars, depths>>, \A x \in Workers : KeepsBuffer(x)
  PROVE  QOK' /\ QueueOK' /\ BuffersMatch'
<1>1. QOK' /\ queue!Pending' = queue!Pending
  BY QueueFrame DEF SearchInv
<1>2. QueueOK'
  BY <1>1, QueueKeeps DEF KeepsBuffer
<1>3. BuffersMatch'
  BY FrameFacts DEF SearchInv, BuffersMatch, queue_vars, queue!NotFlushing, KeepsBuffer
<1> QED
  BY <1>1, <1>2, <1>3

(* The invariant, put together.                                              *)
LEMMA SearchAssembles ==
  ASSUME SearchInv, Frame, Types', QOK', BuffersMatch', \A x \in Workers : SearchWorker(x)',
         DepthsOK', SuccOK', CountsOK', Claims(queue!size)', Hands(shared_out_start, queue!size, level)',
         QueueOK'
  PROVE  SearchInv'
<1>1. pc' = "bfs" /\ Len(depth_index') >= 1
  BY FrameFacts DEF SearchInv, InSearch, Frame, main_vars
<1>2. InSearch'
  BY <1>1 DEF InSearch
<1> QED
  BY <1>1, <1>2 DEF SearchInv

--------------------------------------------------------------------------------
(* The threads of the search, step by step.                                  *)

(* A thread moves and the others do not.                                     *)
LEMMA WorkerMoves ==
  ASSUME Types, NEW w \in Workers, NEW m \in WorkerType, my' = [my EXCEPT ![w] = m]
  PROVE  /\ my' \in [Workers -> WorkerType] /\ my'[w] = m
         /\ \A x \in Workers \ {w} : my'[x] = my[x]
  BY DEF Types

(* A step that touches the queue and the thread's local variables only, and  *)
(* neither takes nor drops anything.                                         *)
LEMMA QueueStep ==
  ASSUME SearchInv, Frame, NEW w \in Workers, UNCHANGED <<paths, sums, next_index>>,
         my' \in [Workers -> WorkerType], \A x \in Workers \ {w} : my'[x] = my[x],
         SearchWorker(w)', KeepsPlace(w), KeepsMarks(w), QOK', QueueOK', BuffersMatch'
  PROVE  SearchInv'
<1>1. Types /\ Types'
  BY DEF SearchInv, Types, Frame, args, main_vars, paths, sums
<1>2. \A x \in Workers : SearchWorker(x)'
  BY <1>1, OthersStay DEF paths, Types
<1>3. \A x \in Workers : KeepsPlace(x) /\ KeepsMarks(x)
  BY ThoseWhoStay
<1>4. /\ Claims(queue!size)' /\ Hands(shared_out_start, queue!size, level)'
      /\ Waiting(shared_out_start, queue!size)' = Waiting(shared_out_start, queue!size)
  BY <1>3, ScheduleKept
<1>5. SuccOK' /\ CountsOK'
  BY <1>3, <1>4, MarksStay DEF paths
<1>6. DepthsOK'
  BY DepthsStay DEF paths
<1> QED
  BY <1>1, <1>2, <1>4, <1>5, <1>6, SearchAssembles

(* A step that touches the thread's local variables only.                    *)
LEMMA LocalStep ==
  ASSUME SearchInv, Frame, NEW w \in Workers, UNCHANGED <<paths, queue_vars, sums, next_index>>,
         my' \in [Workers -> WorkerType], \A x \in Workers \ {w} : my'[x] = my[x],
         SearchWorker(w)', KeepsPlace(w), KeepsMarks(w), KeepsBuffer(w)
  PROVE  SearchInv'
<1>1. \A x \in Workers : KeepsBuffer(x)
  BY ThoseWhoStay
<1>2. QOK' /\ QueueOK' /\ BuffersMatch'
  BY <1>1, QueueStays DEF paths
<1> QED
  BY <1>2, QueueStep

(* What holds when a thread of the search takes a step.                      *)
LEMMA StepFacts ==
  ASSUME SearchInv, pc = "bfs", NEW w \in Workers
  PROVE  /\ Types /\ InSearch /\ QOK /\ SearchWorker(w) /\ my[w] \in WorkerType /\ iter > 0
         /\ level \in Nat /\ queue!size \in Nat /\ shared_out_start \in Nat
         /\ Busy(w) => my[w].u \in Nodes /\ Dist[my[w].u] = level
<1>1. /\ Types /\ InSearch /\ QOK /\ SearchWorker(w) /\ my[w] \in WorkerType /\ iter > 0
      /\ level \in Nat
  BY DEF SearchInv, InSearch, Types, level
<1>2. queue!size \in Nat /\ shared_out_start \in Nat
  BY <1>1 DEF QOK, QueueTypes, queue!size
<1>3. Busy(w) => my[w].u \in Nodes /\ Dist[my[w].u] = level
  BY <1>1 DEF InSearch, Hands, Level
<1> QED
  BY <1>1, <1>2, <1>3

(* A thread finds the window empty and leaves, or takes part in one more     *)
(* level.                                                                    *)
LEMMA WhileTestKeeps ==
  ASSUME SearchInv, UNCHANGED <<args, main_vars>>, NEW w \in Workers, WhileTest(w)
  PROVE  SearchInv'
<1>1. /\ Types /\ SearchWorker(w) /\ my[w] \in WorkerType
      /\ pc = "bfs" /\ my[w].pc = "while" /\ level \in Nat
      /\ UNCHANGED <<paths, queue_vars, sums, next_index>>
  BY StepFacts DEF WhileTest, At
<1>2. Frame
  BY <1>1 DEF Frame, queue_vars
<1>3. \E m \in WorkerType :
         /\ my' = [my EXCEPT ![w] = m]
         /\ m.pc = (IF queue!empty THEN "done" ELSE "window")
         /\ m.depth = (IF queue!empty THEN my[w].depth ELSE my[w].depth + 1)
         /\ m.i = my[w].i /\ m.end = my[w].end /\ m.u = my[w].u /\ m.v = my[w].v /\ m.todo = my[w].todo
  <2>1. CASE queue!empty
    <3> DEFINE m == [my[w] EXCEPT !.pc = "done"]
    <3>1. /\ m \in WorkerType /\ m.pc = "done" /\ m.depth = my[w].depth
          /\ m.i = my[w].i /\ m.end = my[w].end /\ m.u = my[w].u /\ m.v = my[w].v /\ m.todo = my[w].todo
      BY <1>1 DEF WorkerType, SearchPCs, BackPCs
    <3>2. my' = [my EXCEPT ![w] = m]
      BY <1>1, <2>1 DEF WhileTest, Types
    <3> HIDE DEF m
    <3> QED
      BY <2>1, <3>1, <3>2
  <2>2. CASE ~queue!empty
    <3> DEFINE m == [my[w] EXCEPT !.pc = "window", !.depth = my[w].depth + 1]
    <3>1. /\ m \in WorkerType /\ m.pc = "window" /\ m.depth = my[w].depth + 1
          /\ m.i = my[w].i /\ m.end = my[w].end /\ m.u = my[w].u /\ m.v = my[w].v /\ m.todo = my[w].todo
      <4>1. my[w].depth \in Nat
        BY <1>1 DEF WorkerType
      <4>2. PICK n \in Nat : n = my[w].depth + 1
        BY <4>1
      <4>3. m = [my[w] EXCEPT !.pc = "window", !.depth = n]
        BY <4>2
      <4> HIDE DEF m
      <4> QED
        BY <1>1, <4>2, <4>3 DEF WorkerType, SearchPCs, BackPCs
    <3>2. my' = [my EXCEPT ![w] = m]
      <4>1. my' = [my EXCEPT ![w].pc = "window", ![w].depth = @ + 1]
        BY <1>1, <2>2 DEF WhileTest
      <4> QED
        BY <1>1, <4>1 DEF Types
    <3> HIDE DEF m
    <3> QED
      BY <2>2, <3>1, <3>2
  <2> QED
    BY <2>1, <2>2
<1>4. PICK m \in WorkerType :
         /\ my' = [my EXCEPT ![w] = m]
         /\ m.pc = (IF queue!empty THEN "done" ELSE "window")
         /\ m.depth = (IF queue!empty THEN my[w].depth ELSE my[w].depth + 1)
         /\ m.i = my[w].i /\ m.end = my[w].end /\ m.u = my[w].u /\ m.v = my[w].v /\ m.todo = my[w].todo
  BY <1>3
<1>5. /\ my' \in [Workers -> WorkerType] /\ my'[w] = m
      /\ \A x \in Workers \ {w} : my'[x] = my[x]
  BY <1>1, <1>4, WorkerMoves
<1>6. my[w].depth = level /\ my[w].i = my[w].end /\ my[w].todo = {} /\ m.pc \in {"done", "window"}
  BY <1>1, <1>4 DEF SearchWorker
<1>7. level' = level /\ queue!empty' = queue!empty
  BY <1>2, FrameFacts
<1>8. SearchWorker(w)'
  BY <1>1, <1>4, <1>5, <1>6, <1>7 DEF SearchWorker, SearchPCs, Looking
<1>9. KeepsPlace(w) /\ KeepsMarks(w) /\ KeepsBuffer(w)
  BY <1>1, <1>4, <1>5, <1>6
     DEF KeepsPlace, KeepsMarks, KeepsHeld, KeepsCount, KeepsPush, KeepsBuffer, Busy, Held, Looking, Pushing
<1> QED
  BY <1>1, <1>2, <1>5, <1>8, <1>9, LocalStep

(* A thread has read the depth it works at.                                  *)
LEMMA ReadDepthKeeps ==
  ASSUME SearchInv, UNCHANGED <<args, main_vars>>, NEW w \in Workers, ReadDepth(w)
  PROVE  SearchInv'
<1>1. /\ Types /\ SearchWorker(w) /\ my[w] \in WorkerType
      /\ pc = "bfs" /\ my[w].pc = "window"
      /\ UNCHANGED <<paths, queue_vars, sums, next_index>>
  BY StepFacts DEF ReadDepth, At
<1>2. Frame
  BY <1>1 DEF Frame, queue_vars
<1>3. PICK v \in my[w].todo :
         my' = [my EXCEPT ![w].v = v, ![w].todo = @ \ {v},
                          ![w].pc = IF depths[v] = -1 THEN "cas" ELSE "check"]
  BY DEF ReadDepth
<1> DEFINE m == [my[w] EXCEPT !.v = v, !.todo = my[w].todo \ {v},
                              !.pc = IF depths[v] = -1 THEN "cas" ELSE "check"]
<1>4. /\ m \in WorkerType /\ m.pc = (IF depths[v] = -1 THEN "cas" ELSE "check")
      /\ m.depth = my[w].depth
      /\ m.i = my[w].i /\ m.end = my[w].end /\ m.u = my[w].u /\ m.v = v /\ m.todo = my[w].todo \ {v}
  BY <1>1 DEF WorkerType, SearchPCs, BackPCs
<1>5. my' = [my EXCEPT ![w] = m]
  BY <1>1, <1>3 DEF Types
<1> HIDE DEF m
<1>6. /\ my' \in [Workers -> WorkerType] /\ my'[w] = m
      /\ \A x \in Workers \ {w} : my'[x] = my[x]
  BY <1>1, <1>4, <1>5, WorkerMoves
<1>7. m.pc \in {"cas", "check"} /\ (m.pc = "check" => depths[v] # -1)
  BY <1>4
<1>8. level' = level /\ queue!empty' = queue!empty
  BY <1>2, FrameFacts
<1>9. SearchWorker(w)'
  BY <1>1, <1>4, <1>6, <1>7, <1>8 DEF SearchWorker, SearchPCs, Looking, args, paths
<1>10. Held(w)' = Held(w) /\ Busy(w)
  <2>1. v \in Nodes /\ my[w].todo # {}
    BY <1>1 DEF WorkerType
  <2>2. Held(w)' = (my[w].todo \ {v}) \cup {v}
    BY <1>4, <1>6, <1>7, <2>1 DEF Held, Looking
  <2>3. Held(w) = my[w].todo
    BY <1>1 DEF Held, Looking
  <2> QED
    BY <2>1, <2>2, <2>3 DEF Busy
<1>11. KeepsPlace(w) /\ KeepsMarks(w) /\ KeepsBuffer(w)
  BY <1>1, <1>4, <1>6, <1>7, <1>10
     DEF KeepsPlace, KeepsMarks, KeepsHeld, KeepsCount, KeepsPush, KeepsBuffer, Pushing
<1> QED
  BY <1>1, <1>2, <1>6, <1>9, <1>11, LocalStep

(* A thread goes to another label.                                           *)
LEMMA GotoMoves ==
  ASSUME Types, NEW w \in Workers, NEW l \in SearchPCs \cup BackPCs, Goto(w, l)
  PROVE  /\ my' \in [Workers -> WorkerType] /\ \A x \in Workers \ {w} : my'[x] = my[x]
         /\ my'[w].pc = l /\ my'[w].depth = my[w].depth /\ my'[w].i = my[w].i /\ my'[w].end = my[w].end
         /\ my'[w].u = my[w].u /\ my'[w].todo = my[w].todo /\ my'[w].v = my[w].v
<1>1. my[w] \in WorkerType
  BY DEF Types
<1> DEFINE m == [my[w] EXCEPT !.pc = l]
<1>2. /\ m \in WorkerType /\ m.pc = l /\ m.depth = my[w].depth /\ m.i = my[w].i /\ m.end = my[w].end
      /\ m.u = my[w].u /\ m.todo = my[w].todo /\ m.v = my[w].v
  BY <1>1 DEF WorkerType
<1>3. my' = [my EXCEPT ![w] = m]
  BY DEF Goto, Types
<1> HIDE DEF m
<1> QED
  BY <1>2, <1>3, WorkerMoves

(* A vertex that a thread looks at is on the level being expanded or on a    *)
(* level that has been reached already, or it is one of the next level.      *)
LEMMA LookedAt ==
  ASSUME SearchInv, pc = "bfs", NEW w \in Workers, my[w].pc \in Looking \cup {"count"}
  PROVE  /\ my[w].v \in Nodes /\ my[w].u \in Nodes /\ my[w].v \in out_neigh[my[w].u]
         /\ Dist[my[w].u] = level /\ Dist[my[w].v] \in 0 .. level + 1
         /\ <<my[w].u, my[w].v>> \in Edges <=> Dist[my[w].v] = level + 1
         /\ depths[my[w].v] \in {-1, Dist[my[w].v]}
         /\ depths[my[w].v] = -1 => Dist[my[w].v] = level + 1
<1>1. /\ Types /\ InSearch /\ SearchWorker(w) /\ my[w] \in WorkerType /\ iter > 0 /\ level \in Nat
      /\ Busy(w) => my[w].u \in Nodes /\ Dist[my[w].u] = level
  BY StepFacts
<1>2. /\ Busy(w) /\ my[w].v \in Nodes /\ my[w].v \in out_neigh[my[w].u] /\ my[w].u \in Nodes
  BY <1>1 DEF SearchWorker, Busy, Looking, WorkerType
<1>3. /\ Dist[my[w].v] # -1 /\ Dist[my[w].v] <= level + 1 /\ Dist[my[w].v] \in -1 .. num_nodes
      /\ <<my[w].u, my[w].v>> \in Edges <=> Dist[my[w].v] = level + 1
  BY <1>1, <1>2, RootFacts
<1>4. num_nodes \in Nat
  BY NodesAreFinite
<1>5. Dist[my[w].v] \in 0 .. level + 1
  BY <1>1, <1>3, <1>4
<1>6. /\ Dist[my[w].v] \in 0 .. level => depths[my[w].v] = Dist[my[w].v]
      /\ depths[my[w].v] \in {-1, Dist[my[w].v]}
  BY <1>1, <1>2 DEF InSearch, DepthsOK
<1> QED
  BY <1>1, <1>2, <1>3, <1>5, <1>6

(* What is pushed is on the level after the one being expanded.              *)
LEMMA PushedMeans ==
  ASSUME SearchInv, pc = "bfs"
  PROVE  /\ \A v \in queue!Pending : v \in Nodes /\ depths[v] = level + 1
         /\ \A x \in Workers : Pushing(x) => depths[my[x].v] = level + 1
  BY DEF SearchInv, InSearch, QueueOK, SearchWorker, Pushing

(* A vertex that has no depth gets one.                                      *)
LEMMA ClaimVertexKeeps ==
  ASSUME SearchInv, UNCHANGED <<args, main_vars>>, NEW w \in Workers, ClaimVertex(w)
  PROVE  SearchInv'
<1> DEFINE u == my[w].u
           v == my[w].v
<1>1. /\ Types /\ InSearch /\ QOK /\ SearchWorker(w) /\ my[w] \in WorkerType
      /\ pc = "bfs" /\ my[w].pc = "cas" /\ level \in Nat
      /\ UNCHANGED <<path_counts, succ, queue_vars, sums, next_index>>
  BY StepFacts DEF ClaimVertex, At
<1>2. Frame
  BY <1>1 DEF Frame, queue_vars
<1>3. /\ v \in Nodes /\ Dist[v] \in 0 .. level + 1 /\ depths[v] \in {-1, Dist[v]}
      /\ depths[v] = -1 => Dist[v] = level + 1
  BY <1>1, LookedAt DEF Looking
<1>4. level' = level /\ queue!empty' = queue!empty /\ queue!size' = queue!size
      /\ Dist' = Dist
  BY <1>2, FrameFacts
<1>5. CASE depths[v] # -1
  <2>1. UNCHANGED depths /\ Goto(w, "check")
    BY <1>5 DEF ClaimVertex
  <2>2. /\ my' \in [Workers -> WorkerType] /\ \A x \in Workers \ {w} : my'[x] = my[x]
        /\ my'[w].pc = "check" /\ my'[w].depth = my[w].depth /\ my'[w].i = my[w].i /\ my'[w].end = my[w].end
        /\ my'[w].u = my[w].u /\ my'[w].todo = my[w].todo /\ my'[w].v = my[w].v
    BY <1>1, <2>1, GotoMoves DEF SearchPCs
  <2>3. SearchWorker(w)'
    BY <1>1, <1>4, <1>5, <2>1, <2>2 DEF SearchWorker, SearchPCs, Looking, args
  <2>4. KeepsPlace(w) /\ KeepsMarks(w) /\ KeepsBuffer(w)
    BY <1>1, <2>2
       DEF KeepsPlace, KeepsMarks, KeepsHeld, KeepsCount, KeepsPush, KeepsBuffer, Busy, Held, Looking, Pushing
  <2> QED
    BY <1>1, <1>2, <2>1, <2>2, <2>3, <2>4, LocalStep DEF paths
<1>6. CASE depths[v] = -1
  <2>1. depths' = [depths EXCEPT ![v] = level + 1] /\ Goto(w, "push")
    BY <1>1, <1>6 DEF ClaimVertex, SearchWorker
  <2>2. /\ my' \in [Workers -> WorkerType] /\ \A x \in Workers \ {w} : my'[x] = my[x]
        /\ my'[w].pc = "push" /\ my'[w].depth = my[w].depth /\ my'[w].i = my[w].i /\ my'[w].end = my[w].end
        /\ my'[w].u = my[w].u /\ my'[w].todo = my[w].todo /\ my'[w].v = my[w].v
    BY <1>1, <2>1, GotoMoves DEF SearchPCs
  <2>3. /\ depths' \in [Nodes -> Int] /\ depths'[v] = level + 1
        /\ \A x \in Nodes \ {v} : depths'[x] = depths[x]
    BY <1>1, <1>3, <2>1 DEF Types
  <2>4. Types'
    BY <1>1, <2>2, <2>3 DEF Types, args, main_vars, sums
  <2>5. SearchWorker(w)'
    BY <1>1, <1>4, <2>2, <2>3 DEF SearchWorker, SearchPCs, Looking, args
  <2>6. \A x \in Nodes : depths[x] # -1 => depths'[x] = depths[x]
    BY <1>6, <2>3
  <2>7. \A x \in Workers : SearchWorker(x)'
    <3>1. next_index' \in Nat /\ next_index <= next_index' /\ succ \subseteq succ'
      BY <1>1 DEF Types
    <3>2. \A x \in Workers \ {w} : SearchWorker(x)'
      BY <1>2, <2>2, <2>6, <3>1, OthersStay
    <3> QED
      BY <2>5, <3>2
  <2>8. DepthsOK'
    BY <1>1, <1>3, <1>4, <1>6, <2>3 DEF InSearch, DepthsOK
  <2>9. /\ KeepsPlace(w) /\ KeepsMarks(w)
        /\ (my'[w].pc \in {"copy", "lastcopy"}) <=> (my[w].pc \in {"copy", "lastcopy"})
        /\ (my'[w].pc \in {"while", "barrier", "done"}) => (my[w].pc \in {"while", "barrier", "done"})
    BY <1>1, <2>2
       DEF KeepsPlace, KeepsMarks, KeepsHeld, KeepsCount, Busy, Held, Looking
  <2>10. \A x \in Workers : KeepsPlace(x) /\ KeepsMarks(x)
    BY <2>2, <2>9, ThoseWhoStay
  <2>11. /\ Claims(queue!size)' /\ Hands(shared_out_start, queue!size, level)'
         /\ Waiting(shared_out_start, queue!size)' = Waiting(shared_out_start, queue!size)
    BY <1>1, <1>2, <2>10, ScheduleKept
  <2>12. \A x \in Nodes : depths[x] # -1 => depths'[x] # -1
    BY <2>6
  <2>13. SuccOK' /\ CountsOK'
    BY <1>1, <1>2, <2>10, <2>11, <2>12, MarksStay
  <2>14. QOK' /\ queue!Pending' = queue!Pending
    BY <1>1, QueueFrame
  <2>15. BuffersMatch'
    <3>1. \A x \in Workers :
            /\ (my'[x].pc \in {"copy", "lastcopy"}) <=> (my[x].pc \in {"copy", "lastcopy"})
            /\ (my'[x].pc \in {"while", "barrier", "done"}) => (my[x].pc \in {"while", "barrier", "done"})
      BY <2>2, <2>9
    <3>2. pc' = "bfs"
      BY <1>2, FrameFacts
    <3> QED
      BY <1>1, <3>1, <3>2 DEF SearchInv, BuffersMatch, queue_vars, queue!NotFlushing
  <2>16. QueueOK'
    <3>1. /\ \A x \in queue!Pending : x \in Nodes /\ depths[x] = level + 1
          /\ \A x \in Workers : Pushing(x) => depths[my[x].v] = level + 1
      BY <1>1, PushedMeans
    <3>2. level + 1 # -1
      BY <1>1
    <3>3. \A x \in Workers \ {w} : (Pushing(x)' <=> Pushing(x)) /\ my'[x].v = my[x].v
      BY <2>2 DEF Pushing
    <3>4. Pushing(w)' /\ ~Pushing(w) /\ my'[w].v = v
      BY <1>1, <2>2 DEF Pushing
    <3>5. Unpushed' = Unpushed \cup {v}
      BY <3>3, <3>4 DEF Unpushed
    <3>6. queue!Pending \cup Unpushed = {x \in Nodes : depths[x] = level + 1} /\ PushesOK
      BY <1>1 DEF InSearch, QueueOK
    <3>7. {x \in Nodes : depths'[x] = level + 1} = {x \in Nodes : depths[x] = level + 1} \cup {v}
      BY <1>3, <2>3
    <3>8. v \notin queue!Pending /\ \A x \in Workers : Pushing(x) => my[x].v # v
      BY <1>6, <3>1, <3>2
    <3>9. PushesOK'
      BY <2>14, <3>3, <3>4, <3>6, <3>8 DEF PushesOK
    <3> QED
      BY <1>2, <2>14, <3>5, <3>6, <3>7, <3>9, QueueAssembles
  <2> QED
    BY <1>2, <2>4, <2>7, <2>8, <2>11, <2>13, <2>14, <2>15, <2>16, SearchAssembles
<1> QED
  BY <1>5, <1>6

(* push_back: a full buffer is flushed first.                                *)
LEMMA PushVertexKeeps ==
  ASSUME SearchInv, UNCHANGED <<args, main_vars>>, NEW w \in Workers, PushVertex(w)
  PROVE  SearchInv'
<1> DEFINE v == my[w].v
<1>1. /\ Types /\ InSearch /\ QOK /\ SearchWorker(w) /\ my[w] \in WorkerType
      /\ pc = "bfs" /\ my[w].pc = "push" /\ level \in Nat /\ BuffersMatch
      /\ UNCHANGED <<paths, sums, next_index>>
  BY StepFacts DEF PushVertex, At, SearchInv
<1>2. Frame
  <2>1. CASE queue!Full(w)
    BY <1>1, <2>1 DEF Frame, PushVertex, queue!Reserve
  <2>2. CASE ~queue!Full(w)
    BY <1>1, <2>2 DEF Frame, PushVertex, queue!LocalPush
  <2> QED
    BY <2>1, <2>2
<1>3. level' = level /\ queue!empty' = queue!empty /\ queue!size' = queue!size /\ pc' = "bfs"
  BY <1>2, FrameFacts
<1>4. v \in Nodes /\ depths[v] = level + 1
  BY <1>1 DEF SearchWorker, WorkerType
<1>5. CASE queue!Full(w)
  <2>1. queue!Reserve(w) /\ Goto(w, "copy")
    BY <1>5 DEF PushVertex
  <2>2. /\ my' \in [Workers -> WorkerType] /\ \A x \in Workers \ {w} : my'[x] = my[x]
        /\ my'[w].pc = "copy" /\ my'[w].depth = my[w].depth /\ my'[w].i = my[w].i /\ my'[w].end = my[w].end
        /\ my'[w].u = my[w].u /\ my'[w].todo = my[w].todo /\ my'[w].v = my[w].v
    BY <1>1, <2>1, GotoMoves DEF SearchPCs
  <2>3. SearchWorker(w)'
    BY <1>1, <1>3, <2>2 DEF SearchWorker, SearchPCs, Looking, args, paths
  <2>4. KeepsPlace(w) /\ KeepsMarks(w) /\ KeepsPush(w)
    BY <1>1, <2>2 DEF KeepsPlace, KeepsMarks, KeepsHeld, KeepsCount, KeepsPush, Busy, Held, Looking, Pushing
  <2>5. QOK' /\ queue!Pending' = queue!Pending
    BY <1>1, <2>1, ReserveKeepsQueue
  <2>6. \A x \in Workers : KeepsPush(x)
    BY <2>2, <2>4, ThoseWhoStay DEF KeepsBuffer
  <2>7. QueueOK'
    BY <1>1, <1>2, <2>5, <2>6, QueueKeeps DEF paths
  <2>8. BuffersMatch'
    <3>1. /\ copy_start' \in [Workers -> Int] /\ copy_start'[w] # queue!NotFlushing /\ UNCHANGED local_queue
          /\ \A x \in Workers \ {w} : copy_start'[x] = copy_start[x]
      BY <1>1, <2>1 DEF queue!Reserve, QOK, QueueTypes, queue!NotFlushing
    <3> QED
      BY <1>1, <1>3, <2>2, <3>1 DEF BuffersMatch, queue!NotFlushing
  <2> QED
    BY <1>1, <1>2, <2>2, <2>3, <2>4, <2>5, <2>7, <2>8, QueueStep
<1>6. CASE ~queue!Full(w)
  <2>1. queue!LocalPush(w, v) /\ Goto(w, "check")
    BY <1>6 DEF PushVertex
  <2>2. /\ my' \in [Workers -> WorkerType] /\ \A x \in Workers \ {w} : my'[x] = my[x]
        /\ my'[w].pc = "check" /\ my'[w].depth = my[w].depth /\ my'[w].i = my[w].i /\ my'[w].end = my[w].end
        /\ my'[w].u = my[w].u /\ my'[w].todo = my[w].todo /\ my'[w].v = my[w].v
    BY <1>1, <2>1, GotoMoves DEF SearchPCs
  <2>3. SearchWorker(w)'
    BY <1>1, <1>3, <1>4, <2>2 DEF SearchWorker, SearchPCs, Looking, args, paths
  <2>4. KeepsPlace(w) /\ KeepsMarks(w)
    BY <1>1, <2>2 DEF KeepsPlace, KeepsMarks, KeepsHeld, KeepsCount, Busy, Held, Looking
  <2>5. v \notin queue!Pending /\ \A i \in 0 .. shared_out_end - 1 : shared[i] # v
    <3>1. Pushing(w) /\ PushesOK /\ \A i \in 0 .. shared_out_end - 1 : Dist[shared[i]] \in 0 .. level
      BY <1>1 DEF Pushing, InSearch, QueueOK
    <3>2. Dist[v] = level + 1
      <4>1. depths[v] \in {-1, Dist[v]}
        BY <1>1, <1>4 DEF InSearch, DepthsOK
      <4> QED
        BY <1>1, <1>4, <4>1
    <3> QED
      BY <1>1, <3>1, <3>2 DEF PushesOK
  <2>6. QOK' /\ queue!Pending' = queue!Pending \cup {v}
    BY <1>1, <1>4, <2>1, <2>5, PushKeepsQueue
  <2>7. QueueOK'
    <3>1. queue!Pending \cup Unpushed = {x \in Nodes : depths[x] = level + 1} /\ PushesOK
      BY <1>1 DEF InSearch, QueueOK
    <3>2. /\ \A x \in Workers \ {w} : (Pushing(x)' <=> Pushing(x)) /\ my'[x].v = my[x].v
          /\ ~Pushing(w)' /\ Pushing(w)
      BY <1>1, <2>2 DEF Pushing
    <3>3. Unpushed = Unpushed' \cup {v}
      BY <3>2 DEF Unpushed
    <3>4. UNCHANGED depths
      BY <1>1 DEF paths
    <3>5. \A x \in Workers \ {w} : Pushing(x) => my[x].v # v /\ my[x].v \notin queue!Pending
      BY <3>1, <3>2 DEF PushesOK
    <3>6. PushesOK'
      BY <2>6, <3>1, <3>2, <3>5 DEF PushesOK
    <3> QED
      BY <1>2, <2>6, <3>1, <3>3, <3>4, <3>6, QueueAssembles
  <2>8. BuffersMatch'
    <3>1. UNCHANGED copy_start /\ \A x \in Workers \ {w} : local_queue'[x] = local_queue[x]
      BY <1>1, <2>1 DEF queue!LocalPush, QOK, QueueTypes
    <3> QED
      BY <1>1, <1>3, <2>2, <3>1 DEF BuffersMatch, queue!NotFlushing
  <2> QED
    BY <1>1, <1>2, <2>2, <2>3, <2>4, <2>6, <2>7, <2>8, QueueStep
<1> QED
  BY <1>5, <1>6

(* A thread that has no more vertices flushes its buffer: first it reserves  *)
(* the slots ...                                                             *)
LEMMA FlushKeeps ==
  ASSUME SearchInv, UNCHANGED <<args, main_vars>>, NEW w \in Workers, Flush(w)
  PROVE  SearchInv'
<1>1. /\ Types /\ InSearch /\ QOK /\ SearchWorker(w) /\ my[w] \in WorkerType
      /\ pc = "bfs" /\ my[w].pc = "flush" /\ level \in Nat /\ BuffersMatch
      /\ UNCHANGED <<paths, sums, next_index>>
      /\ queue!Reserve(w) /\ Goto(w, "lastcopy")
  BY StepFacts DEF Flush, At, SearchInv
<1>2. Frame
  BY <1>1 DEF Frame, queue!Reserve
<1>3. level' = level /\ queue!empty' = queue!empty /\ queue!size' = queue!size /\ pc' = "bfs"
  BY <1>2, FrameFacts
<1>4. /\ my' \in [Workers -> WorkerType] /\ \A x \in Workers \ {w} : my'[x] = my[x]
      /\ my'[w].pc = "lastcopy" /\ my'[w].depth = my[w].depth /\ my'[w].i = my[w].i /\ my'[w].end = my[w].end
      /\ my'[w].u = my[w].u /\ my'[w].todo = my[w].todo /\ my'[w].v = my[w].v
  BY <1>1, GotoMoves DEF SearchPCs
<1>5. SearchWorker(w)'
  BY <1>1, <1>3, <1>4 DEF SearchWorker, SearchPCs, Looking, args, paths
<1>6. KeepsPlace(w) /\ KeepsMarks(w) /\ KeepsPush(w)
  BY <1>1, <1>4 DEF KeepsPlace, KeepsMarks, KeepsHeld, KeepsCount, KeepsPush, Busy, Held, Looking, Pushing
<1>7. QOK' /\ queue!Pending' = queue!Pending
  BY <1>1, ReserveKeepsQueue
<1>8. \A x \in Workers : KeepsPush(x)
  BY <1>4, <1>6, ThoseWhoStay DEF KeepsBuffer
<1>9. QueueOK'
  BY <1>1, <1>2, <1>7, <1>8, QueueKeeps DEF paths
<1>10. BuffersMatch'
  <2>1. /\ copy_start' \in [Workers -> Int] /\ copy_start'[w] # queue!NotFlushing /\ UNCHANGED local_queue
        /\ \A x \in Workers \ {w} : copy_start'[x] = copy_start[x]
    BY <1>1 DEF queue!Reserve, QOK, QueueTypes, queue!NotFlushing
  <2> QED
    BY <1>1, <1>3, <1>4, <2>1 DEF BuffersMatch, queue!NotFlushing
<1> QED
  BY <1>1, <1>2, <1>4, <1>5, <1>6, <1>7, <1>9, <1>10, QueueStep

(* ... and then it copies.                                                   *)
LEMMA FlushCopiesKeeps ==
  ASSUME SearchInv, UNCHANGED <<args, main_vars>>, NEW w \in Workers, FlushCopies(w)
  PROVE  SearchInv'
<1>1. /\ Types /\ InSearch /\ QOK /\ SearchWorker(w) /\ my[w] \in WorkerType
      /\ pc = "bfs" /\ my[w].pc \in {"copy", "lastcopy"} /\ level \in Nat /\ BuffersMatch
      /\ UNCHANGED <<paths, sums, next_index>>
      /\ queue!CopyOut(w)
  BY StepFacts DEF FlushCopies, At, SearchInv
<1>2. QOK' /\ queue!Pending' = queue!Pending /\ \A i \in 0 .. shared_out_end - 1 : shared'[i] = shared[i]
  BY <1>1, CopyKeepsQueue
<1>3. Frame
  BY <1>1, <1>2 DEF Frame, queue!CopyOut
<1>4. level' = level /\ queue!empty' = queue!empty /\ queue!size' = queue!size /\ pc' = "bfs"
  BY <1>3, FrameFacts
<1>5. PICK l \in {"push", "barrier"} : (l = "push" <=> my[w].pc = "copy") /\ Goto(w, l)
  <2>1. Goto(w, IF At(w, "copy") THEN "push" ELSE "barrier")
    BY DEF FlushCopies
  <2>2. CASE my[w].pc = "copy"
    BY <2>1, <2>2 DEF At
  <2>3. CASE my[w].pc # "copy"
    BY <2>1, <2>3 DEF At
  <2> QED
    BY <2>2, <2>3
<1>6. /\ my' \in [Workers -> WorkerType] /\ \A x \in Workers \ {w} : my'[x] = my[x]
      /\ my'[w].pc = l /\ my'[w].depth = my[w].depth /\ my'[w].i = my[w].i /\ my'[w].end = my[w].end
      /\ my'[w].u = my[w].u /\ my'[w].todo = my[w].todo /\ my'[w].v = my[w].v
  BY <1>1, <1>5, GotoMoves DEF SearchPCs
<1>7. SearchWorker(w)'
  BY <1>1, <1>4, <1>5, <1>6 DEF SearchWorker, SearchPCs, Looking, args, paths
<1>8. KeepsPlace(w) /\ KeepsMarks(w) /\ KeepsPush(w)
  BY <1>1, <1>5, <1>6 DEF KeepsPlace, KeepsMarks, KeepsHeld, KeepsCount, KeepsPush, Busy, Held, Looking, Pushing
<1>9. \A x \in Workers : KeepsPush(x)
  BY <1>6, <1>8, ThoseWhoStay DEF KeepsBuffer
<1>10. QueueOK'
  BY <1>1, <1>2, <1>3, <1>9, QueueKeeps DEF paths
<1>11. BuffersMatch'
  <2>1. /\ copy_start'[w] = queue!NotFlushing /\ local_queue'[w] = <<>>
        /\ \A x \in Workers \ {w} : copy_start'[x] = copy_start[x] /\ local_queue'[x] = local_queue[x]
    BY <1>1 DEF queue!CopyOut, QOK, QueueTypes
  <2> QED
    BY <1>1, <1>4, <1>5, <1>6, <2>1 DEF BuffersMatch, queue!NotFlushing
<1> QED
  BY <1>1, <1>2, <1>3, <1>6, <1>7, <1>8, <1>10, <1>11, QueueStep

(* A thread drops an edge that it holds: nobody else does.                   *)
LEMMA EdgeDropped ==
  ASSUME SearchInv, Frame, NEW w \in Workers, NEW u, NEW v, u = my[w].u, v = my[w].v,
         my[w].pc = "check", my'[w].pc \in {"window", "count"},
         my'[w].u = my[w].u, my'[w].todo = my[w].todo, my'[w].v = my[w].v,
         \A x \in Workers \ {w} : my'[x] = my[x],
         Waiting(shared_out_start, queue!size)' = Waiting(shared_out_start, queue!size)
  PROVE  /\ Unmarked(u, v) /\ ~Unmarked(u, v)'
         /\ \A a, b : a # u \/ b # v => (Unmarked(a, b)' <=> Unmarked(a, b))
<1>1. /\ pc = "bfs" /\ InSearch /\ SearchWorker(w) /\ v \in Nodes /\ v \notin my[w].todo
  BY StepFacts, LookedAt DEF Frame, SearchWorker, Looking
<1>2. /\ Held(w) = my[w].todo \cup {v} /\ Held(w)' = my[w].todo
  BY <1>1 DEF Held, Looking
<1>3. \A x \in Workers \ {w} : Held(x)' = Held(x) /\ my'[x].u = my[x].u
  BY DEF Held
<1>4. /\ u \notin Waiting(shared_out_start, queue!size)
      /\ \A x \in Workers \ {w} : my[x].u = u => ~Busy(x)
  BY <1>1 DEF InSearch, Hands, Busy
<1>5. \A x \in Workers \ {w} : my[x].u = u => Held(x) = {}
  BY <1>4 DEF Busy, Held, Looking
<1>6. Unmarked(u, v)
  BY <1>2 DEF Unmarked
<1>7. ~Unmarked(u, v)'
  BY <1>1, <1>2, <1>3, <1>4, <1>5 DEF Unmarked
<1>8. ASSUME NEW a, NEW b, a # u \/ b # v
      PROVE  Unmarked(a, b)' <=> Unmarked(a, b)
  <2>1. \A x \in Workers : (my'[x].u = a /\ b \in Held(x)') <=> (my[x].u = a /\ b \in Held(x))
    BY <1>2, <1>3, <1>8
  <2> QED
    BY <2>1 DEF Unmarked
<1> QED
  BY <1>6, <1>7, <1>8

(* An edge to the next level is marked, others are left.                     *)
LEMMA MarkSuccessorKeeps ==
  ASSUME SearchInv, UNCHANGED <<args, main_vars>>, NEW w \in Workers, MarkSuccessor(w)
  PROVE  SearchInv'
<1>1. /\ Types /\ InSearch /\ QOK /\ SearchWorker(w) /\ my[w] \in WorkerType /\ iter > 0
      /\ pc = "bfs" /\ my[w].pc = "check" /\ level \in Nat
      /\ UNCHANGED <<depths, path_counts, queue_vars, sums, next_index>>
  BY StepFacts DEF MarkSuccessor, At
<1> PICK u \in Nodes, v \in Nodes : u = my[w].u /\ v = my[w].v
  BY <1>1 DEF WorkerType
<1>2. Frame
  BY <1>1 DEF Frame, queue_vars
<1>3. level' = level /\ queue!empty' = queue!empty /\ queue!size' = queue!size
      /\ Dist' = Dist /\ Edges' = Edges
  BY <1>2, FrameFacts
<1>4. /\ v \in Nodes /\ u \in Nodes /\ Dist[u] = level /\ (<<u, v>> \in Edges <=> Dist[v] = level + 1)
      /\ depths[v] \in {-1, Dist[v]}
  BY <1>1, LookedAt DEF Looking
<1>5. depths[v] # -1 /\ my[w].depth = level + 1
  BY <1>1 DEF SearchWorker
<1>6. PICK l \in {"count", "window"} :
         /\ l = "count" <=> <<u, v>> \in Edges
         /\ Goto(w, l)
         /\ succ' = IF l = "count" THEN succ \cup {<<u, v>>} ELSE succ
  <2>1. CASE depths[v] = my[w].depth
    BY <1>4, <1>5, <2>1 DEF MarkSuccessor
  <2>2. CASE depths[v] # my[w].depth
    BY <1>4, <1>5, <2>2 DEF MarkSuccessor
  <2> QED
    BY <2>1, <2>2
<1>7. /\ my' \in [Workers -> WorkerType] /\ \A x \in Workers \ {w} : my'[x] = my[x]
      /\ my'[w].pc = l /\ my'[w].depth = my[w].depth /\ my'[w].i = my[w].i /\ my'[w].end = my[w].end
      /\ my'[w].u = my[w].u /\ my'[w].todo = my[w].todo /\ my'[w].v = my[w].v
  BY <1>1, <1>6, GotoMoves DEF SearchPCs
<1>8. Types' /\ succ \subseteq succ'
  <2>1. succ' \subseteq Nodes \X Nodes /\ succ \subseteq succ'
    BY <1>1, <1>6 DEF Types
  <2> QED
    BY <1>1, <1>7, <2>1 DEF Types, args, main_vars, sums
<1>9. \A x \in Workers : SearchWorker(x)'
  <2>1. SearchWorker(w)'
    BY <1>1, <1>3, <1>6, <1>7 DEF SearchWorker, SearchPCs, Looking, args
  <2>2. next_index' \in Nat /\ next_index <= next_index' /\ \A x \in Nodes : depths[x] # -1 => depths'[x] = depths[x]
    BY <1>1 DEF Types
  <2>3. \A x \in Workers \ {w} : SearchWorker(x)'
    BY <1>2, <1>7, <1>8, <2>2, OthersStay
  <2> QED
    BY <2>1, <2>3
<1>10. KeepsPlace(w) /\ KeepsBuffer(w)
  BY <1>1, <1>7 DEF KeepsPlace, KeepsPush, KeepsBuffer, Busy, Looking, Pushing
<1>11. \A x \in Workers : KeepsPlace(x) /\ KeepsBuffer(x)
  BY <1>7, <1>10, ThoseWhoStay
<1>12. /\ Claims(queue!size)' /\ Hands(shared_out_start, queue!size, level)'
       /\ Waiting(shared_out_start, queue!size)' = Waiting(shared_out_start, queue!size)
  BY <1>1, <1>2, <1>11, ScheduleKept
<1>13. DepthsOK' /\ QOK' /\ QueueOK' /\ BuffersMatch'
  BY <1>1, <1>2, <1>11, DepthsStay, QueueStays
<1>14. /\ Unmarked(u, v) /\ ~Unmarked(u, v)'
       /\ \A a, b : a # u \/ b # v => (Unmarked(a, b)' <=> Unmarked(a, b))
  BY <1>1, <1>2, <1>6, <1>7, <1>12, EdgeDropped
<1>15. SuccOK'
  <2>1. ASSUME NEW a \in Nodes, NEW b \in Nodes
        PROVE  /\ <<a, b>> \in succ' <=>
                     <<a, b>> \in Edges /\ (Dist[a] < level \/ (Dist[a] = level /\ ~Unmarked(a, b)'))
               /\ <<a, b>> \in succ' => depths[b] # -1
    <3>1. /\ <<a, b>> \in succ <=>
                <<a, b>> \in Edges /\ (Dist[a] < level \/ (Dist[a] = level /\ ~Unmarked(a, b)))
          /\ <<a, b>> \in succ => depths[b] # -1
      BY <1>1 DEF InSearch, SuccOK
    <3>2. CASE a = u /\ b = v
      <4>1. <<a, b>> \in succ' <=> l = "count"
        BY <1>1, <1>4, <1>6, <1>14, <3>1, <3>2
      <4> QED
        BY <1>4, <1>5, <1>6, <1>14, <3>2, <4>1
    <3>3. CASE ~(a = u /\ b = v)
      <4>1. <<a, b>> \in succ' <=> <<a, b>> \in succ
        BY <1>6, <3>3
      <4> QED
        BY <1>14, <3>1, <3>3, <4>1
    <3> QED
      BY <3>2, <3>3
  <2> QED
    BY <1>1, <1>3, <2>1 DEF SuccOK
<1>16. CountsOK'
  <2>1. <<u, v>> \notin succ
    BY <1>1, <1>4, <1>14 DEF InSearch, SuccOK
  <2>2. \A a, b : Counting(a, b)' <=> Counting(a, b) \/ (l = "count" /\ a = u /\ b = v)
    BY <1>1, <1>7 DEF Counting
  <2>3. ASSUME NEW b \in Nodes, NEW a \in Nodes
        PROVE  (<<a, b>> \in succ' /\ ~Counting(a, b)') <=> (<<a, b>> \in succ /\ ~Counting(a, b))
    <3>1. CASE l = "count" /\ a = u /\ b = v
      BY <1>1, <2>1, <2>2, <3>1
    <3>2. CASE ~(l = "count" /\ a = u /\ b = v)
      <4>1. <<a, b>> \in succ' <=> <<a, b>> \in succ
        BY <1>6, <3>2
      <4> QED
        BY <2>2, <3>2, <4>1
    <3> QED
      BY <3>1, <3>2
  <2>4. \A b \in Nodes : Counted(b)' = Counted(b)
    BY <2>3 DEF Counted
  <2> QED
    BY <1>1, <1>2, <2>4, CountsKeep
<1> QED
  BY <1>2, <1>8, <1>9, <1>12, <1>13, <1>15, <1>16, SearchAssembles

(* The paths through a marked edge are added to those already counted.       *)
LEMMA CountPathsKeeps ==
  ASSUME SearchInv, UNCHANGED <<args, main_vars>>, NEW w \in Workers, CountPaths(w)
  PROVE  SearchInv'
<1>1. /\ Types /\ InSearch /\ QOK /\ SearchWorker(w) /\ my[w] \in WorkerType /\ iter > 0
      /\ pc = "bfs" /\ my[w].pc = "count" /\ level \in Nat
      /\ UNCHANGED <<depths, succ, queue_vars, sums, next_index>>
      /\ Goto(w, "window")
      /\ path_counts' = [path_counts EXCEPT ![my[w].v] = @ + path_counts[my[w].u]]
  BY StepFacts DEF CountPaths, At
<1> PICK u \in Nodes, v \in Nodes : u = my[w].u /\ v = my[w].v
  BY <1>1 DEF WorkerType
<1>2. Frame
  BY <1>1 DEF Frame, queue_vars
<1>3. level' = level /\ queue!empty' = queue!empty /\ queue!size' = queue!size
      /\ Dist' = Dist /\ Counts' = Counts
  BY <1>2, FrameFacts
<1>4. /\ v \in Nodes /\ u \in Nodes /\ Dist[u] = level /\ (<<u, v>> \in Edges <=> Dist[v] = level + 1)
  BY <1>1, LookedAt
<1>5. <<u, v>> \in succ /\ Dist[v] = level + 1
  <2>1. <<u, v>> \in succ
    BY <1>1 DEF SearchWorker
  <2>2. <<u, v>> \in Edges
    BY <1>1, <1>4, <2>1 DEF InSearch, SuccOK
  <2> QED
    BY <1>4, <2>1, <2>2
<1>6. /\ my' \in [Workers -> WorkerType] /\ \A x \in Workers \ {w} : my'[x] = my[x]
      /\ my'[w].pc = "window" /\ my'[w].depth = my[w].depth /\ my'[w].i = my[w].i /\ my'[w].end = my[w].end
      /\ my'[w].u = my[w].u /\ my'[w].todo = my[w].todo /\ my'[w].v = my[w].v
  BY <1>1, GotoMoves DEF SearchPCs
<1>7. Types'
  <2>1. path_counts' \in [Nodes -> Nat]
    BY <1>1 DEF Types
  <2> QED
    BY <1>1, <1>6, <2>1 DEF Types, args, main_vars, sums
<1>8. \A x \in Workers : SearchWorker(x)'
  <2>1. SearchWorker(w)'
    BY <1>1, <1>3, <1>6 DEF SearchWorker, SearchPCs, Looking, args
  <2>2. next_index' \in Nat /\ next_index <= next_index' /\ \A x \in Nodes : depths[x] # -1 => depths'[x] = depths[x]
    BY <1>1 DEF Types
  <2>3. \A x \in Workers \ {w} : SearchWorker(x)'
    BY <1>1, <1>2, <1>6, <2>2, OthersStay
  <2> QED
    BY <2>1, <2>3
<1>9. KeepsPlace(w) /\ KeepsBuffer(w) /\ KeepsHeld(w)
  BY <1>1, <1>6 DEF KeepsPlace, KeepsPush, KeepsBuffer, KeepsHeld, Held, Busy, Looking, Pushing
<1>10. \A x \in Workers : KeepsPlace(x) /\ KeepsBuffer(x) /\ KeepsHeld(x)
  BY <1>6, <1>9, ThoseWhoStay DEF KeepsMarks
<1>11. /\ Claims(queue!size)' /\ Hands(shared_out_start, queue!size, level)'
       /\ Waiting(shared_out_start, queue!size)' = Waiting(shared_out_start, queue!size)
  BY <1>1, <1>2, <1>10, ScheduleKept
<1>12. DepthsOK' /\ QOK' /\ QueueOK' /\ BuffersMatch'
  BY <1>1, <1>2, <1>10, DepthsStay, QueueStays
<1>13. SuccOK'
  BY <1>1, <1>2, <1>10, <1>11, SuccKeeps, UnmarkedStays
<1>14. \A x \in Workers \ {w} : ~(my[x].pc = "count" /\ my[x].u = u)
  BY <1>1 DEF InSearch, Hands, Busy
<1>15. \A a, b : Counting(a, b)' <=> Counting(a, b) /\ ~(a = u /\ b = v)
  BY <1>1, <1>6, <1>14 DEF Counting
<1>16. Counting(u, v)
  BY <1>1 DEF Counting
<1>17. \A b \in Nodes \ {v} : Counted(b)' = Counted(b)
  BY <1>1, <1>15 DEF Counted
<1>18. Counted(v)' = Counted(v) \cup {u} /\ u \notin Counted(v) /\ Counted(v) \subseteq Nodes
  BY <1>1, <1>4, <1>5, <1>15, <1>16 DEF Counted
<1>19. path_counts'[v] = SumFunctionOnSet(Counts, Counted(v)')
  <2>1. path_counts[u] = Counts[u] /\ path_counts[v] = SumFunctionOnSet(Counts, Counted(v))
    BY <1>1, <1>4, <1>5 DEF InSearch, CountsOK
  <2>2. IsFiniteSet(Counted(v)) /\ Counts \in [Nodes -> Nat]
    BY <1>1, <1>18, NodesAreFinite, FS_Subset, RootFacts
  <2>3. \A x \in Counted(v) \cup {u} : Counts[x] \in Int
    BY <1>4, <1>18, <2>2
  <2>4. SumFunctionOnSet(Counts, Counted(v) \cup {u}) = SumFunctionOnSet(Counts, Counted(v)) + Counts[u]
    BY <1>18, <2>2, <2>3, SumAdds
  <2>5. path_counts'[v] = path_counts[v] + path_counts[u]
    BY <1>1, <1>4 DEF Types
  <2> QED
    BY <1>18, <2>1, <2>4, <2>5
<1>20. CountsOK'
  <2>1. \A x \in Nodes \ {v} : path_counts'[x] = path_counts[x]
    BY <1>1 DEF Types
  <2>2. CountsOK
    BY <1>1 DEF InSearch
  <2>3. ASSUME NEW x \in Nodes
        PROVE  path_counts'[x] = IF Dist[x] <= level THEN Counts[x] ELSE SumFunctionOnSet(Counts, Counted(x)')
    <3>1. CASE x = v
      BY <1>1, <1>5, <1>19, <3>1
    <3>2. CASE x # v
      BY <1>17, <2>1, <2>2, <3>2 DEF CountsOK
    <3> QED
      BY <3>1, <3>2
  <2> QED
    BY <1>3, <2>3 DEF CountsOK
<1> QED
  BY <1>2, <1>7, <1>8, <1>11, <1>12, <1>13, <1>20, SearchAssembles

--------------------------------------------------------------------------------
(* The dynamic schedule.                                                     *)

(* A thread takes a chunk that nobody has, or goes on after the loop.        *)
ChunkTaken(w, n, l) ==
  /\ my' \in [Workers -> WorkerType] /\ \A x \in Workers \ {w} : my'[x] = my[x]
  /\ my[w].i = my[w].end /\ my[w].todo = {} /\ my'[w].todo = {}
  /\ my'[w].depth = my[w].depth /\ my'[w].delta = my[w].delta /\ my'[w].score = my[w].score
  /\ \/ /\ next_index < n /\ my'[w].pc = my[w].pc /\ my'[w].u = my[w].u
        /\ my'[w].i = next_index /\ my'[w].end \in next_index .. n
        /\ my'[w].end = IF next_index + kChunk < n THEN next_index + kChunk ELSE n
        /\ next_index' = next_index + kChunk
     \/ /\ next_index >= n /\ my'[w].pc = l /\ my'[w].i = 0 /\ my'[w].end = 0
        /\ next_index' = next_index

(* What claiming a chunk of a loop over n items does to the thread that      *)
(* claims it.                                                                *)
LEMMA TakeChunkMeans ==
  ASSUME Types, NEW n \in Nat, NEW w \in Workers, NEW l \in SearchPCs \cup BackPCs, TakeChunk(w, n, l)
  PROVE  ChunkTaken(w, n, l)
<1>1. my[w] \in WorkerType /\ next_index \in Nat /\ kChunk \in Nat \ {0} /\ 0 \in Nodes
      /\ my[w].i = my[w].end /\ my[w].todo = {}
  BY BCAssumption, NodesAreFinite DEF Types, TakeChunk
<1>2. CASE next_index < n
  <2>1. PICK e \in next_index .. n : e = IF next_index + kChunk < n THEN next_index + kChunk ELSE n
    BY <1>1, <1>2
  <2>2. my' = [my EXCEPT ![w].i = next_index, ![w].end = e] /\ next_index' = next_index + kChunk
    BY <1>2, <2>1 DEF TakeChunk
  <2> DEFINE m == [my[w] EXCEPT !.i = next_index, !.end = e]
  <2>3. e \in Nat
    BY <1>1, <2>1
  <2>4. /\ m \in WorkerType /\ m.pc = my[w].pc /\ m.u = my[w].u /\ m.i = next_index /\ m.end = e
        /\ m.depth = my[w].depth /\ m.todo = my[w].todo /\ m.delta = my[w].delta /\ m.score = my[w].score
    BY <1>1, <2>3 DEF WorkerType
  <2>5. my' = [my EXCEPT ![w] = m]
    BY <1>1, <2>2 DEF Types
  <2> HIDE DEF m
  <2>6. my' \in [Workers -> WorkerType] /\ my'[w] = m /\ \A x \in Workers \ {w} : my'[x] = my[x]
    BY <2>4, <2>5, WorkerMoves
  <2> QED
    BY <1>1, <1>2, <2>1, <2>2, <2>4, <2>6 DEF ChunkTaken
<1>3. CASE ~(next_index < n)
  <2>1. my' = [my EXCEPT ![w].i = 0, ![w].end = 0, ![w].u = 0, ![w].pc = l] /\ next_index' = next_index
    BY <1>3 DEF TakeChunk
  <2> DEFINE m == [my[w] EXCEPT !.i = 0, !.end = 0, !.u = 0, !.pc = l]
  <2>2. /\ m \in WorkerType /\ m.pc = l /\ m.i = 0 /\ m.end = 0
        /\ m.depth = my[w].depth /\ m.todo = my[w].todo /\ m.delta = my[w].delta /\ m.score = my[w].score
    BY <1>1 DEF WorkerType
  <2>3. my' = [my EXCEPT ![w] = m]
    BY <2>1 DEF Types
  <2> HIDE DEF m
  <2>4. my' \in [Workers -> WorkerType] /\ my'[w] = m /\ \A x \in Workers \ {w} : my'[x] = my[x]
    BY <2>2, <2>3, WorkerMoves
  <2>5. next_index >= n
    BY <1>1, <1>3
  <2> QED
    BY <1>1, <2>1, <2>2, <2>4, <2>5 DEF ChunkTaken
<1> QED
  BY <1>2, <1>3

(* The iterations ahead stay what they are.                                  *)
LEMMA ChunkKeepsSchedule ==
  ASSUME Types, NEW n \in Nat, NEW b \in Nat, NEW k, Level(k)' = Level(k), NEW w \in Workers, NEW l, ChunkTaken(w, n, l),
         UNCHANGED shared, Claims(n), Hands(b, n, k), ~Busy(w), ~Busy(w)'
  PROVE  /\ Claims(n)' /\ Hands(b, n, k)' /\ Waiting(b, n)' = Waiting(b, n)
         /\ next_index' \in Nat /\ next_index <= next_index'
<1>1. /\ next_index \in Nat /\ kChunk \in Nat \ {0} /\ \A x \in Workers : my[x].i \in Nat /\ my[x].end \in Nat
  BY BCAssumption DEF Types, WorkerType
<1>2. \A x \in Workers \ {w} : my'[x] = my[x]
  BY DEF ChunkTaken
<1>3. my[w].i = my[w].end
  BY DEF ChunkTaken
<1>4. /\ \A x \in Workers : my[x].i <= my[x].end /\ my[x].end <= n /\ my[x].end <= next_index
      /\ \A x, y \in Workers : x # y /\ my[x].i < my[x].end /\ my[y].i < my[y].end
           => my[x].end <= my[y].i \/ my[y].end <= my[x].i
  BY DEF Claims
<1>5. CASE next_index < n /\ my'[w].i = next_index /\ next_index' = next_index + kChunk
           /\ my'[w].end = IF next_index + kChunk < n THEN next_index + kChunk ELSE n
  <2>1. PICK e \in Nat : e = my'[w].end /\ next_index < e /\ e <= n /\ e <= next_index + kChunk
                         /\ (e < next_index + kChunk => e = n)
    BY <1>1, <1>5
  <2>2. Claims(n)'
    <3>1. \A x \in Workers : my'[x].i <= my'[x].end /\ my'[x].end <= n /\ my'[x].end <= next_index'
      BY <1>1, <1>2, <1>4, <1>5, <2>1
    <3>2. \A x, y \in Workers : x # y /\ my'[x].i < my'[x].end /\ my'[y].i < my'[y].end
            => my'[x].end <= my'[y].i \/ my'[y].end <= my'[x].i
      BY <1>1, <1>2, <1>4, <1>5, <2>1
    <3> QED
      BY <3>1, <3>2 DEF Claims
  <2>3. Ahead(n)' = Ahead(n)
    <3>1. ASSUME NEW j \in 0 .. n - 1
          PROVE  (j >= next_index' \/ \E x \in Workers : my'[x].i <= j /\ j < my'[x].end)
                   <=> (j >= next_index \/ \E x \in Workers : my[x].i <= j /\ j < my[x].end)
      <4>1. j >= next_index <=> j >= next_index' \/ (my'[w].i <= j /\ j < my'[w].end)
        BY <1>1, <1>5, <2>1
      <4>2. ~(my[w].i <= j /\ j < my[w].end)
        BY <1>1, <1>3
      <4> QED
        BY <1>2, <4>1, <4>2
    <3> QED
      BY <3>1 DEF Ahead
  <2> QED
    <3>1. next_index' \in Nat /\ next_index <= next_index'
      BY <1>1, <1>5
    <3>2. Waiting(b, n)' = Waiting(b, n)
      BY <2>3 DEF Waiting
    <3>3. \A x \in Workers : Busy(x)' <=> Busy(x) /\ x # w
      BY <1>2 DEF Busy
    <3>4. Hands(b, n, k)'
      <4> HIDE DEF Waiting, Busy, Level
      <4> QED BY <1>2, <3>2, <3>3 DEF Hands
    <3> QED
      BY <2>2, <3>1, <3>2, <3>4
<1>6. CASE my'[w].i = 0 /\ my'[w].end = 0 /\ next_index' = next_index
  <2>1. Claims(n)'
    BY <1>1, <1>2, <1>4, <1>6 DEF Claims
  <2>2. \A j \in 0 .. n - 1 : ~(my[w].i <= j /\ j < my[w].end) /\ ~(my'[w].i <= j /\ j < my'[w].end)
    BY <1>1, <1>3, <1>6
  <2>3. Ahead(n)' = Ahead(n)
    BY <1>2, <1>6, <2>2 DEF Ahead
  <2>4. Waiting(b, n)' = Waiting(b, n)
    BY <2>3 DEF Waiting
  <2>5. \A x \in Workers : Busy(x)' <=> Busy(x) /\ x # w
    BY <1>2 DEF Busy
  <2>6. Hands(b, n, k)'
    <3> HIDE DEF Waiting, Busy, Level
    <3> QED BY <1>2, <2>4, <2>5 DEF Hands
  <2> QED
    BY <1>1, <1>6, <2>1, <2>4, <2>6
<1> QED
  BY <1>5, <1>6 DEF ChunkTaken

(* A thread takes the first vertex of its chunk: it is in its hands.         *)
VertexTaken(w, b) ==
  /\ my[w].i < my[w].end /\ my'[w].i = my[w].i + 1 /\ my'[w].end = my[w].end
  /\ my'[w].u = shared[b + my[w].i]
  /\ \A x \in Workers \ {w} : my'[x] = my[x]

LoopOver(b, n, k) ==
  /\ \A j \in 0 .. n - 1 : shared[b + j] \in Level(k)
  /\ \A i, j \in 0 .. n - 1 : shared[b + i] = shared[b + j] => i = j

(* Taking the next vertex of a chunk moves it from those waiting into one    *)
(* thread's hands.                                                           *)
LEMMA VertexKeepsSchedule ==
  ASSUME Types, NEW n \in Nat, NEW b \in Nat, NEW k, Level(k)' = Level(k), NEW w \in Workers,
         UNCHANGED <<shared, next_index>>, VertexTaken(w, b), LoopOver(b, n, k), Claims(n), Hands(b, n, k)
  PROVE  /\ Claims(n)' /\ Hands(b, n, k)'
         /\ my'[w].u \in Level(k) /\ my'[w].u \in Waiting(b, n)
         /\ Waiting(b, n)' = Waiting(b, n) \ {my'[w].u}
         /\ \A x \in Workers \ {w} : Busy(x) => my[x].u # my'[w].u
<1> USE DEF VertexTaken, LoopOver
<1>1. /\ next_index \in Nat /\ \A x \in Workers : my[x].i \in Nat /\ my[x].end \in Nat
  BY DEF Types, WorkerType
<1>2. /\ \A x \in Workers : my[x].i <= my[x].end /\ my[x].end <= n /\ my[x].end <= next_index
      /\ \A x, y \in Workers : x # y /\ my[x].i < my[x].end /\ my[y].i < my[y].end
           => my[x].end <= my[y].i \/ my[y].end <= my[x].i
  BY DEF Claims
<1>3. PICK i \in 0 .. n - 1 : i = my[w].i
  BY <1>1, <1>2
<1>4. Claims(n)'
  <2>1. \A x \in Workers : my'[x].i <= my'[x].end /\ my'[x].end <= n /\ my'[x].end <= next_index'
    BY <1>1, <1>2
  <2>2. \A x, y \in Workers : x # y /\ my'[x].i < my'[x].end /\ my'[y].i < my'[y].end
          => my'[x].end <= my'[y].i \/ my'[y].end <= my'[x].i
    BY <1>1, <1>2
  <2> QED
    BY <2>1, <2>2 DEF Claims
<1>5. Ahead(n)' = Ahead(n) \ {i} /\ i \in Ahead(n)
  <2>1. ASSUME NEW j \in 0 .. n - 1
        PROVE  (j >= next_index' \/ \E x \in Workers : my'[x].i <= j /\ j < my'[x].end)
                 <=> j # i /\ (j >= next_index \/ \E x \in Workers : my[x].i <= j /\ j < my[x].end)
    <3>1. \A x \in Workers : (my'[x].i <= j /\ j < my'[x].end) <=> (j # i \/ x # w) /\ my[x].i <= j /\ j < my[x].end
      BY <1>1, <1>3
    <3>2. j = i => j < next_index /\ \A x \in Workers \ {w} : ~(my[x].i <= j /\ j < my[x].end)
      BY <1>1, <1>2, <1>3
    <3> QED
      BY <1>1, <3>1, <3>2
  <2>2. i \in Ahead(n)
    BY <1>1, <1>3 DEF Ahead
  <2> QED
    BY <2>1, <2>2 DEF Ahead
<1>6. PICK u : u = shared[b + i] /\ u = my'[w].u
  BY <1>3
<1>7. Ahead(n) \subseteq 0 .. n - 1
  BY DEF Ahead
<1>8. Waiting(b, n)' = Waiting(b, n) \ {u} /\ u \in Waiting(b, n)
  BY <1>3, <1>5, <1>6, <1>7 DEF Waiting
<1>9. u \in Level(k) /\ \A x \in Workers \ {w} : Busy(x) => my[x].u # u
  BY <1>6, <1>8 DEF Hands
<1>10. Hands(b, n, k)'
  <2>1. \A x \in Workers \ {w} : Busy(x)' <=> Busy(x)
    BY DEF Busy
  <2> HIDE DEF Waiting, Busy, Level
  <2> QED
    BY <1>6, <1>8, <1>9, <2>1 DEF Hands
<1> QED
  BY <1>4, <1>6, <1>8, <1>9, <1>10

(* No item is in two slots before the end of the window.                     *)
LEMMA SlotsDistinct ==
  ASSUME QOK
  PROVE  \A i, j \in 0 .. shared_out_end - 1 : shared[i] = shared[j] => i = j
<1>1. \A i \in 0 .. shared_out_end - 1 : i \in queue!Written
  <2>1. \A i \in 0 .. shared_out_end - 1 : i \in 0 .. shared_in - 1
    BY DEF QOK, QueueTypes
  <2>2. \A i \in 0 .. shared_out_end - 1 : \A t \in Workers : i \notin queue!Reserved(t)
    BY DEF QOK, QueueTypes, queue!FlushesAreDisjoint
  <2> QED
    BY <2>1, <2>2, WrittenMeans
<1> QED
  BY <1>1 DEF QOK, OnePlaceEach

(* The iterations of the loop over the window.                               *)
LEMMA WindowLoop ==
  ASSUME SearchInv, pc = "bfs"
  PROVE  /\ \A j \in 0 .. queue!size - 1 : shared[shared_out_start + j] \in Level(level)
         /\ \A i, j \in 0 .. queue!size - 1 :
               shared[shared_out_start + i] = shared[shared_out_start + j] => i = j
         /\ \A v \in Level(level) : \E j \in 0 .. queue!size - 1 : shared[shared_out_start + j] = v
<1>1. QOK /\ QueueOK
  BY DEF SearchInv, InSearch
<1>2. shared_out_start \in Nat /\ shared_out_end \in Nat /\ shared_out_start <= shared_out_end
  BY <1>1 DEF QOK, QueueTypes
<1>3. \A j \in 0 .. queue!size - 1 : shared_out_start + j \in shared_out_start .. shared_out_end - 1
  BY <1>2 DEF queue!size
<1>4. queue!Window = Level(level)
  BY <1>1 DEF QueueOK
<1>5. \A j \in 0 .. queue!size - 1 : shared[shared_out_start + j] \in Level(level)
  BY <1>3, <1>4 DEF queue!Window, queue!WindowSlots
<1>6. \A i, j \in 0 .. queue!size - 1 :
         shared[shared_out_start + i] = shared[shared_out_start + j] => i = j
  <2>1. \A j \in 0 .. queue!size - 1 : shared_out_start + j \in 0 .. shared_out_end - 1
    BY <1>2, <1>3
  <2>2. \A i, j \in 0 .. shared_out_end - 1 : shared[i] = shared[j] => i = j
    BY <1>1, SlotsDistinct
  <2>3. \A i, j \in 0 .. queue!size - 1 : shared_out_start + i = shared_out_start + j => i = j
    BY <1>2
  <2> QED
    BY <2>1, <2>2, <2>3
<1>7. ASSUME NEW v \in Level(level) PROVE \E j \in 0 .. queue!size - 1 : shared[shared_out_start + j] = v
  <2>1. PICK i \in shared_out_start .. shared_out_end - 1 : shared[i] = v
    BY <1>4, <1>7 DEF queue!Window, queue!WindowSlots
  <2>2. i - shared_out_start \in 0 .. queue!size - 1 /\ shared_out_start + (i - shared_out_start) = i
    BY <1>2 DEF queue!size
  <2> QED
    BY <2>1, <2>2
<1> QED
  BY <1>5, <1>6, <1>7

(* A chunk of the window.                                                    *)
LEMMA ClaimChunkKeeps ==
  ASSUME SearchInv, UNCHANGED <<args, main_vars>>, NEW w \in Workers, ClaimChunk(w)
  PROVE  SearchInv'
<1>1. /\ Types /\ InSearch /\ QOK /\ SearchWorker(w) /\ my[w] \in WorkerType
      /\ pc = "bfs" /\ my[w].pc = "window" /\ level \in Nat
      /\ UNCHANGED <<paths, queue_vars, sums>>
  BY StepFacts DEF ClaimChunk, At
<1>2. Frame
  BY <1>1 DEF Frame, queue_vars
<1>3. level' = level /\ queue!empty' = queue!empty /\ queue!size' = queue!size /\ queue!size \in Nat
      /\ \A k : Level(k)' = Level(k)
  BY <1>2, FrameFacts
<1>4. PICK n \in Nat : n = queue!size
  BY <1>3
<1>5. PICK b \in Nat : b = shared_out_start
  BY <1>1 DEF QOK, QueueTypes
<1>6. PICK k : k = level
  OBVIOUS
<1>7. ChunkTaken(w, n, "flush")
  BY <1>1, <1>4, TakeChunkMeans DEF ClaimChunk, SearchPCs
<1>8. /\ my' \in [Workers -> WorkerType] /\ \A x \in Workers \ {w} : my'[x] = my[x]
      /\ my[w].i = my[w].end /\ my[w].todo = {} /\ my'[w].todo = {} /\ my'[w].depth = my[w].depth
      /\ \/ my'[w].pc = "window"
         \/ my'[w].pc = "flush" /\ my'[w].i = 0 /\ my'[w].end = 0 /\ next_index >= n /\ next_index' = next_index
  BY <1>1, <1>7 DEF ChunkTaken
<1>9. ~Busy(w) /\ ~Busy(w)' /\ Held(w) = {} /\ Held(w)' = {}
  BY <1>1, <1>8 DEF Busy, Held, Looking
<1>10. Claims(n) /\ Hands(b, n, k)
  BY <1>1, <1>4, <1>5, <1>6 DEF InSearch
<1>11. /\ Claims(n)' /\ Hands(b, n, k)' /\ Waiting(b, n)' = Waiting(b, n)
       /\ next_index' \in Nat /\ next_index <= next_index'
  BY <1>1, <1>3, <1>7, <1>9, <1>10, ChunkKeepsSchedule DEF queue_vars
<1>12. n = queue!size' /\ b = shared_out_start' /\ k = level'
  BY <1>2, <1>3, <1>4, <1>5, <1>6 DEF Frame
<1>13. /\ Claims(queue!size)' /\ Hands(shared_out_start, queue!size, level)'
       /\ Waiting(shared_out_start, queue!size)' = Waiting(shared_out_start, queue!size)
  BY <1>4, <1>5, <1>11, <1>12
<1>14. KeepsMarks(w) /\ KeepsBuffer(w)
  BY <1>1, <1>8, <1>9 DEF KeepsMarks, KeepsHeld, KeepsCount, KeepsBuffer, KeepsPush, Pushing
<1>15. \A x \in Workers : KeepsMarks(x) /\ KeepsBuffer(x)
  BY <1>8, <1>14, ThoseWhoStay
<1>16. Types'
  BY <1>1, <1>8, <1>11 DEF Types, args, main_vars, sums, paths
<1>17. \A x \in Workers : SearchWorker(x)'
  <2>1. SearchWorker(w)'
    BY <1>1, <1>3, <1>4, <1>8 DEF SearchWorker, SearchPCs, Looking
  <2>2. \A x \in Workers \ {w} : SearchWorker(x)'
    BY <1>1, <1>2, <1>8, <1>11, OthersStay DEF paths
  <2> QED
    BY <2>1, <2>2
<1>18. SuccOK' /\ CountsOK' /\ DepthsOK'
  BY <1>1, <1>2, <1>13, <1>15, MarksStay, DepthsStay DEF paths
<1>19. QOK' /\ QueueOK' /\ BuffersMatch'
  BY <1>1, <1>2, <1>15, QueueStays DEF paths
<1> QED
  BY <1>2, <1>13, <1>16, <1>17, <1>18, <1>19, SearchAssembles

(* A vertex of the chunk: its out-neighbours are to be looked at.            *)
LEMMA TakeVertexKeeps ==
  ASSUME SearchInv, UNCHANGED <<args, main_vars>>, NEW w \in Workers, TakeVertex(w)
  PROVE  SearchInv'
<1>1. /\ Types /\ InSearch /\ QOK /\ SearchWorker(w) /\ my[w] \in WorkerType /\ iter > 0
      /\ pc = "bfs" /\ my[w].pc = "window" /\ level \in Nat /\ my[w].todo = {} /\ my[w].i < my[w].end
      /\ UNCHANGED <<paths, queue_vars, sums, next_index>>
  BY StepFacts DEF TakeVertex, At
<1>2. Frame
  BY <1>1 DEF Frame, queue_vars
<1>3. level' = level /\ queue!empty' = queue!empty /\ queue!size' = queue!size /\ queue!size \in Nat
      /\ \A k : Level(k)' = Level(k)
  BY <1>2, FrameFacts
<1>4. PICK n \in Nat : n = queue!size
  BY <1>3
<1>5. PICK b \in Nat : b = shared_out_start
  BY <1>1 DEF QOK, QueueTypes
<1>6. PICK k : k = level
  OBVIOUS
<1>7. Claims(n) /\ Hands(b, n, k)
  BY <1>1, <1>4, <1>5, <1>6 DEF InSearch
<1>8. /\ \A j \in 0 .. n - 1 : shared[b + j] \in Level(k)
      /\ \A i, j \in 0 .. n - 1 : shared[b + i] = shared[b + j] => i = j
  BY <1>1, <1>4, <1>5, <1>6, WindowLoop
<1>9. PICK u \in Nodes : u = shared[b + my[w].i]
  <2>1. my[w].i \in 0 .. n - 1
    BY <1>1, <1>7 DEF WorkerType, Claims
  <2> QED
    BY <1>8, <2>1 DEF Level
<1>10. my' = [my EXCEPT ![w].u = u, ![w].todo = out_neigh[u], ![w].i = @ + 1]
  BY <1>5, <1>9 DEF TakeVertex
<1> DEFINE m == [my[w] EXCEPT !.u = u, !.todo = out_neigh[u], !.i = my[w].i + 1]
<1>11. /\ m \in WorkerType /\ m.pc = my[w].pc /\ m.depth = my[w].depth /\ m.i = my[w].i + 1
       /\ m.end = my[w].end /\ m.u = u /\ m.todo = out_neigh[u]
  <2>1. my[w].i \in Nat /\ out_neigh[u] \in SUBSET Nodes
    BY <1>1 DEF WorkerType, Types
  <2>2. PICK i \in Nat : i = my[w].i + 1
    BY <2>1
  <2>3. m = [my[w] EXCEPT !.u = u, !.todo = out_neigh[u], !.i = i]
    BY <2>2
  <2> HIDE DEF m
  <2> QED
    BY <1>1, <2>1, <2>2, <2>3 DEF WorkerType
<1>12. my' = [my EXCEPT ![w] = m]
  BY <1>1, <1>10 DEF Types
<1> HIDE DEF m
<1>13. my' \in [Workers -> WorkerType] /\ my'[w] = m /\ \A x \in Workers \ {w} : my'[x] = my[x]
  BY <1>1, <1>11, <1>12, WorkerMoves
<1>14. /\ Claims(n)' /\ Hands(b, n, k)' /\ u \in Level(k)
       /\ Waiting(b, n)' = Waiting(b, n) \ {u} /\ u \in Waiting(b, n)
       /\ \A x \in Workers \ {w} : Busy(x) => my[x].u # u
  <2>1. VertexTaken(w, b) /\ LoopOver(b, n, k)
    BY <1>1, <1>8, <1>9, <1>11, <1>13 DEF VertexTaken, LoopOver
  <2>2. Types /\ Level(k)' = Level(k) /\ UNCHANGED <<shared, next_index>>
    BY <1>1, <1>3 DEF queue_vars
  <2>3. /\ Claims(n)' /\ Hands(b, n, k)'
        /\ my'[w].u \in Level(k) /\ my'[w].u \in Waiting(b, n)
        /\ Waiting(b, n)' = Waiting(b, n) \ {my'[w].u}
        /\ \A x \in Workers \ {w} : Busy(x) => my[x].u # my'[w].u
    BY <1>7, <2>1, <2>2, VertexKeepsSchedule
  <2>4. my'[w].u = u
    BY <1>11, <1>13
  <2> QED
    BY <2>3, <2>4
<1>15. n = queue!size' /\ b = shared_out_start' /\ k = level'
  BY <1>2, <1>3, <1>4, <1>5, <1>6 DEF Frame
<1>16. /\ Claims(queue!size)' /\ Hands(shared_out_start, queue!size, level)'
  BY <1>14, <1>15
<1>17. KeepsCount(w) /\ KeepsBuffer(w)
  BY <1>1, <1>11, <1>13 DEF KeepsCount, KeepsBuffer, KeepsPush, Pushing
<1>18. \A x \in Workers : KeepsCount(x) /\ KeepsBuffer(x)
  BY <1>13, <1>17, ThoseWhoStay DEF KeepsMarks
<1>19. Types'
  BY <1>1, <1>13 DEF Types, args, main_vars, sums, paths
<1>20. \A x \in Workers : SearchWorker(x)'
  <2>1. SearchWorker(w)'
    BY <1>1, <1>3, <1>11, <1>13 DEF SearchWorker, SearchPCs, Looking, args
  <2>2. next_index' \in Nat /\ next_index <= next_index'
    BY <1>1 DEF Types
  <2>3. \A x \in Workers \ {w} : SearchWorker(x)'
    BY <1>1, <1>2, <1>13, <2>2, OthersStay DEF paths
  <2> QED
    BY <2>1, <2>3
<1>21. ASSUME NEW a, NEW c, <<a, c>> \in Edges PROVE Unmarked(a, c)' <=> Unmarked(a, c)
  <2>1. Held(w) = {} /\ Held(w)' = out_neigh[u] /\ my'[w].u = u
    BY <1>1, <1>11, <1>13 DEF Held, Looking
  <2>2. \A x \in Workers \ {w} : Held(x)' = Held(x) /\ my'[x].u = my[x].u
    BY <1>13 DEF Held
  <2>3. Unmarked(a, c) <=> a \in Waiting(b, n) \/ \E x \in Workers : my[x].u = a /\ c \in Held(x)
    BY <1>4, <1>5 DEF Unmarked
  <2>4. Unmarked(a, c)' <=> a \in Waiting(b, n)' \/ \E x \in Workers : my'[x].u = a /\ c \in Held(x)'
    BY <1>15 DEF Unmarked
  <2>5. CASE a = u
    <3>1. c \in out_neigh[u]
      BY <1>1, <1>21, <2>5, RootFacts
    <3> QED
      BY <1>14, <2>1, <2>3, <2>4, <2>5, <3>1
  <2>6. CASE a # u
    BY <1>14, <2>1, <2>2, <2>3, <2>4, <2>6
  <2> QED
    BY <2>5, <2>6
<1>22. SuccOK'
  BY <1>1, <1>2, <1>21, SuccKeeps DEF paths
<1>23. CountsOK' /\ DepthsOK'
  BY <1>1, <1>2, <1>18, CountsKeep, CountedStays, DepthsStay DEF paths
<1>24. QOK' /\ QueueOK' /\ BuffersMatch'
  BY <1>1, <1>2, <1>18, QueueStays DEF paths
<1> QED
  BY <1>2, <1>16, <1>19, <1>20, <1>22, <1>23, <1>24, SearchAssembles

--------------------------------------------------------------------------------
(* The threads on the way back.                                              *)

(* The loop over one level.                                                  *)
LEMMA LoopFacts ==
  ASSUME Types, QOK, LevelsOK(Levels), d \in 0 .. Levels
  PROVE  /\ first \in Nat /\ last \in Nat /\ first <= last /\ last <= shared_out_end
         /\ {shared[i] : i \in first .. last - 1} = IF d = 0 THEN {} ELSE Level(d - 1)
         /\ LoopOver(first, last - first, d - 1)
         /\ d > 0 => \A v \in Level(d - 1) : \E j \in 0 .. last - first - 1 : shared[first + j] = v
<1>1. /\ QOK /\ LevelsOK(Levels) /\ d \in 0 .. Levels /\ Levels = Len(depth_index) - 2
      /\ depth_index \in Seq(Nat) /\ Len(depth_index) \in Nat
      /\ shared_out_end \in Nat
  <2>1. depth_index \in Seq(Nat) /\ shared_out_end \in Nat
    BY DEF Types, QOK, QueueTypes
  <2>2. Len(depth_index) \in Nat
    BY <2>1
  <2> QED
    BY <2>1, <2>2 DEF Levels
<1>2. first \in Nat /\ last \in Nat /\ last = Begin(d)
  BY <1>1 DEF first, last, Begin
<1>3. CASE d = 0
  <2>1. first = 0 /\ last = 0
    BY <1>1, <1>2, <1>3 DEF first, LevelsOK
  <2>2. first .. last - 1 = {} /\ 0 .. last - first - 1 = {}
    BY <2>1
  <2> QED
    BY <1>1, <1>3, <2>1, <2>2 DEF LoopOver
<1>4. CASE d # 0
  <2>1. PICK j \in 0 .. Levels - 1 : j = d - 1 /\ j + 1 = d
    BY <1>1, <1>4
  <2>2. first = Begin(j)
    BY <1>1, <2>1 DEF first, Begin
  <2>3. /\ first <= last /\ last <= shared_out_end
        /\ {shared[i] : i \in first .. last - 1} = Level(d - 1)
    BY <1>1, <1>2, <2>1, <2>2 DEF LevelsOK
  <2>4. \A i \in 0 .. last - first - 1 : first + i \in first .. last - 1 /\ first + i \in 0 .. shared_out_end - 1
    <3>1. PICK a \in Nat, z \in Nat, e \in Nat : a = first /\ z = last /\ e = shared_out_end /\ z <= e
      BY <1>1, <1>2, <2>3
    <3>2. \A i \in 0 .. z - a - 1 : a + i \in a .. z - 1 /\ a + i \in 0 .. e - 1
      BY <3>1
    <3> QED
      BY <3>1, <3>2
  <2>5. \A a, b \in 0 .. shared_out_end - 1 : shared[a] = shared[b] => a = b
    BY <1>1, SlotsDistinct
  <2>6. LoopOver(first, last - first, d - 1)
    <3>1. \A i \in 0 .. last - first - 1 : shared[first + i] \in Level(d - 1)
      BY <2>3, <2>4
    <3>2. \A a, b \in 0 .. last - first - 1 : first + a = first + b => a = b
      BY <1>2
    <3> QED
      BY <2>4, <2>5, <3>1, <3>2 DEF LoopOver
  <2>7. ASSUME NEW v \in Level(d - 1) PROVE \E i \in 0 .. last - first - 1 : shared[first + i] = v
    <3>1. PICK i \in first .. last - 1 : shared[i] = v
      BY <2>3
    <3>2. i - first \in 0 .. last - first - 1 /\ first + (i - first) = i
      BY <1>2
    <3> QED
      BY <3>1, <3>2
  <2> QED
    BY <1>2, <1>4, <2>3, <2>6, <2>7
<1> QED
  BY <1>3, <1>4

(* On the way back the slots of the loop are exactly the vertices of its     *)
(* level.                                                                    *)
LEMMA BackLoop ==
  ASSUME SearchInv, pc = "back"
  PROVE  /\ first \in Nat /\ last \in Nat /\ first <= last /\ last <= shared_out_end
         /\ {shared[i] : i \in first .. last - 1} = IF d = 0 THEN {} ELSE Level(d - 1)
         /\ LoopOver(first, last - first, d - 1)
         /\ d > 0 => \A v \in Level(d - 1) : \E j \in 0 .. last - first - 1 : shared[first + j] = v
  BY LoopFacts DEF SearchInv, InBack

(* What a thread on the way back leaves alone.                               *)
BackFrame == pc = "back" /\ UNCHANGED <<args, main_vars, paths, queue_vars>>

(* What such a step leaves alone, and what follows from that.                *)
LEMMA BackFrameFacts ==
  ASSUME SearchInv, BackFrame
  PROVE  /\ pc' = "back" /\ QOK' /\ shared_in' = shared_out_end' /\ BuffersMatch'
         /\ root' = root /\ Dist' = Dist /\ Edges' = Edges /\ Counts' = Counts
         /\ \A k : Level(k)' = Level(k)
         /\ first' = first /\ last' = last /\ d' = d
         /\ path_counts' = Counts' /\ succ' = Edges'
         /\ LevelsOK(Levels)' /\ Levels' = Levels
<1> USE DEF BackFrame, args, main_vars, paths
<1>1. /\ Types /\ QOK /\ InBack /\ pc' = "back"
      /\ UNCHANGED <<args, iter, depth_index, shared_out_start, shared_out_end, shared>>
  BY DEF SearchInv, queue_vars
<1>2. /\ root' = root /\ Dist' = Dist /\ Edges' = Edges /\ Counts' = Counts
      /\ \A k : Level(k)' = Level(k)
  BY <1>1, RootStays
<1>3. QOK' /\ shared_in' = shared_out_end'
  BY QueueFrame DEF SearchInv, queue_vars
<1>4. BuffersMatch'
  BY <1>1 DEF SearchInv, BuffersMatch, queue_vars, queue!NotFlushing
<1>5. first' = first /\ last' = last /\ d' = d /\ Levels' = Levels
  BY DEF first, last, Levels
<1>6. path_counts' = Counts' /\ succ' = Edges'
  BY <1>1, <1>2 DEF InBack
<1>7. LevelsOK(Levels)'
  <2>1. PICK n \in Int : n = Levels
    <3>1. depth_index \in Seq(Nat)
      BY <1>1 DEF Types
    <3> QED
      BY <3>1 DEF Levels
  <2>2. LevelsOK(n)
    BY <1>1, <2>1 DEF InBack
  <2>3. LevelsOK(n)'
    BY <1>1, <2>2, LevelsStay DEF Types, QOK, QueueTypes
  <2> QED
    BY <1>5, <2>1, <2>3
<1> QED
  BY <1>1, <1>2, <1>3, <1>4, <1>5, <1>6, <1>7

(* SearchInv on the way back, from the parts a step can disturb.             *)
LEMMA BackAssembles ==
  ASSUME SearchInv, BackFrame, Types', Claims(last - first)', Hands(first, last - first, d - 1)',
         \A x \in Workers : \A v \in my'[x].todo : path_counts[v] # 0
  PROVE  SearchInv'
<1>1. /\ pc' = "back" /\ QOK' /\ shared_in' = shared_out_end' /\ BuffersMatch'
      /\ Dist' = Dist /\ d' = d /\ Levels' = Levels
      /\ path_counts' = Counts' /\ succ' = Edges' /\ LevelsOK(Levels)'
      /\ UNCHANGED path_counts
  BY BackFrameFacts DEF BackFrame, paths
<1>2. InBack'
  BY <1>1 DEF SearchInv, InBack, BackFrame
<1> QED
  BY <1>1, <1>2 DEF SearchInv

(* The place of every thread, when none takes anything.                      *)
LEMMA BackScheduleKept ==
  ASSUME SearchInv, BackFrame, UNCHANGED next_index, \A x \in Workers : KeepsPlace(x)
  PROVE  /\ Claims(last - first)' /\ Hands(first, last - first, d - 1)'
         /\ Waiting(first, last - first)' = Waiting(first, last - first)
<1>1. PICK n \in Nat, b \in Nat, k \in Int : n = last - first /\ b = first /\ k = d - 1
  BY BackLoop DEF BackFrame, SearchInv, Types
<1>2. n = (last - first)' /\ b = first' /\ k = (d - 1)' /\ Level(k)' = Level(k) /\ shared' = shared
  BY <1>1, BackFrameFacts DEF BackFrame, queue_vars
<1>3. Claims(n) /\ Hands(b, n, k)
  BY <1>1 DEF SearchInv, InBack, BackFrame
<1>4. Claims(n)' /\ Hands(b, n, k)' /\ Waiting(b, n)' = Waiting(b, n)
  BY <1>2, <1>3, ScheduleStays
<1> QED
  BY <1>1, <1>2, <1>4

(* A chunk of the level.                                                     *)
LEMMA BackClaimChunkKeeps ==
  ASSUME SearchInv, UNCHANGED <<args, main_vars>>, NEW w \in Workers, BackClaimChunk(w)
  PROVE  /\ SearchInv' /\ ChunkTaken(w, last - first, "done")
         /\ Waiting(first, last - first)' = Waiting(first, last - first)
<1>1. /\ Types /\ InBack /\ pc = "back" /\ my[w].pc = "vertex"
      /\ UNCHANGED <<paths, queue_vars, sums>>
  BY DEF BackClaimChunk, At, SearchInv
<1>2. BackFrame
  BY <1>1 DEF BackFrame
<1>3. PICK n \in Nat, b \in Nat, k \in Int : n = last - first /\ b = first /\ k = d - 1
  BY <1>1, BackLoop DEF Types
<1>4. ChunkTaken(w, n, "done")
  BY <1>1, <1>3, TakeChunkMeans DEF BackClaimChunk, BackPCs
<1>5. n = (last - first)' /\ b = first' /\ k = (d - 1)' /\ Level(k)' = Level(k) /\ shared' = shared
  BY <1>2, <1>3, BackFrameFacts DEF BackFrame, queue_vars
<1>6. Claims(n)' /\ Hands(b, n, k)' /\ Waiting(b, n)' = Waiting(b, n) /\ next_index' \in Nat
  <2>1. Claims(n) /\ Hands(b, n, k)
    BY <1>1, <1>3 DEF InBack
  <2>2. ~Busy(w) /\ ~Busy(w)'
    BY <1>1, <1>4 DEF Busy, ChunkTaken
  <2> QED
    BY <1>1, <1>4, <1>5, <2>1, <2>2, ChunkKeepsSchedule
<1>7. Types'
  BY <1>1, <1>4, <1>6 DEF Types, args, main_vars, paths, sums, ChunkTaken
<1>8. \A x \in Workers : \A v \in my'[x].todo : path_counts[v] # 0
  BY <1>1, <1>4 DEF InBack, ChunkTaken
<1>9. Claims(last - first)' /\ Hands(first, last - first, d - 1)'
      /\ Waiting(first, last - first)' = Waiting(first, last - first)
  BY <1>3, <1>5, <1>6
<1> QED
  BY <1>2, <1>3, <1>4, <1>7, <1>8, <1>9, BackAssembles

(* The vertex that a thread takes.                                           *)
BackTaken(w) ==
  /\ my' \in [Workers -> WorkerType] /\ \A x \in Workers \ {w} : my'[x] = my[x]
  /\ my'[w].u \in Level(d - 1) /\ my'[w].u \in Waiting(first, last - first)
  /\ Waiting(first, last - first)' = Waiting(first, last - first) \ {my'[w].u}
  /\ \A x \in Workers \ {w} : Busy(x) => my[x].u # my'[w].u
  /\ my'[w].todo = {v \in Nodes : <<my'[w].u, v>> \in Edges}
  /\ my'[w].delta = 0 /\ my'[w].pc = "edges"

(* A thread takes the next vertex of its chunk on the way back.              *)
LEMMA BackTakeVertexKeeps ==
  ASSUME SearchInv, UNCHANGED <<args, main_vars>>, NEW w \in Workers, BackTakeVertex(w)
  PROVE  SearchInv' /\ BackTaken(w)
<1>1. /\ Types /\ InBack /\ pc = "back" /\ my[w].pc = "vertex" /\ my[w].i < my[w].end
      /\ my[w] \in WorkerType /\ iter > 0
      /\ UNCHANGED <<paths, queue_vars, sums, next_index>>
  BY DEF BackTakeVertex, At, SearchInv, Types
<1>2. BackFrame
  BY <1>1 DEF BackFrame
<1>3. PICK n \in Nat, b \in Nat, k \in Int : n = last - first /\ b = first /\ k = d - 1
  BY <1>1, BackLoop DEF Types
<1>4. LoopOver(b, n, k)
  BY <1>1, <1>3, BackLoop
<1>5. n = (last - first)' /\ b = first' /\ k = (d - 1)' /\ Level(k)' = Level(k) /\ shared' = shared
  BY <1>2, <1>3, BackFrameFacts DEF BackFrame, queue_vars
<1>6. Claims(n) /\ Hands(b, n, k)
  BY <1>1, <1>3 DEF InBack
<1>7. PICK u \in Nodes : u = shared[b + my[w].i]
  <2>1. my[w].i \in 0 .. n - 1
    BY <1>1, <1>6 DEF WorkerType, Claims
  <2> QED
    BY <1>4, <2>1 DEF Level, LoopOver
<1>8. PICK S \in SUBSET Nodes : S = {v \in out_neigh[u] : <<u, v>> \in succ}
  BY <1>1 DEF Types
<1>9. my' = [my EXCEPT ![w].u = u, ![w].todo = S, ![w].i = @ + 1, ![w].delta = 0, ![w].pc = "edges"]
  BY <1>3, <1>7, <1>8 DEF BackTakeVertex
<1> DEFINE m == [my[w] EXCEPT !.u = u, !.todo = S, !.i = my[w].i + 1, !.delta = 0, !.pc = "edges"]
<1>10. /\ m \in WorkerType /\ m.pc = "edges" /\ m.i = my[w].i + 1 /\ m.delta = 0
       /\ m.end = my[w].end /\ m.u = u /\ m.todo = S
  <2>1. my[w].i \in Nat
    BY <1>1 DEF WorkerType
  <2>2. PICK i \in Nat : i = my[w].i + 1
    BY <2>1
  <2>3. m = [my[w] EXCEPT !.u = u, !.todo = S, !.i = i, !.delta = 0, !.pc = "edges"]
    BY <2>2
  <2> HIDE DEF m
  <2> QED
    BY <1>1, <2>1, <2>2, <2>3 DEF WorkerType, BackPCs
<1>11. my' = [my EXCEPT ![w] = m]
  BY <1>1, <1>9 DEF Types
<1> HIDE DEF m
<1>12. my' \in [Workers -> WorkerType] /\ my'[w] = m /\ \A x \in Workers \ {w} : my'[x] = my[x]
  BY <1>1, <1>10, <1>11, WorkerMoves
<1>13. /\ Claims(n)' /\ Hands(b, n, k)' /\ u \in Level(k)
       /\ Waiting(b, n)' = Waiting(b, n) \ {u} /\ u \in Waiting(b, n)
       /\ \A x \in Workers \ {w} : Busy(x) => my[x].u # u
  <2>1. VertexTaken(w, b)
    BY <1>1, <1>7, <1>10, <1>12 DEF VertexTaken
  <2>2. Types /\ Level(k)' = Level(k) /\ UNCHANGED <<shared, next_index>>
    BY <1>1, <1>5
  <2>3. /\ Claims(n)' /\ Hands(b, n, k)'
        /\ my'[w].u \in Level(k) /\ my'[w].u \in Waiting(b, n)
        /\ Waiting(b, n)' = Waiting(b, n) \ {my'[w].u}
        /\ \A x \in Workers \ {w} : Busy(x) => my[x].u # my'[w].u
    BY <1>4, <1>6, <2>1, <2>2, VertexKeepsSchedule
  <2>4. my'[w].u = u
    BY <1>10, <1>12
  <2> QED
    BY <2>3, <2>4
<1>14. Types'
  BY <1>1, <1>12 DEF Types, args, main_vars, paths, sums
<1>15. S = {v \in Nodes : <<u, v>> \in Edges}
  <2>1. succ = Edges
    BY <1>1 DEF InBack
  <2> QED
    BY <1>1, <1>8, <2>1, RootFacts
<1>16. \A x \in Workers : \A v \in my'[x].todo : path_counts[v] # 0
  <2>1. \A v \in S : path_counts[v] # 0
    <3>1. path_counts = Counts
      BY <1>1 DEF InBack
    <3>2. \A v \in S : Dist[v] = Dist[u] + 1 /\ Dist[u] # -1 /\ Dist[u] \in -1 .. num_nodes /\ num_nodes \in Nat
      BY <1>1, <1>15, RootFacts, NodesAreFinite
    <3>3. \A v \in S : Dist[v] # -1
      BY <3>2
    <3> QED
      BY <1>1, <3>1, <3>3, RootFacts
  <2> QED
    BY <1>1, <1>10, <1>12, <2>1 DEF InBack
<1>17. /\ Claims(last - first)' /\ Hands(first, last - first, d - 1)'
       /\ Waiting(first, last - first)' = Waiting(first, last - first) \ {u}
  BY <1>3, <1>5, <1>13
<1>18. SearchInv'
  BY <1>2, <1>14, <1>16, <1>17, BackAssembles
<1>19. my'[w].u = u /\ my'[w].todo = S /\ my'[w].delta = 0 /\ my'[w].pc = "edges"
  BY <1>10, <1>12
<1> QED
  BY <1>3, <1>12, <1>13, <1>15, <1>17, <1>18, <1>19 DEF BackTaken

(* What a successor gives is a natural number.                               *)
LEMMA TermIsNat ==
  ASSUME NEW a \in Nat, NEW b \in Nat \ {0}, NEW c \in Nat
  PROVE  (a * (kScale + c)) \div b \in Nat
<1>1. kScale \in Nat
  BY BCAssumption
<1>2. PICK e \in Nat : e = a * (kScale + c)
  BY <1>1
<1>3. e \div b \in Nat
  OBVIOUS
<1> QED
  BY <1>2, <1>3

(* An edge: its end is not to do any more.                                   *)
BackAdded(w, v) ==
  /\ my' \in [Workers -> WorkerType] /\ \A x \in Workers \ {w} : my'[x] = my[x]
  /\ my'[w].pc = "edges" /\ my'[w].u = my[w].u /\ my'[w].i = my[w].i /\ my'[w].end = my[w].end
  /\ my'[w].todo = my[w].todo \ {v}
  /\ my'[w].delta = my[w].delta + (path_counts[my[w].u] * (kScale + deltas[v])) \div path_counts[v]

(* A thread adds the share of one successor to the delta it has in hand.     *)
LEMMA BackEdgeKeeps ==
  ASSUME SearchInv, UNCHANGED <<args, main_vars>>, NEW w \in Workers, BackEdge(w)
  PROVE  SearchInv' /\ \E v \in my[w].todo : BackAdded(w, v)
<1>1. /\ Types /\ InBack /\ pc = "back" /\ my[w].pc = "edges" /\ my[w] \in WorkerType
      /\ UNCHANGED <<paths, queue_vars, sums, next_index>>
  BY DEF BackEdge, At, SearchInv, Types
<1>2. BackFrame
  BY <1>1 DEF BackFrame
<1>3. PICK v \in my[w].todo :
         my' = [my EXCEPT ![w].todo = @ \ {v},
                  ![w].delta = @ + (path_counts[my[w].u] * (kScale + deltas[v])) \div path_counts[v]]
  BY DEF BackEdge
<1>4. /\ v \in Nodes /\ my[w].u \in Nodes /\ my[w].delta \in Nat /\ my[w].todo \in SUBSET Nodes
      /\ path_counts[v] # 0
  BY <1>1 DEF WorkerType, InBack
<1>5. PICK t \in Nat : t = (path_counts[my[w].u] * (kScale + deltas[v])) \div path_counts[v]
  <2>1. path_counts[my[w].u] \in Nat /\ path_counts[v] \in Nat \ {0} /\ deltas[v] \in Nat
    BY <1>1, <1>4 DEF Types
  <2> QED
    BY <2>1, TermIsNat
<1>6. my' = [my EXCEPT ![w].todo = @ \ {v}, ![w].delta = @ + t]
  BY <1>3, <1>5
<1>7. PICK e \in Nat : e = my[w].delta + t
  BY <1>4
<1> DEFINE m == [my[w] EXCEPT !.todo = my[w].todo \ {v}, !.delta = e]
<1>8. /\ m \in WorkerType /\ m.pc = "edges" /\ m.i = my[w].i /\ m.end = my[w].end /\ m.u = my[w].u
      /\ m.todo = my[w].todo \ {v} /\ m.delta = e
  <2>1. PICK S \in SUBSET Nodes : S = my[w].todo \ {v}
    BY <1>4
  <2>2. m = [my[w] EXCEPT !.todo = S, !.delta = e]
    BY <2>1
  <2> HIDE DEF m
  <2> QED
    BY <1>1, <2>1, <2>2 DEF WorkerType
<1>9. my' = [my EXCEPT ![w] = m]
  BY <1>1, <1>6, <1>7 DEF Types
<1> HIDE DEF m
<1>10. my' \in [Workers -> WorkerType] /\ my'[w] = m /\ \A x \in Workers \ {w} : my'[x] = my[x]
  BY <1>1, <1>8, <1>9, WorkerMoves
<1>11. BackAdded(w, v)
  BY <1>5, <1>7, <1>8, <1>10 DEF BackAdded
<1>12. KeepsPlace(w)
  BY <1>1, <1>8, <1>10 DEF KeepsPlace, Busy
<1>13. \A x \in Workers : KeepsPlace(x)
  BY <1>10, <1>12, ThoseWhoStay
<1>14. Types'
  BY <1>1, <1>10 DEF Types, args, main_vars, paths, sums
<1>15. \A x \in Workers : \A y \in my'[x].todo : path_counts[y] # 0
  BY <1>1, <1>8, <1>10 DEF InBack
<1>16. Claims(last - first)' /\ Hands(first, last - first, d - 1)'
  BY <1>1, <1>2, <1>13, BackScheduleKept
<1>17. SearchInv'
  BY <1>2, <1>14, <1>15, <1>16, BackAssembles
<1> QED
  BY <1>11, <1>17

(* The delta of a vertex is stored ...                                       *)
BackStored(w) ==
  /\ my' \in [Workers -> WorkerType] /\ \A x \in Workers \ {w} : my'[x] = my[x]
  /\ my'[w].pc = "score" /\ my'[w].u = my[w].u /\ my'[w].i = my[w].i /\ my'[w].end = my[w].end
  /\ my'[w].todo = {} /\ my'[w].delta = my[w].delta /\ my'[w].score = scores[my[w].u]
  /\ deltas' = [deltas EXCEPT ![my[w].u] = my[w].delta]
  /\ UNCHANGED scores

(* A thread stores a delta and reads the score it will add it to.            *)
LEMMA BackStoreDeltaKeeps ==
  ASSUME SearchInv, UNCHANGED <<args, main_vars>>, NEW w \in Workers, BackStoreDelta(w)
  PROVE  SearchInv' /\ BackStored(w)
<1>1. /\ Types /\ InBack /\ pc = "back" /\ my[w].pc = "edges" /\ my[w] \in WorkerType /\ my[w].todo = {}
      /\ UNCHANGED <<paths, queue_vars, scores, next_index>>
      /\ deltas' = [deltas EXCEPT ![my[w].u] = my[w].delta]
      /\ my' = [my EXCEPT ![w].score = scores[my[w].u], ![w].pc = "score"]
  BY DEF BackStoreDelta, At, SearchInv, Types
<1>2. BackFrame
  BY <1>1 DEF BackFrame
<1>3. my[w].u \in Nodes /\ my[w].delta \in Nat
  BY <1>1 DEF WorkerType
<1>4. PICK s \in Nat : s = scores[my[w].u]
  BY <1>1, <1>3 DEF Types
<1> DEFINE m == [my[w] EXCEPT !.score = s, !.pc = "score"]
<1>5. /\ m \in WorkerType /\ m.pc = "score" /\ m.i = my[w].i /\ m.end = my[w].end /\ m.u = my[w].u
      /\ m.todo = {} /\ m.delta = my[w].delta /\ m.score = s
  BY <1>1 DEF WorkerType, BackPCs
<1>6. my' = [my EXCEPT ![w] = m]
  BY <1>1, <1>4 DEF Types
<1> HIDE DEF m
<1>7. my' \in [Workers -> WorkerType] /\ my'[w] = m /\ \A x \in Workers \ {w} : my'[x] = my[x]
  BY <1>1, <1>5, <1>6, WorkerMoves
<1>8. BackStored(w)
  BY <1>1, <1>4, <1>5, <1>7 DEF BackStored
<1>9. KeepsPlace(w)
  BY <1>1, <1>5, <1>7 DEF KeepsPlace, Busy
<1>10. \A x \in Workers : KeepsPlace(x)
  BY <1>7, <1>9, ThoseWhoStay
<1>11. Types'
  <2>1. deltas' \in [Nodes -> Nat]
    BY <1>1, <1>3 DEF Types
  <2> QED
    BY <1>1, <1>7, <2>1 DEF Types, args, main_vars, paths
<1>12. \A x \in Workers : \A y \in my'[x].todo : path_counts[y] # 0
  BY <1>1, <1>5, <1>7 DEF InBack
<1>13. Claims(last - first)' /\ Hands(first, last - first, d - 1)'
  BY <1>1, <1>2, <1>10, BackScheduleKept
<1>14. SearchInv'
  BY <1>2, <1>11, <1>12, <1>13, BackAssembles
<1> QED
  BY <1>8, <1>14

(* ... and then its score.                                                   *)
BackScored(w) ==
  /\ my' \in [Workers -> WorkerType] /\ \A x \in Workers \ {w} : my'[x] = my[x]
  /\ my'[w].pc = "vertex" /\ my'[w].u = my[w].u /\ my'[w].i = my[w].i /\ my'[w].end = my[w].end
  /\ my'[w].todo = my[w].todo
  /\ scores' = [scores EXCEPT ![my[w].u] = my[w].score + my[w].delta]
  /\ UNCHANGED deltas

(* A thread stores the score and is done with the vertex.                    *)
LEMMA BackStoreScoreKeeps ==
  ASSUME SearchInv, UNCHANGED <<args, main_vars>>, NEW w \in Workers, BackStoreScore(w)
  PROVE  SearchInv' /\ BackScored(w)
<1>1. /\ Types /\ InBack /\ pc = "back" /\ my[w].pc = "score" /\ my[w] \in WorkerType
      /\ UNCHANGED <<paths, queue_vars, deltas, next_index>>
      /\ scores' = [scores EXCEPT ![my[w].u] = my[w].score + my[w].delta]
      /\ my' = [my EXCEPT ![w].pc = "vertex", ![w].delta = 0, ![w].score = 0]
  BY DEF BackStoreScore, At, SearchInv, Types
<1>2. BackFrame
  BY <1>1 DEF BackFrame
<1>3. my[w].u \in Nodes /\ my[w].score + my[w].delta \in Nat
  BY <1>1 DEF WorkerType
<1> DEFINE m == [my[w] EXCEPT !.pc = "vertex", !.delta = 0, !.score = 0]
<1>4. /\ m \in WorkerType /\ m.pc = "vertex" /\ m.i = my[w].i /\ m.end = my[w].end /\ m.u = my[w].u
      /\ m.todo = my[w].todo
  BY <1>1 DEF WorkerType, BackPCs
<1>5. my' = [my EXCEPT ![w] = m]
  BY <1>1 DEF Types
<1> HIDE DEF m
<1>6. my' \in [Workers -> WorkerType] /\ my'[w] = m /\ \A x \in Workers \ {w} : my'[x] = my[x]
  BY <1>1, <1>4, <1>5, WorkerMoves
<1>7. BackScored(w)
  BY <1>1, <1>4, <1>6 DEF BackScored
<1>8. KeepsPlace(w)
  BY <1>1, <1>4, <1>6 DEF KeepsPlace, Busy
<1>9. \A x \in Workers : KeepsPlace(x)
  BY <1>6, <1>8, ThoseWhoStay
<1>10. Types'
  <2>1. scores' \in [Nodes -> Nat]
    BY <1>1, <1>3 DEF Types
  <2> QED
    BY <1>1, <1>6, <2>1 DEF Types, args, main_vars, paths
<1>11. \A x \in Workers : \A y \in my'[x].todo : path_counts[y] # 0
  BY <1>1, <1>4, <1>6 DEF InBack
<1>12. Claims(last - first)' /\ Hands(first, last - first, d - 1)'
  BY <1>1, <1>2, <1>9, BackScheduleKept
<1>13. SearchInv'
  BY <1>2, <1>10, <1>11, <1>12, BackAssembles
<1> QED
  BY <1>7, <1>13

--------------------------------------------------------------------------------
(* Main.                                                                     *)

(* The threads of a new region.                                              *)
LEMMA ForkMeans ==
  ASSUME NEW l \in SearchPCs \cup BackPCs, Fork(l)
  PROVE  /\ my' \in [Workers -> WorkerType] /\ next_index' = 0
         /\ \A x \in Workers : /\ my'[x].pc = l /\ my'[x].depth = 0 /\ my'[x].i = 0 /\ my'[x].end = 0
                               /\ my'[x].todo = {} /\ my'[x].delta = 0
<1> DEFINE m == [NewWorker EXCEPT !.pc = l]
<1>1. /\ m \in WorkerType /\ m.pc = l /\ m.depth = 0 /\ m.i = 0 /\ m.end = 0 /\ m.todo = {} /\ m.delta = 0
  BY NodesAreFinite DEF NewWorker, WorkerType
<1>2. my' = [x \in Workers |-> m] /\ next_index' = 0
  BY DEF Fork
<1> HIDE DEF m
<1> QED
  BY <1>1, <1>2

(* Nobody has begun the schedule of a new region.                            *)
NewRegion(l) ==
  /\ next_index' = 0
  /\ \A x \in Workers : my'[x].pc = l /\ my'[x].i = 0 /\ my'[x].end = 0 /\ my'[x].todo = {}

(* When a region begins, nothing is claimed and all items of the loop are    *)
(* waiting.                                                                  *)
LEMMA NewSchedule ==
  ASSUME NEW n \in Nat, NEW b \in Nat, NEW k, NEW l \in {"while", "vertex"}, NewRegion(l)
  PROVE  /\ Claims(n)' /\ Hands(b, n, k)'
         /\ Waiting(b, n)' = {shared'[b + j] : j \in 0 .. n - 1}
<1> USE DEF NewRegion
<1>1. \A x \in Workers : ~Busy(x)'
  BY DEF Busy
<1>2. Claims(n)' /\ Hands(b, n, k)'
  BY <1>1 DEF Claims, Hands
<1>3. Ahead(n)' = 0 .. n - 1
  BY DEF Ahead
<1> QED
  BY <1>2, <1>3 DEF Waiting

(* The other steps leave the arguments alone, and the facts about an         *)
(* iteration hold after every step.                                          *)
RootIsKnown ==
  /\ root \in Nodes
  /\ Dist \in [Nodes -> Int]
  /\ \A v \in Nodes : Dist[v] \in -1 .. num_nodes
  /\ \A v \in Nodes : Dist[v] = 0 <=> v = root
  /\ \A v \in Nodes : Dist[v] > 0 => \E u \in Nodes : v \in out_neigh[u] /\ Dist[u] = Dist[v] - 1
  /\ \A u, v : <<u, v>> \in Edges <=> /\ u \in Nodes /\ v \in Nodes /\ v \in out_neigh[u]
                                     /\ Dist[u] # -1 /\ Dist[v] = Dist[u] + 1
  /\ Edges \subseteq Nodes \X Nodes
  /\ Counts \in [Nodes -> Nat]
  /\ Counts[root] = 1
  /\ \A v \in Nodes \ {root} : Counts[v] = SumFunctionOnSet(Counts, {u \in Nodes : <<u, v>> \in Edges})
  /\ \A v \in Nodes : Dist[v] = -1 <=> Counts[v] = 0

(* That is so in every iteration.                                            *)
LEMMA RootKnown == Types /\ iter > 0 => RootIsKnown
  BY RootFacts DEF RootIsKnown

(* An iteration begins.                                                      *)
LEMMA BeginIterationKeeps ==
  ASSUME SearchInv, UNCHANGED args, BeginIteration
  PROVE  SearchInv'
<1>1. /\ Types /\ QOK /\ BuffersMatch /\ pc = "next" /\ iter < num_iters /\ iter \in Nat
      /\ pc' = "bfs" /\ iter' = iter + 1 /\ depth_index' = <<0>> /\ succ' = {} /\ Fork("while")
      /\ UNCHANGED <<d, biggest_score, sums, args>>
  BY DEF SearchInv, BeginIteration, Types
<1>2. PICK s \in Nodes : s = sources[iter + 1]
  <2>1. iter + 1 \in 1 .. num_iters
    BY <1>1, BCAssumption
  <2> QED
    BY <1>1, <2>1 DEF Types
<1>3. /\ path_counts' = [n \in Nodes |-> IF n = s THEN 1 ELSE 0]
      /\ depths' = [n \in Nodes |-> IF n = s THEN 0 ELSE -1]
      /\ queue!reset_push_back_and_slide(s)
  BY <1>2 DEF BeginIteration
<1>4. /\ my' \in [Workers -> WorkerType] /\ next_index' = 0
      /\ \A x \in Workers : /\ my'[x].pc = "while" /\ my'[x].depth = 0 /\ my'[x].i = 0 /\ my'[x].end = 0
                            /\ my'[x].todo = {}
  BY <1>1, ForkMeans DEF SearchPCs
<1>5. \A t \in Workers : copy_start[t] = queue!NotFlushing /\ local_queue[t] = <<>>
  BY <1>1 DEF BuffersMatch
<1>6. /\ QOK' /\ queue!Pending' = {} /\ queue!Window' = {s}
      /\ shared_in' = 1 /\ shared_out_start' = 0 /\ shared_out_end' = 1 /\ shared'[0] = s
      /\ UNCHANGED <<local_queue, copy_start>>
  <2>1. QueueTypes
    BY <1>1 DEF QOK
  <2> QED
    BY <1>3, <1>5, <2>1, FirstPushKeepsQueue
<1>7. Types' /\ iter' > 0
  <2>1. iter' \in 0 .. num_iters /\ iter' > 0
    BY <1>1, BCAssumption
  <2>2. path_counts' \in [Nodes -> Nat] /\ depths' \in [Nodes -> Int]
    BY <1>3
  <2> QED
    BY <1>1, <1>4, <2>1, <2>2 DEF Types, args, sums
<1>8. BuffersMatch'
  BY <1>1, <1>4, <1>5, <1>6 DEF BuffersMatch
<1>9. RootIsKnown'
  <2>1. (Types /\ iter > 0 => RootIsKnown)'
    BY RootKnown, PTL
  <2> QED
    BY <1>7, <2>1
<1>10. root' = s
  BY <1>1, <1>2 DEF root, args
<1>11. level' = 0 /\ Len(depth_index') = 1 /\ depth_index'[1] = 0
  BY <1>1 DEF level
<1>12. queue!size' = 1
  BY <1>6 DEF queue!size
<1>13. PICK n \in Nat, b \in Nat, k \in Int : n = 1 /\ b = 0 /\ k = 0
  OBVIOUS
<1>14. /\ Claims(n)' /\ Hands(b, n, k)' /\ Waiting(b, n)' = {shared'[b + j] : j \in 0 .. n - 1}
  <2>1. NewRegion("while")
    BY <1>4 DEF NewRegion
  <2> QED
    BY <2>1, NewSchedule
<1>15. /\ Claims(queue!size)' /\ Hands(shared_out_start, queue!size, level)'
       /\ s \in Waiting(shared_out_start, queue!size)'
  <2>1. n = queue!size' /\ b = shared_out_start' /\ k = level'
    BY <1>6, <1>11, <1>12, <1>13
  <2>2. 0 \in 0 .. n - 1 /\ b + 0 = 0
    BY <1>13
  <2>3. s \in {shared'[b + j] : j \in 0 .. n - 1}
    BY <1>6, <2>2
  <2> QED
    BY <1>14, <2>1, <2>3
<1>16. \A x \in Workers : SearchWorker(x)'
  BY <1>4, <1>11 DEF SearchWorker, SearchPCs, Looking
<1>17. DepthsOK'
  <2>1. \A v \in Nodes : depths'[v] = IF v = s THEN 0 ELSE -1
    BY <1>3
  <2>2. \A v \in Nodes : (Dist'[v] = 0 <=> v = s)
    BY <1>9, <1>10 DEF RootIsKnown
  <2> QED
    BY <1>11, <2>1, <2>2 DEF DepthsOK
<1>18. SuccOK'
  <2>1. \A a : Unmarked(s, a)'
    BY <1>15 DEF Unmarked
  <2>2. \A a, c : <<a, c>> \in Edges' => a \in Nodes /\ Dist'[a] # -1 /\ Dist'[a] \in -1 .. num_nodes
                                       /\ (Dist'[a] = 0 <=> a = s)
    BY <1>9, <1>10 DEF RootIsKnown
  <2>3. num_nodes \in Nat
    BY NodesAreFinite
  <2>4. \A a, c : <<a, c>> \in Edges' => ~(Dist'[a] < 0) /\ (Dist'[a] = 0 => a = s)
    BY <2>2, <2>3
  <2> HIDE DEF Unmarked
  <2> QED
    BY <1>1, <1>11, <2>1, <2>4 DEF SuccOK
<1>19. CountsOK'
  <2>1. \A v : Counted(v)' = {}
    BY <1>1 DEF Counted
  <2>2. SumFunctionOnSet(Counts', {}) = 0
    BY SumEmpty
  <2>3. ASSUME NEW v \in Nodes
        PROVE  path_counts'[v] = IF Dist'[v] <= 0 THEN Counts'[v] ELSE SumFunctionOnSet(Counts', Counted(v)')
    <3>1. path_counts'[v] = IF v = s THEN 1 ELSE 0
      BY <1>3
    <3>2. /\ Dist'[v] \in -1 .. num_nodes /\ (Dist'[v] = 0 <=> v = s) /\ Counts'[s] = 1
          /\ (Dist'[v] = -1 <=> Counts'[v] = 0)
      BY <1>9, <1>10 DEF RootIsKnown
    <3>3. SumFunctionOnSet(Counts', Counted(v)') = 0
      BY <2>1, <2>2
    <3>4. num_nodes \in Nat
      BY NodesAreFinite
    <3> QED
      BY <3>1, <3>2, <3>3, <3>4
  <2> QED
    BY <1>11, <2>3 DEF CountsOK
<1>20. QueueOK'
  <2>1. \A x \in Workers : ~Pushing(x)'
    BY <1>4 DEF Pushing
  <2>2. Unpushed' = {} /\ PushesOK'
    BY <2>1 DEF Unpushed, PushesOK
  <2>3. {v \in Nodes : depths'[v] = level' + 1} = {}
    BY <1>3, <1>11
  <2>4. Level(0)' = {s}
    BY <1>9, <1>10 DEF Level, RootIsKnown
  <2>5. queue!Window' = Level(level)'
    <3>1. Level(level)' = {v \in Nodes : Dist'[v] = level'}
      BY DEF Level
    <3>2. Level(0)' = {v \in Nodes : Dist'[v] = 0}
      BY DEF Level
    <3> QED
      BY <1>6, <1>11, <2>4, <3>1, <3>2
  <2>6. \A i \in 0 .. shared_out_end' - 1 : Dist'[shared'[i]] \in 0 .. level'
    <3>1. Dist'[s] = 0 /\ 0 .. shared_out_end' - 1 = {0}
      BY <1>6, <1>9, <1>10 DEF RootIsKnown
    <3> QED
      BY <1>6, <1>11, <3>1
  <2>7. LevelsOK(level)'
    <3>1. Begin(0)' = 0
      BY <1>6, <1>11 DEF Begin
    <3>2. 0 .. level' - 1 = {}
      BY <1>11
    <3> QED
      BY <1>11, <3>1, <3>2 DEF LevelsOK
  <2> QED
    BY <1>6, <2>2, <2>3, <2>5, <2>6, <2>7 DEF QueueOK
<1>21. InSearch'
  BY <1>11, <1>15, <1>16, <1>17, <1>18, <1>19, <1>20 DEF InSearch
<1> QED
  BY <1>1, <1>6, <1>7, <1>8, <1>21 DEF SearchInv

(* The slot where the window begins is appended to depth_index.              *)
LEMMA AppendKeepsBegin ==
  ASSUME depth_index \in Seq(Nat), Len(depth_index) >= 1, shared_out_start \in Nat,
         depth_index' = Append(depth_index, shared_out_start)
  PROVE  /\ depth_index' \in Seq(Nat) /\ Len(depth_index') = Len(depth_index) + 1
         /\ depth_index'[1] = depth_index[1]
         /\ level \in Nat /\ level' = level + 1 /\ Levels' = level
         /\ \A j \in 0 .. level : Begin(j)' = Begin(j)
         /\ Begin(level) = shared_out_start /\ \A j : j = level + 1 => Begin(j)' = shared_out_start'
<1>1. PICK n \in Nat : n = Len(depth_index) /\ n >= 1
  OBVIOUS
<1>2. /\ depth_index' \in Seq(Nat) /\ Len(depth_index') = n + 1
      /\ \A j \in 1 .. n : depth_index'[j] = depth_index[j]
      /\ depth_index'[n + 1] = shared_out_start
  BY <1>1
<1>3. level = n - 1 /\ level' = n /\ Levels' = n - 1
  BY <1>1, <1>2 DEF level, Levels
<1>4. ASSUME NEW j \in 0 .. n - 1 PROVE Begin(j)' = Begin(j)
  <2>1. CASE j + 2 <= n
    BY <1>1, <1>2, <2>1 DEF Begin
  <2>2. CASE j + 2 > n
    <3>1. j + 2 = n + 1
      BY <2>2, <1>1
    <3> QED
      BY <1>1, <1>2, <3>1 DEF Begin
  <2> QED
    BY <1>1, <2>1, <2>2
<1>5. Begin(level) = shared_out_start
  BY <1>1, <1>3 DEF Begin
<1>6. \A j : j = level + 1 => Begin(j)' = shared_out_start'
  BY <1>1, <1>2, <1>3 DEF Begin
<1> QED
  BY <1>1, <1>2, <1>3, <1>4, <1>5, <1>6

(* When all threads have come to the end of a level, every edge out of it is *)
(* marked and counted, and the vertices of the next level are those that     *)
(* have been pushed.                                                         *)
LEMMA LevelIsDone ==
  ASSUME SearchInv, pc = "bfs", \A w \in Workers : my[w].pc = "barrier"
  PROVE  /\ \A t \in Workers : copy_start[t] = queue!NotFlushing /\ local_queue[t] = <<>>
         /\ \A u, v \in Nodes : <<u, v>> \in succ <=> <<u, v>> \in Edges /\ Dist[u] <= level
         /\ \A v \in Nodes : Counted(v) = {u \in Nodes : <<u, v>> \in succ}
         /\ queue!Pending = {v \in Nodes : depths[v] = level + 1}
         /\ queue!Pending = Level(level + 1)
         /\ \A v \in Nodes : Dist[v] \in 0 .. level + 1 => depths[v] = Dist[v]
         /\ \A v \in Nodes : Dist[v] <= level + 1 => path_counts[v] = Counts[v]
<1>1. /\ Types /\ InSearch /\ QOK /\ BuffersMatch /\ iter > 0 /\ level \in Nat
      /\ \A w \in Workers : SearchWorker(w)
      /\ queue!size \in Nat /\ next_index \in Nat
  BY BCAssumption, StepFacts DEF SearchInv, Types
<1>2. \A t \in Workers : copy_start[t] = queue!NotFlushing /\ local_queue[t] = <<>>
  BY <1>1 DEF BuffersMatch
<1>3. next_index >= queue!size /\ \A w \in Workers : my[w].i = 0 /\ my[w].end = 0 /\ my[w].todo = {}
  BY <1>1, BCAssumption DEF SearchWorker
<1>4. \A u, v : ~Unmarked(u, v)
  <2>1. Waiting(shared_out_start, queue!size) = {}
    <3>1. Ahead(queue!size) = {}
      BY <1>1, <1>3 DEF Ahead
    <3> QED
      BY <3>1 DEF Waiting
  <2>2. \A w \in Workers : Held(w) = {}
    BY <1>3 DEF Held, Looking
  <2> QED
    BY <2>1, <2>2 DEF Unmarked
<1>5. \A u, v : ~Counting(u, v)
  BY DEF Counting
<1>6. RootIsKnown
  BY <1>1, RootKnown
<1>7. \A u, v \in Nodes : <<u, v>> \in succ <=> <<u, v>> \in Edges /\ Dist[u] <= level
  <2>1. \A u, v \in Nodes : <<u, v>> \in succ <=> <<u, v>> \in Edges /\ (Dist[u] < level \/ Dist[u] = level)
    BY <1>1, <1>4 DEF InSearch, SuccOK
  <2>2. \A u \in Nodes : (Dist[u] < level \/ Dist[u] = level) <=> Dist[u] <= level
    BY <1>1, <1>6 DEF RootIsKnown
  <2> QED
    BY <2>1, <2>2
<1>8. \A v \in Nodes : Counted(v) = {u \in Nodes : <<u, v>> \in succ}
  BY <1>5 DEF Counted
<1>9. Unpushed = {}
  BY DEF Unpushed, Pushing
<1>10. queue!Pending = {v \in Nodes : depths[v] = level + 1}
  BY <1>1, <1>9 DEF InSearch, QueueOK
<1>11. ASSUME NEW v \in Nodes, Dist[v] = level + 1
       PROVE  /\ depths[v] = level + 1
              /\ {u \in Nodes : <<u, v>> \in succ} = {u \in Nodes : <<u, v>> \in Edges}
              /\ v # root
  <2>1. PICK u \in Nodes : v \in out_neigh[u] /\ Dist[u] = level
    <3>1. Dist[v] > 0
      BY <1>1, <1>11
    <3>2. PICK u \in Nodes : v \in out_neigh[u] /\ Dist[u] = Dist[v] - 1
      BY <1>6, <3>1 DEF RootIsKnown
    <3> QED
      BY <1>1, <1>11, <3>2
  <2>2. <<u, v>> \in Edges
    BY <1>1, <1>6, <1>11, <2>1 DEF RootIsKnown
  <2>3. <<u, v>> \in succ
    BY <1>1, <1>7, <2>1, <2>2
  <2>4. depths[v] # -1 /\ depths[v] \in {-1, Dist[v]}
    BY <1>1, <2>3 DEF InSearch, SuccOK, DepthsOK
  <2>5. \A x \in Nodes : <<x, v>> \in Edges => Dist[x] <= level
    <3>1. \A x \in Nodes : <<x, v>> \in Edges => Dist[v] = Dist[x] + 1 /\ Dist[x] \in Int
      BY <1>6 DEF RootIsKnown
    <3> QED
      BY <1>1, <1>11, <3>1
  <2>6. v # root
    BY <1>1, <1>6, <1>11 DEF RootIsKnown
  <2> QED
    BY <1>7, <1>11, <2>4, <2>5, <2>6
<1>12. \A v \in Nodes : depths[v] = level + 1 => Dist[v] = level + 1
  <2>1. \A v \in Nodes : depths[v] \in {-1, Dist[v]}
    BY <1>1 DEF InSearch, DepthsOK
  <2> QED
    BY <1>1, <2>1
<1>13. queue!Pending = Level(level + 1)
  BY <1>10, <1>11, <1>12 DEF Level
<1>14. \A v \in Nodes : Dist[v] \in 0 .. level + 1 => depths[v] = Dist[v]
  <2>1. \A v \in Nodes : Dist[v] \in 0 .. level => depths[v] = Dist[v]
    BY <1>1 DEF InSearch, DepthsOK
  <2> QED
    BY <1>1, <1>11, <2>1
<1>15. ASSUME NEW v \in Nodes, Dist[v] <= level + 1 PROVE path_counts[v] = Counts[v]
  <2>1. path_counts[v] = IF Dist[v] <= level THEN Counts[v] ELSE SumFunctionOnSet(Counts, Counted(v))
    BY <1>1 DEF InSearch, CountsOK
  <2>2. CASE Dist[v] = level + 1
    <3>1. Counted(v) = {u \in Nodes : <<u, v>> \in Edges} /\ v # root
      BY <1>8, <1>11, <2>2
    <3>2. Counts[v] = SumFunctionOnSet(Counts, Counted(v))
      BY <1>6, <3>1 DEF RootIsKnown
    <3> QED
      BY <1>1, <2>1, <2>2, <3>2
  <2>3. CASE Dist[v] <= level
    BY <2>1, <2>3
  <2>4. Dist[v] \in Int
    BY <1>6 DEF RootIsKnown
  <2> QED
    BY <1>1, <1>15, <2>2, <2>3, <2>4
<1> QED
  BY <1>2, <1>7, <1>8, <1>10, <1>13, <1>14, <1>15

(* The barriers of a level, and the slide between them.                      *)
LEMMA NextLevelKeeps ==
  ASSUME SearchInv, UNCHANGED args, NextLevel
  PROVE  SearchInv'
<1>1. /\ Types /\ InSearch /\ QOK /\ QueueTypes /\ BuffersMatch /\ pc = "bfs" /\ pc' = "bfs" /\ iter > 0
      /\ \A w \in Workers : my[w].pc = "barrier" /\ my[w] \in WorkerType /\ SearchWorker(w)
      /\ depth_index' = Append(depth_index, shared_out_start)
      /\ queue!slide_window
      /\ my' = [w \in Workers |-> [my[w] EXCEPT !.pc = "while"]]
      /\ next_index' = 0
      /\ UNCHANGED <<iter, d, biggest_score, paths, sums, args>>
  BY DEF SearchInv, NextLevel, AllAt, At, Types, InSearch, QOK
<1>2. /\ depth_index' \in Seq(Nat) /\ Len(depth_index') = Len(depth_index) + 1
      /\ depth_index'[1] = depth_index[1] /\ depth_index'[1] = 0
      /\ level \in Nat /\ level' = level + 1
      /\ \A j \in 0 .. level : Begin(j)' = Begin(j)
      /\ Begin(level) = shared_out_start /\ \A j : j = level + 1 => Begin(j)' = shared_out_start'
  <2>1. depth_index \in Seq(Nat) /\ Len(depth_index) >= 1 /\ shared_out_start \in Nat /\ depth_index[1] = 0
    BY <1>1 DEF Types, InSearch, QueueTypes, QueueOK, LevelsOK
  <2> QED
    BY <1>1, <2>1, AppendKeepsBegin
<1>3. /\ \A t \in Workers : copy_start[t] = queue!NotFlushing /\ local_queue[t] = <<>>
      /\ \A u, v \in Nodes : <<u, v>> \in succ <=> <<u, v>> \in Edges /\ Dist[u] <= level
      /\ \A v \in Nodes : Counted(v) = {u \in Nodes : <<u, v>> \in succ}
      /\ queue!Pending = {v \in Nodes : depths[v] = level + 1}
      /\ queue!Pending = Level(level + 1)
      /\ \A v \in Nodes : Dist[v] \in 0 .. level + 1 => depths[v] = Dist[v]
      /\ \A v \in Nodes : Dist[v] <= level + 1 => path_counts[v] = Counts[v]
  BY <1>1, LevelIsDone
<1>4. QOK' /\ queue!Pending' = {} /\ queue!Window' = queue!Pending
  BY <1>1, <1>3, SlideKeepsQueue
<1>5. /\ root' = root /\ Dist' = Dist /\ Edges' = Edges /\ Counts' = Counts
      /\ \A k : Level(k)' = Level(k)
  BY <1>1, RootStays
<1>6. RootIsKnown
  BY <1>1, RootKnown
<1>7. /\ my' \in [Workers -> WorkerType]
      /\ \A w \in Workers : /\ my'[w].pc = "while" /\ my'[w].depth = my[w].depth /\ my'[w].i = 0 /\ my'[w].end = 0
                            /\ my'[w].todo = {}
  <2>1. \A w \in Workers : my[w].i = 0 /\ my[w].end = 0 /\ my[w].todo = {}
    BY <1>1 DEF SearchWorker
  <2>2. \A w \in Workers : my'[w] = [my[w] EXCEPT !.pc = "while"]
    BY <1>1
  <2>3. \A w \in Workers : /\ my'[w] \in WorkerType
                           /\ my'[w].pc = "while" /\ my'[w].depth = my[w].depth /\ my'[w].i = my[w].i
                           /\ my'[w].end = my[w].end /\ my'[w].todo = my[w].todo
    <3> SUFFICES ASSUME NEW w \in Workers
                 PROVE  /\ my'[w] \in WorkerType
                        /\ my'[w].pc = "while" /\ my'[w].depth = my[w].depth /\ my'[w].i = my[w].i
                        /\ my'[w].end = my[w].end /\ my'[w].todo = my[w].todo
      OBVIOUS
    <3> QED
      BY <1>1, <2>2 DEF WorkerType, SearchPCs, BackPCs
  <2>4. my' = [w \in Workers |-> my'[w]]
    BY <1>1
  <2> QED
    BY <2>1, <2>3, <2>4
<1>8. Types'
  BY <1>1, <1>2, <1>7 DEF Types, args, paths, sums
<1>9. BuffersMatch'
  BY <1>1, <1>3, <1>7 DEF BuffersMatch, queue!slide_window, queue!NotFlushing
<1>10. PICK n \in Nat, b \in Nat, k \in Int : n = queue!size' /\ b = shared_out_start' /\ k = level'
  <2>1. shared_out_end \in Nat /\ shared_in \in Nat /\ shared_out_end <= shared_in
    BY <1>1 DEF QueueTypes
  <2>2. shared_out_start' \in Nat /\ queue!size' \in Nat
    BY <1>1, <2>1 DEF queue!slide_window, queue!size
  <2> QED
    BY <1>2, <2>2
<1>11. /\ Claims(n)' /\ Hands(b, n, k)' /\ Waiting(b, n)' = {shared'[b + j] : j \in 0 .. n - 1}
  <2>1. NewRegion("while")
    BY <1>1, <1>7 DEF NewRegion
  <2> QED
    BY <2>1, NewSchedule
<1>12. /\ Claims(queue!size)' /\ Hands(shared_out_start, queue!size, level)'
       /\ Waiting(shared_out_start, queue!size)' = {shared'[b + j] : j \in 0 .. n - 1}
  BY <1>10, <1>11
<1>13. \A x \in Workers : SearchWorker(x)'
  <2>1. \A x \in Workers : my[x].depth = level + 1
    BY <1>1 DEF SearchWorker
  <2> QED
    BY <1>2, <1>7, <2>1 DEF SearchWorker, SearchPCs, Looking
<1>14. DepthsOK'
  <2>1. \A v \in Nodes : depths'[v] = depths[v] /\ depths[v] \in {-1, Dist[v]} /\ depths[v] <= level + 1
                         /\ depths[v] \in Int
    BY <1>1 DEF paths, InSearch, DepthsOK, Types
  <2>2. \A v \in Nodes : depths[v] <= level + 2
    BY <1>2, <2>1
  <2> QED
    BY <1>2, <1>3, <1>5, <2>1, <2>2 DEF DepthsOK
<1>15. \A v \in Level(level + 1) : v \in Waiting(shared_out_start, queue!size)'
  <2>1. shared_out_start' \in Nat /\ shared_out_end' \in Nat /\ queue!size' = shared_out_end' - shared_out_start'
    BY <1>4 DEF QOK, QueueTypes, queue!size
  <2>2. queue!Window' = {shared'[i] : i \in b .. b + n - 1}
    <3>1. shared_out_start' = b /\ shared_out_end' = b + n
      <4>1. PICK z \in Nat : z = shared_out_end'
        BY <2>1
      <4>2. b = shared_out_start' /\ n = z - b
        BY <1>10, <2>1, <4>1
      <4>3. z = b + n
        <5>1. n \in Nat /\ b \in Nat /\ z \in Nat
          BY <1>10, <4>1
        <5>2. n = z - b
          BY <4>2
        <5> QED
          BY <5>1, <5>2
      <4> QED
        BY <4>1, <4>2, <4>3
    <3>2. (b + n) - 1 = b + n - 1
      OBVIOUS
    <3> QED
      BY <3>1, <3>2 DEF queue!Window, queue!WindowSlots
  <2>3. ASSUME NEW v \in Level(level + 1) PROVE \E j \in 0 .. n - 1 : shared'[b + j] = v
    <3>1. PICK i \in b .. b + n - 1 : shared'[i] = v
      BY <1>3, <1>4, <2>2
    <3>2. i - b \in 0 .. n - 1 /\ b + (i - b) = i
      OBVIOUS
    <3> QED
      BY <3>1, <3>2
  <2> QED
    BY <1>12, <2>3
<1>16. SuccOK'
  <2>1. \A u, v : Dist[u] = level + 1 /\ u \in Nodes => Unmarked(u, v)'
    BY <1>15 DEF Unmarked, Level
  <2>2. \A u \in Nodes : Dist[u] <= level <=> Dist[u] < level + 1
    BY <1>2, <1>6 DEF RootIsKnown
  <2>3. \A u, v \in Nodes : <<u, v>> \in succ => depths[v] # -1
    BY <1>1 DEF InSearch, SuccOK
  <2> HIDE DEF Unmarked
  <2> QED
    BY <1>1, <1>2, <1>3, <1>5, <2>1, <2>2, <2>3 DEF SuccOK, paths
<1>17. CountsOK'
  <2>1. \A u, v : ~Counting(u, v)'
    BY <1>7 DEF Counting
  <2>2. \A v \in Nodes : Counted(v)' = Counted(v)
    <3>1. \A v \in Nodes : Counted(v)' = {u \in Nodes : <<u, v>> \in succ'}
      BY <2>1 DEF Counted
    <3> QED
      BY <1>1, <1>3, <3>1 DEF paths
  <2>3. ASSUME NEW v \in Nodes
        PROVE  path_counts'[v] = IF Dist[v] <= level + 1 THEN Counts[v] ELSE SumFunctionOnSet(Counts, Counted(v))
    <3>1. path_counts'[v] = path_counts[v]
      BY <1>1 DEF paths
    <3>2. CASE Dist[v] <= level + 1
      BY <1>3, <3>1, <3>2
    <3>3. CASE ~(Dist[v] <= level + 1)
      <4>1. ~(Dist[v] <= level)
        BY <1>2, <1>6, <3>3 DEF RootIsKnown
      <4> QED
        BY <1>1, <3>1, <3>3, <4>1 DEF InSearch, CountsOK
    <3> QED
      BY <3>2, <3>3
  <2> QED
    BY <1>2, <1>5, <2>2, <2>3 DEF CountsOK
<1>18. QueueOK'
  <2>1. \A x \in Workers : ~Pushing(x)'
    BY <1>7 DEF Pushing
  <2>2. Unpushed' = {} /\ PushesOK'
    BY <2>1 DEF Unpushed, PushesOK
  <2>3. {v \in Nodes : depths'[v] = level' + 1} = {}
    <3>1. \A v \in Nodes : depths'[v] = depths[v] /\ depths[v] <= level + 1 /\ depths[v] \in Int
      BY <1>1 DEF paths, InSearch, DepthsOK, Types
    <3> QED
      BY <1>2, <3>1
  <2>4. queue!Window' = Level(level)'
    BY <1>2, <1>3, <1>4, <1>5 DEF Level
  <2>5. /\ shared' = shared /\ shared_out_start' = shared_out_end /\ shared_out_end' = shared_in
        /\ shared_out_start \in Nat /\ shared_out_end \in Nat /\ shared_in \in Nat
        /\ shared_out_start <= shared_out_end
    BY <1>1 DEF queue!slide_window, QueueTypes
  <2>6. \A i \in 0 .. shared_out_end' - 1 : Dist'[shared'[i]] \in 0 .. level'
    <3>1. ASSUME NEW i \in 0 .. shared_in - 1 PROVE Dist[shared[i]] \in 0 .. level + 1
      <4>1. CASE i <= shared_out_end - 1
        <5>1. Dist[shared[i]] \in 0 .. level
          BY <1>1, <2>5, <4>1 DEF InSearch, QueueOK
        <5> QED
          BY <1>2, <5>1
      <4>2. CASE ~(i <= shared_out_end - 1)
        <5>1. i \in queue!WindowSlots'
          BY <2>5, <4>2 DEF queue!WindowSlots
        <5>2. shared[i] \in queue!Window'
          BY <2>5, <5>1 DEF queue!Window
        <5>3. shared[i] \in Level(level + 1)
          BY <1>3, <1>4, <5>2
        <5> QED
          BY <1>2, <5>3 DEF Level
      <4> QED
        BY <4>1, <4>2
    <3> QED
      BY <1>2, <1>5, <2>5, <3>1
  <2>7. LevelsOK(level)'
    <3>1. LevelsOK(level) /\ queue!Window = Level(level)
      BY <1>1 DEF InSearch, QueueOK
    <3>2. PICK m \in Nat : m = level /\ level' = m + 1
      BY <1>2
    <3>3. Begin(0)' = 0
      BY <1>2, <3>1, <3>2 DEF LevelsOK
    <3>4. ASSUME NEW j \in 0 .. m
          PROVE  /\ Begin(j)' <= Begin(j + 1)' /\ Begin(j + 1)' <= shared_out_end'
                 /\ {shared'[i] : i \in Begin(j)' .. Begin(j + 1)' - 1} = Level(j)
      <4>1. CASE j # m
        <5>1. j \in 0 .. level - 1 /\ j \in 0 .. level /\ j + 1 \in 0 .. level
          BY <3>2, <4>1
        <5>2. Begin(j)' = Begin(j) /\ Begin(j + 1)' = Begin(j + 1)
          <6>1. PICK i \in 0 .. level : i = j + 1
            BY <5>1
          <6>2. Begin(i)' = Begin(i)
            BY <1>2
          <6> QED
            BY <1>2, <5>1, <6>1, <6>2
        <5>3. /\ Begin(j) <= Begin(j + 1) /\ Begin(j + 1) <= shared_out_end
              /\ {shared[i] : i \in Begin(j) .. Begin(j + 1) - 1} = Level(j)
          BY <3>1, <5>1 DEF LevelsOK
        <5>4. Begin(j + 1) \in Nat
          <6>1. depth_index \in Seq(Nat)
            BY <1>1 DEF Types
          <6> QED
            BY <2>5, <6>1 DEF Begin
        <5>5. shared_out_end <= shared_out_end'
          BY <1>1, <2>5 DEF QueueTypes
        <5>6. Begin(j + 1) <= shared_out_end'
          BY <2>5, <5>3, <5>4, <5>5
        <5> QED
          BY <2>5, <5>2, <5>3, <5>6
      <4>2. CASE j = m
        <5>1. Begin(j)' = shared_out_start
          BY <1>2, <3>2, <4>2
        <5>2. Begin(j + 1)' = shared_out_end
          <6>1. PICK i : i = level + 1
            OBVIOUS
          <6>2. j + 1 = i
            BY <3>2, <4>2, <6>1
          <6>3. Begin(i)' = shared_out_start'
            BY <1>2, <6>1
          <6> QED
            BY <2>5, <6>2, <6>3
        <5>3. {shared[i] : i \in shared_out_start .. shared_out_end - 1} = Level(j)
          BY <3>1, <3>2, <4>2 DEF queue!Window, queue!WindowSlots
        <5>4. shared_out_end <= shared_out_end'
          BY <1>1, <2>5 DEF QueueTypes
        <5> QED
          BY <2>5, <5>1, <5>2, <5>3, <5>4
      <4> QED
        BY <4>1, <4>2
    <3>5. \A j \in 0 .. m : Level(j)' = Level(j)
      BY <1>5
    <3>6. 0 .. level' - 1 = 0 .. m
      BY <3>2
    <3> QED
      BY <1>2, <3>3, <3>4, <3>5, <3>6 DEF LevelsOK
  <2> QED
    BY <1>4, <2>2, <2>3, <2>4, <2>6, <2>7 DEF QueueOK
<1>19. InSearch'
  <2>1. Len(depth_index') >= 1
    BY <1>1, <1>2 DEF InSearch, Types
  <2> QED
    BY <2>1, <1>12, <1>13, <1>14, <1>16, <1>17, <1>18 DEF InSearch
<1> QED
  BY <1>1, <1>4, <1>8, <1>9, <1>19 DEF SearchInv

(* What the loop over a level goes through; and so after every step that     *)
(* keeps the levels.                                                         *)
Loop ==
  /\ first \in Nat /\ last \in Nat /\ first <= last /\ last <= shared_out_end
  /\ {shared[i] : i \in first .. last - 1} = IF d = 0 THEN {} ELSE Level(d - 1)
  /\ LoopOver(first, last - first, d - 1)
  /\ d > 0 => \A v \in Level(d - 1) : \E j \in 0 .. last - first - 1 : shared[first + j] = v

(* That is so at every level of the way back.                                *)
LEMMA LoopKnown == Types /\ QOK /\ LevelsOK(Levels) /\ d \in 0 .. Levels => Loop
  BY LoopFacts DEF Loop

(* When all threads have seen the queue empty, no vertex is as deep as the   *)
(* level they are at: everything is counted and marked, and no item is left  *)
(* behind the window.                                                        *)
LEMMA SearchIsOver ==
  ASSUME SearchInv, pc = "bfs", \A w \in Workers : my[w].pc = "done"
  PROVE  /\ \A t \in Workers : copy_start[t] = queue!NotFlushing /\ local_queue[t] = <<>>
         /\ \A v \in Nodes : Dist[v] < level
         /\ path_counts = Counts /\ succ = Edges
         /\ shared_in = shared_out_end
<1>1. /\ Types /\ InSearch /\ QOK /\ QueueTypes /\ BuffersMatch /\ iter > 0 /\ level \in Nat
      /\ \A w \in Workers : SearchWorker(w)
  BY BCAssumption, StepFacts DEF SearchInv, Types, QOK
<1>2. \A t \in Workers : copy_start[t] = queue!NotFlushing /\ local_queue[t] = <<>>
  BY <1>1 DEF BuffersMatch
<1>3. queue!empty
  BY <1>1, BCAssumption DEF SearchWorker
<1>4. Level(level) = {}
  <2>1. queue!WindowSlots = {}
    <3>1. PICK a \in Nat : a = shared_out_start /\ a = shared_out_end
      BY <1>1, <1>3 DEF queue!empty, QueueTypes
    <3>2. a .. a - 1 = {}
      OBVIOUS
    <3> QED
      BY <3>1, <3>2 DEF queue!WindowSlots
  <2>2. queue!Window = {}
    BY <2>1 DEF queue!Window
  <2> QED
    BY <1>1, <2>2 DEF InSearch, QueueOK
<1>5. RootIsKnown
  BY <1>1, RootKnown
<1>6. ASSUME NEW v \in Nodes, ~(Dist[v] < level) PROVE FALSE
  <2>1. PICK l \in Nat : l = level
    BY <1>1
  <2> DEFINE F == {k \in Nat : k >= l /\ \E u \in Nodes : Dist[u] = k}
  <2>2. Dist[v] \in Int
    BY <1>5 DEF RootIsKnown
  <2>3. Dist[v] \in F
    BY <1>6, <2>1, <2>2
  <2>4. PICK m \in F : \A k \in F : m <= k
    <3>1. F \subseteq Nat /\ F # {}
      BY <2>3
    <3> HIDE DEF F
    <3> QED
      BY <3>1, SmallestNumber
  <2>5. PICK u \in Nodes : Dist[u] = m
    BY <2>4
  <2>6. m # l
    BY <1>4, <2>1, <2>5 DEF Level
  <2>7. m \in Nat /\ m > l
    BY <2>1, <2>4, <2>6
  <2>8. PICK x \in Nodes : Dist[x] = Dist[u] - 1
    <3>1. Dist[u] > 0
      BY <2>1, <2>5, <2>7
    <3> QED
      BY <1>5, <3>1 DEF RootIsKnown
  <2>9. m - 1 \in F
    BY <2>1, <2>5, <2>7, <2>8
  <2> QED
    BY <2>4, <2>7, <2>9
<1>7. path_counts = Counts
  <2>1. \A v \in Nodes : Dist[v] <= level
    <3>1. \A v \in Nodes : Dist[v] \in Int
      BY <1>5 DEF RootIsKnown
    <3> QED
      BY <1>1, <1>6, <3>1
  <2>2. \A v \in Nodes : path_counts[v] = Counts[v]
    BY <1>1, <2>1 DEF InSearch, CountsOK
  <2>3. path_counts \in [Nodes -> Nat] /\ Counts \in [Nodes -> Nat]
    BY <1>1, <1>5 DEF Types, RootIsKnown
  <2> HIDE DEF Counts
  <2> QED
    BY <2>2, <2>3
<1>8. succ = Edges
  <2>1. \A u, v \in Nodes : <<u, v>> \in succ <=> <<u, v>> \in Edges
    BY <1>1, <1>6 DEF InSearch, SuccOK
  <2>2. succ \subseteq Nodes \X Nodes /\ Edges \subseteq Nodes \X Nodes
    BY <1>1, <1>5 DEF Types, RootIsKnown
  <2> HIDE DEF Edges
  <2> QED
    BY <2>1, <2>2
<1>9. shared_in = shared_out_end
  <2>1. shared_in \in Nat /\ shared_out_end \in Nat /\ shared_out_end <= shared_in
    BY <1>1 DEF QueueTypes
  <2>2. ASSUME shared_in # shared_out_end PROVE FALSE
    <3>1. PICK i \in 0 .. shared_in - 1 : i = shared_out_end
      BY <2>1, <2>2
    <3>2. \A t \in Workers : i \notin queue!Reserved(t)
      BY <1>2 DEF queue!Reserved
    <3>3. i \in queue!Written
      BY <3>1, <3>2, WrittenMeans
    <3>4. shared[i] \in queue!Pending
      BY <1>1, <2>1, <3>1, <3>3, PendingMeans DEF PendingParts
    <3>5. PICK v \in Nodes : depths[v] = level + 1
      BY <1>1, <3>4 DEF InSearch, QueueOK
    <3>6. depths[v] \in {-1, Dist[v]}
      BY <1>1 DEF InSearch, DepthsOK
    <3>7. Dist[v] = level + 1
      BY <1>1, <3>5, <3>6
    <3> QED
      BY <1>1, <1>6, <3>7
  <2> QED
    BY <2>2
<1> QED
  BY <1>2, <1>6, <1>7, <1>8, <1>9

(* The search ends and the way back begins.                                  *)
LEMMA EndSearchKeeps ==
  ASSUME SearchInv, UNCHANGED args, EndSearch
  PROVE  SearchInv'
<1>1. /\ Types /\ InSearch /\ QOK /\ QueueTypes /\ BuffersMatch /\ pc = "bfs" /\ pc' = "back" /\ iter > 0
      /\ \A w \in Workers : my[w].pc = "done"
      /\ depth_index' = Append(depth_index, shared_out_start)
      /\ deltas' = [n \in Nodes |-> 0]
      /\ d' = Len(depth_index') - 2
      /\ Fork("vertex")
      /\ UNCHANGED <<iter, biggest_score, paths, queue_vars, scores, args>>
  BY DEF SearchInv, EndSearch, AllAt, At, Types, InSearch, QOK
<1>2. /\ depth_index' \in Seq(Nat) /\ Len(depth_index') = Len(depth_index) + 1
      /\ depth_index'[1] = depth_index[1] /\ depth_index'[1] = 0
      /\ level \in Nat /\ Levels' = level
      /\ \A j \in 0 .. level : Begin(j)' = Begin(j)
  <2>1. depth_index \in Seq(Nat) /\ Len(depth_index) >= 1 /\ shared_out_start \in Nat /\ depth_index[1] = 0
    BY <1>1 DEF Types, InSearch, QueueTypes, QueueOK, LevelsOK
  <2> QED
    BY <1>1, <2>1, AppendKeepsBegin
<1>3. /\ \A t \in Workers : copy_start[t] = queue!NotFlushing /\ local_queue[t] = <<>>
      /\ \A v \in Nodes : Dist[v] < level
      /\ path_counts = Counts /\ succ = Edges
      /\ shared_in = shared_out_end
  BY <1>1, SearchIsOver
<1>4. /\ root' = root /\ Dist' = Dist /\ Edges' = Edges /\ Counts' = Counts
      /\ \A k : Level(k)' = Level(k)
  BY <1>1, RootStays
<1>5. QOK' /\ shared_in' = shared_out_end'
  BY <1>1, <1>3, QueueFrame DEF queue_vars
<1>6. /\ my' \in [Workers -> WorkerType] /\ next_index' = 0
      /\ \A x \in Workers : my'[x].pc = "vertex" /\ my'[x].i = 0 /\ my'[x].end = 0 /\ my'[x].todo = {}
  BY <1>1, ForkMeans DEF BackPCs
<1>7. d' = level /\ d' \in Int
  BY <1>1, <1>2 DEF Levels
<1>8. Types'
  <2>1. deltas' \in [Nodes -> Nat]
    BY <1>1
  <2> QED
    BY <1>1, <1>2, <1>6, <1>7, <2>1 DEF Types, args, paths
<1>9. BuffersMatch'
  BY <1>1, <1>3 DEF BuffersMatch, queue_vars, queue!NotFlushing
<1>10. LevelsOK(Levels)'
  <2>1. LevelsOK(level)
    BY <1>1 DEF InSearch, QueueOK
  <2>2. PICK m \in Nat : m = level /\ Levels' = m
    BY <1>2
  <2>3. Begin(0)' = 0
    BY <1>2, <2>1, <2>2 DEF LevelsOK
  <2>4. ASSUME NEW j \in 0 .. m - 1
        PROVE  /\ Begin(j)' <= Begin(j + 1)' /\ Begin(j + 1)' <= shared_out_end'
               /\ {shared'[i] : i \in Begin(j)' .. Begin(j + 1)' - 1} = Level(j)'
    <3>1. j \in 0 .. level - 1 /\ j \in 0 .. level /\ j + 1 \in 0 .. level
      BY <2>2
    <3>2. Begin(j)' = Begin(j) /\ Begin(j + 1)' = Begin(j + 1)
      <4>1. PICK i \in 0 .. level : i = j + 1
        BY <3>1
      <4>2. Begin(i)' = Begin(i)
        BY <1>2
      <4> QED
        BY <1>2, <3>1, <4>1, <4>2
    <3>3. /\ Begin(j) <= Begin(j + 1) /\ Begin(j + 1) <= shared_out_end
          /\ {shared[i] : i \in Begin(j) .. Begin(j + 1) - 1} = Level(j)
      BY <2>1, <3>1 DEF LevelsOK
    <3>4. shared' = shared /\ shared_out_end' = shared_out_end /\ Level(j)' = Level(j)
      BY <1>1, <1>4 DEF queue_vars
    <3> QED
      BY <3>2, <3>3, <3>4
  <2> QED
    BY <1>2, <2>2, <2>3, <2>4 DEF LevelsOK
<1>11. d' \in 0 .. Levels'
  BY <1>2, <1>7
<1>12. Loop'
  <2>1. (Types /\ QOK /\ LevelsOK(Levels) /\ d \in 0 .. Levels => Loop)'
    BY LoopKnown, PTL
  <2> QED
    BY <1>5, <1>8, <1>10, <1>11, <2>1
<1>13. PICK n \in Nat, b \in Nat, k \in Int : n = (last - first)' /\ b = first' /\ k = (d - 1)'
  BY <1>7, <1>12 DEF Loop
<1>14. Claims(n)' /\ Hands(b, n, k)'
  <2>1. NewRegion("vertex")
    BY <1>6 DEF NewRegion
  <2> QED
    BY <2>1, NewSchedule
<1>15. Claims(last - first)' /\ Hands(first, last - first, d - 1)'
  BY <1>13, <1>14
<1>16. path_counts' = Counts' /\ succ' = Edges'
  BY <1>1, <1>3, <1>4 DEF paths
<1>17. InBack'
  BY <1>2, <1>3, <1>4, <1>6, <1>10, <1>11, <1>15, <1>16 DEF InBack
<1> QED
  BY <1>1, <1>5, <1>8, <1>9, <1>17 DEF SearchInv

(* A level further back, or the end of the iteration.                        *)
LEMMA PreviousLevelKeeps ==
  ASSUME SearchInv, UNCHANGED args, PreviousLevel
  PROVE  SearchInv'
<1>1. /\ Types /\ InBack /\ QOK /\ QueueTypes /\ BuffersMatch /\ pc = "back" /\ iter > 0 /\ d \in Int
      /\ d' = d - 1 /\ pc' = (IF d > 0 THEN "back" ELSE "next")
      /\ shared_in = shared_out_end
      /\ Fork("vertex")
      /\ UNCHANGED <<iter, depth_index, biggest_score, paths, queue_vars, sums, args>>
  BY DEF SearchInv, PreviousLevel, Types, QOK
<1>2. /\ root' = root /\ Dist' = Dist /\ Edges' = Edges /\ Counts' = Counts
      /\ \A k : Level(k)' = Level(k)
  BY <1>1, RootStays
<1>3. QOK' /\ shared_in' = shared_out_end'
  BY <1>1, QueueFrame DEF queue_vars
<1>4. /\ my' \in [Workers -> WorkerType] /\ next_index' = 0
      /\ \A x \in Workers : my'[x].pc = "vertex" /\ my'[x].i = 0 /\ my'[x].end = 0 /\ my'[x].todo = {}
  BY <1>1, ForkMeans DEF BackPCs
<1>5. Types'
  <2>1. d' \in Int
    BY <1>1
  <2> QED
    BY <1>1, <1>4, <2>1 DEF Types, args, paths, sums
<1>6. BuffersMatch'
  BY <1>1 DEF BuffersMatch, queue_vars, queue!NotFlushing
<1>7. CASE d > 0
  <2>1. Levels' = Levels /\ Levels \in Int
    BY <1>1 DEF Levels, Types
  <2>2. LevelsOK(Levels)'
    <3>1. PICK n \in Int : n = Levels
      BY <2>1
    <3>2. LevelsOK(n)
      BY <1>1, <3>1 DEF InBack
    <3>3. UNCHANGED <<args, iter, depth_index, shared_out_start, shared_out_end, shared>>
      BY <1>1 DEF queue_vars
    <3>4. LevelsOK(n)'
      BY <1>1, <3>2, <3>3, LevelsStay DEF Types, QueueTypes
    <3> QED
      BY <2>1, <3>1, <3>4
  <2>3. d' \in 0 .. Levels'
    BY <1>1, <1>7, <2>1 DEF InBack
  <2>4. Loop'
    <3>1. (Types /\ QOK /\ LevelsOK(Levels) /\ d \in 0 .. Levels => Loop)'
      BY LoopKnown, PTL
    <3> QED
      BY <1>3, <1>5, <2>2, <2>3, <3>1
  <2>5. PICK n \in Nat, b \in Nat, k \in Int : n = (last - first)' /\ b = first' /\ k = (d - 1)'
    BY <1>1, <2>4 DEF Loop
  <2>6. Claims(n)' /\ Hands(b, n, k)'
    <3>1. NewRegion("vertex")
      BY <1>4 DEF NewRegion
    <3> QED
      BY <3>1, NewSchedule
  <2>7. Claims(last - first)' /\ Hands(first, last - first, d - 1)'
    BY <2>5, <2>6
  <2>8. InBack'
    BY <1>1, <1>2, <1>4, <2>1, <2>2, <2>3, <2>7 DEF InBack, paths
  <2> QED
    BY <1>1, <1>3, <1>5, <1>6, <1>7, <2>8 DEF SearchInv
<1>8. CASE ~(d > 0)
  BY <1>1, <1>3, <1>5, <1>6, <1>8 DEF SearchInv
<1> QED
  BY <1>7, <1>8

(* The values of a function on a finite set are finitely many.               *)
LEMMA ImageIsFinite ==
  ASSUME NEW f, NEW S, IsFiniteSet(S)
  PROVE  IsFiniteSet({f[x] : x \in S})
<1> DEFINE T == {f[x] : x \in S}
           g == [x \in S |-> f[x]]
<1>1. g \in Surjection(S, T)
  BY DEF Surjection
<1> HIDE DEF g, T
<1>2. IsFiniteSet(T)
  BY <1>1, FS_Surjection
<1> QED
  BY <1>2 DEF T

(* The reduction takes the biggest score.                                    *)
LEMMA GreatestMeans ==
  ASSUME NEW S, IsFiniteSet(S), S \subseteq Nat, S # {}
  PROVE  Greatest(S) \in S /\ \A y \in S : y <= Greatest(S)
<1> DEFINE Above(n) == {y \in S : n <= y}
           F == {T \in SUBSET S : \E n \in S : T = Above(n)}
<1>1. PICK T \in F : \A U \in F : U \subseteq T => U = T
  <2>1. PICK n \in S : TRUE
    OBVIOUS
  <2>2. F # {}
    BY <2>1
  <2>3. F \subseteq SUBSET S
    OBVIOUS
  <2> HIDE DEF F, Above
  <2>4. IsFiniteSet(S)
    OBVIOUS
  <2> QED
    BY ONLY <2>2, <2>3, <2>4, SmallestSubset
<1>2. PICK n \in S : T = Above(n)
  BY <1>1
<1>3. ASSUME NEW y \in S, ~(y <= n) PROVE FALSE
  <2>1. n < y /\ n \in Nat /\ y \in Nat
    BY <1>2, <1>3
  <2>2. Above(y) \subseteq T
    <3>1. \A z \in S : y <= z => n <= z
      BY <2>1
    <3> QED
      BY <1>2, <3>1
  <2>3. Above(y) \in F
    BY <1>3
  <2>4. n \in T /\ n \notin Above(y)
    BY <1>2, <2>1
  <2> HIDE DEF F
  <2> QED
    BY <1>1, <2>2, <2>3, <2>4
<1>4. \E x \in S : \A y \in S : y <= x
  BY <1>2, <1>3
<1> QED
  BY <1>4 DEF Greatest

(* Main finds the biggest score and ends.                                    *)
LEMMA NormalizeKeeps ==
  ASSUME SearchInv, UNCHANGED args, Normalize
  PROVE  SearchInv'
<1>1. /\ Types /\ QOK /\ BuffersMatch /\ pc = "next" /\ pc' = "done" /\ shared_in = shared_out_end
      /\ biggest_score' = Greatest({0} \cup {scores[n] : n \in Nodes})
      /\ UNCHANGED <<args, iter, depth_index, d, paths, queue_vars, sums, next_index, my>>
  BY DEF SearchInv, Normalize
<1>2. biggest_score' \in Nat
  <2>1. PICK S \in SUBSET Nat : S = {scores[n] : n \in Nodes}
    BY <1>1 DEF Types
  <2>2. IsFiniteSet(S)
    <3>1. IsFiniteSet({scores[n] : n \in Nodes})
      BY NodesAreFinite, ImageIsFinite
    <3> QED
      BY <2>1, <3>1
  <2>3. PICK G \in SUBSET Nat : G = {0} \cup S
    <3>1. {0} \cup S \in SUBSET Nat
      OBVIOUS
    <3> QED
      BY <3>1
  <2>4. IsFiniteSet(G)
    <3>1. G = S \cup {0}
      BY <2>3
    <3> QED
      BY <2>2, <3>1, FS_AddElement
  <2>5. Greatest(G) \in G
    BY <2>3, <2>4, GreatestMeans
  <2> QED
    BY <1>1, <2>1, <2>3, <2>5
<1>3. Types'
  BY <1>1, <1>2 DEF Types, args, paths, sums
<1>4. QOK' /\ shared_in' = shared_out_end'
  BY <1>1, QueueFrame DEF queue_vars
<1>5. BuffersMatch'
  BY <1>1 DEF BuffersMatch, queue_vars, queue!NotFlushing
<1> QED
  BY <1>1, <1>3, <1>4, <1>5 DEF SearchInv

(* The program begins with an empty queue.                                   *)
LEMMA InitEstablishes == Init => SearchInv
<1> SUFFICES ASSUME Init PROVE SearchInv
  OBVIOUS
<1>1. Types
  <2>1. NewWorker \in WorkerType
    BY NodesAreFinite DEF NewWorker, WorkerType, SearchPCs, BackPCs
  <2>2. my \in [Workers -> WorkerType]
    BY <2>1 DEF Init
  <2>3. out_neigh \in [Nodes -> SUBSET Nodes] /\ sources \in [1 .. num_iters -> Nodes]
    BY BCAssumption DEF Init
  <2>4. depth_index \in Seq(Nat) /\ d \in Int /\ iter \in 0 .. num_iters
    BY BCAssumption DEF Init
  <2> QED
    BY <2>2, <2>3, <2>4 DEF Init, Types
<1>2. QOK
  <2>1. /\ shared_in = 0 /\ shared_out_start = 0 /\ shared_out_end = 0
        /\ shared = [i \in queue!Slots |-> Garbage]
        /\ local_queue = [t \in Workers |-> <<>>]
        /\ copy_start = [t \in Workers |-> queue!NotFlushing]
    BY DEF Init, queue!Init
  <2>2. QueueTypes
    <3>1. <<>> \in Seq(Nodes)
      OBVIOUS
    <3> QED
      BY <2>1, <3>1 DEF QueueTypes
  <2>3. OnePlaceEach
    <3>1. queue!Written = {}
      BY <2>1 DEF queue!Written
    <3>2. \A t \in Workers : 1 .. Len(local_queue[t]) = {}
      BY <2>1
    <3> QED
      BY <3>1, <3>2 DEF OnePlaceEach
  <2>4. queue!FlushesAreDisjoint
    BY <2>1 DEF queue!FlushesAreDisjoint, queue!Reserved
  <2> QED
    BY <2>2, <2>3, <2>4 DEF QOK
<1>3. BuffersMatch /\ shared_in = shared_out_end /\ pc = "next"
  BY DEF Init, queue!Init, BuffersMatch
<1> QED
  BY <1>1, <1>2, <1>3 DEF SearchInv

(* Nothing changes.                                                          *)
LEMMA StutterKeeps ==
  ASSUME SearchInv, UNCHANGED vars
  PROVE  SearchInv'
<1>1. /\ Types /\ QOK /\ BuffersMatch
      /\ UNCHANGED <<args, main_vars, paths, queue_vars, sums, next_index, my>>
  BY DEF SearchInv, vars
<1>2. Types'
  BY <1>1 DEF Types, args, main_vars, paths, sums
<1>3. \A x \in Workers : KeepsPlace(x) /\ KeepsMarks(x) /\ KeepsBuffer(x)
  BY <1>1, ThoseWhoStay
<1>4. CASE pc = "bfs"
  <2>1. Frame
    BY <1>1, <1>4 DEF Frame, queue_vars
  <2>2. PICK w \in Workers : TRUE
    BY BCAssumption
  <2>3. SearchWorker(w)'
    BY <1>1, <2>1, OthersStay DEF Types, paths
  <2>4. my' \in [Workers -> WorkerType]
    BY <1>1 DEF Types
  <2> QED
    BY <1>1, <1>3, <2>1, <2>3, <2>4, LocalStep
<1>5. CASE pc = "back"
  <2>1. BackFrame
    BY <1>1, <1>5 DEF BackFrame
  <2>2. Claims(last - first)' /\ Hands(first, last - first, d - 1)'
    BY <1>1, <1>3, <2>1, BackScheduleKept
  <2>3. \A x \in Workers : \A v \in my'[x].todo : path_counts[v] # 0
    BY <1>1, <1>5 DEF SearchInv, InBack
  <2> QED
    BY <1>2, <2>1, <2>2, <2>3, BackAssembles
<1>6. CASE pc \notin {"bfs", "back"}
  <2>1. QOK'
    BY <1>1, QueueFrame
  <2>2. BuffersMatch'
    BY <1>1 DEF BuffersMatch, queue_vars, main_vars, queue!NotFlushing
  <2> QED
    BY <1>1, <1>2, <1>6, <2>1, <2>2 DEF SearchInv, queue_vars, main_vars
<1> QED
  BY <1>4, <1>5, <1>6

(* Every step of the program keeps the invariant.                            *)
LEMMA SearchKeeps ==
  ASSUME SearchInv, [Next]_vars
  PROVE  SearchInv'
<1>1. ASSUME MainStep PROVE SearchInv'
  <2>1. UNCHANGED args
    BY <1>1 DEF MainStep
  <2>2. CASE BeginIteration
    BY <2>1, <2>2, BeginIterationKeeps
  <2>3. CASE NextLevel
    BY <2>1, <2>3, NextLevelKeeps
  <2>4. CASE EndSearch
    BY <2>1, <2>4, EndSearchKeeps
  <2>5. CASE PreviousLevel
    BY <2>1, <2>5, PreviousLevelKeeps
  <2>6. CASE Normalize
    BY <2>1, <2>6, NormalizeKeeps
  <2> QED
    BY <1>1, <2>2, <2>3, <2>4, <2>5, <2>6 DEF MainStep
<1>2. ASSUME NEW w \in Workers, WorkerStep(w) PROVE SearchInv'
  <2>1. UNCHANGED <<args, main_vars>>
    BY <1>2 DEF WorkerStep
  <2>2. CASE WhileTest(w)
    BY <2>1, <2>2, WhileTestKeeps
  <2>3. CASE ClaimChunk(w)
    BY <2>1, <2>3, ClaimChunkKeeps
  <2>4. CASE TakeVertex(w)
    BY <2>1, <2>4, TakeVertexKeeps
  <2>5. CASE ReadDepth(w)
    BY <2>1, <2>5, ReadDepthKeeps
  <2>6. CASE ClaimVertex(w)
    BY <2>1, <2>6, ClaimVertexKeeps
  <2>7. CASE PushVertex(w)
    BY <2>1, <2>7, PushVertexKeeps
  <2>8. CASE MarkSuccessor(w)
    BY <2>1, <2>8, MarkSuccessorKeeps
  <2>9. CASE CountPaths(w)
    BY <2>1, <2>9, CountPathsKeeps
  <2>10. CASE Flush(w)
    BY <2>1, <2>10, FlushKeeps
  <2>11. CASE FlushCopies(w)
    BY <2>1, <2>11, FlushCopiesKeeps
  <2>12. CASE BackClaimChunk(w)
    BY <2>1, <2>12, BackClaimChunkKeeps
  <2>13. CASE BackTakeVertex(w)
    BY <2>1, <2>13, BackTakeVertexKeeps
  <2>14. CASE BackEdge(w)
    BY <2>1, <2>14, BackEdgeKeeps
  <2>15. CASE BackStoreDelta(w)
    BY <2>1, <2>15, BackStoreDeltaKeeps
  <2>16. CASE BackStoreScore(w)
    BY <2>1, <2>16, BackStoreScoreKeeps
  <2> QED
    BY <1>2, <2>2, <2>3, <2>4, <2>5, <2>6, <2>7, <2>8, <2>9, <2>10, <2>11, <2>12, <2>13, <2>14, <2>15,
       <2>16 DEF WorkerStep
<1>3. CASE UNCHANGED vars
  BY <1>3, StutterKeeps
<1> QED
  BY <1>1, <1>2, <1>3 DEF Next

(* A thread that has gone further than a vertex's depth is one level further *)
(* at most, and the counts of the level it is at are complete.               *)
LEMMA SearchIsExact ==
  ASSUME SearchInv
  PROVE  PathsAreExact
<1>1. ASSUME pc = "bfs", NEW v \in Nodes, depths[v] # -1, \A w \in Workers : my[w].depth > depths[v]
      PROVE  path_counts[v] = Counts[v]
  <2>1. Types /\ InSearch /\ level \in Nat /\ iter > 0
    BY <1>1, BCAssumption, StepFacts
  <2>2. PICK w \in Workers : my[w].depth = level \/ my[w].depth = level + 1
    BY <2>1, BCAssumption DEF InSearch, SearchWorker
  <2>3. depths[v] = Dist[v] /\ depths[v] \in Int
    BY <1>1, <2>1 DEF InSearch, DepthsOK, Types
  <2>4. my[w].depth > depths[v]
    BY <1>1
  <2>5. depths[v] <= level
    BY <2>1, <2>2, <2>3, <2>4
  <2>6. Dist[v] <= level
    BY <2>3, <2>5
  <2> QED
    BY <2>1, <2>6 DEF InSearch, CountsOK
<1>2. ASSUME pc = "back"
      PROVE  /\ path_counts = Counts /\ succ = Edges
             /\ {shared[i] : i \in first .. last - 1} = IF d = 0 THEN {} ELSE Level(d - 1)
  BY <1>2, BackLoop DEF SearchInv, InBack
<1> QED
  BY <1>1, <1>2 DEF PathsAreExact, Counts, Edges, Level, Dist, root

(* The search keeps its invariant: the window is the level being expanded,   *)
(* and every edge out of it is waiting, held by one thread or marked         *)
(* (bc.cc:51-91).                                                            *)
THEOREM SearchInvariant == Spec => []SearchInv
<1>1. SearchInv /\ [Next]_vars => SearchInv'
  BY SearchKeeps
<1> QED
  BY InitEstablishes, <1>1, PTL DEF Spec

(* bc.cc:71-79,83-88: the paths to a vertex are all counted before anybody   *)
(* reads its count, and the search leaves depths, counts, marked edges and   *)
(* levels of the serial one, on every graph and with any number of threads.  *)
THEOREM CountsAreExact == Spec => []PathsAreExact
<1>1. SearchInv => PathsAreExact
  BY SearchIsExact
<1> QED
  BY SearchInvariant, <1>1, PTL

--------------------------------------------------------------------------------
(* The scores.                                                               *)

(* The dependencies on vertex n over the first k iterations.                 *)
Total(k, n) == SumFunction([i \in 1 .. k |-> Dependencies(sources[i])[n]])
Deps == Dependencies(root)

(* What a step that leaves the arguments alone leaves alone.                 *)
LEMMA TotalsStay ==
  ASSUME UNCHANGED args
  PROVE  /\ \A k, n : Total(k, n)' = Total(k, n)
         /\ iter' = iter => Deps' = Deps
<1>1. \A s : Dependencies(s)' = Dependencies(s)
  BY StaticStays DEF args
<1>2. \A k, n : Total(k, n)' = Total(k, n)
  BY <1>1 DEF Total, args
<1>3. ASSUME iter' = iter PROVE Deps' = Deps
  <2>1. PICK s : s = root
    OBVIOUS
  <2>2. root' = s
    BY <1>3, <2>1 DEF root, args
  <2>3. Deps' = Dependencies(s)'
    BY <2>2 DEF Deps
  <2> QED
    BY <1>1, <2>1, <2>3 DEF Deps
<1> QED
  BY <1>2, <1>3

(* An iteration adds its dependencies.                                       *)
LEMMA TotalGrows ==
  ASSUME Types, NEW k \in 0 .. num_iters, NEW n \in Nodes
  PROVE  /\ Total(k, n) \in Nat
         /\ Total(0, n) = 0
         /\ k > 0 => Total(k, n) = Total(k - 1, n) + Dependencies(sources[k])[n]
<1> DEFINE D(i) == Dependencies(sources[i])[n]
<1>1. num_iters \in Nat /\ k \in Nat
  BY BCAssumption
<1>2. \A i \in 1 .. num_iters : D(i) \in Nat
  <2>1. out_neigh \in [Nodes -> SUBSET Nodes] /\ sources \in [1 .. num_iters -> Nodes]
    BY DEF Types
  <2> QED
    BY <2>1, DependencyFacts
<1> HIDE DEF D
<1>3. \A i \in 1 .. k : D(i) \in Nat
  BY <1>1, <1>2
<1> DEFINE f == [i \in 1 .. k |-> D(i)]
<1>4. /\ DOMAIN f = 1 .. k /\ f \in [1 .. k -> Nat] /\ IsFiniteSet(1 .. k) /\ \A i \in 1 .. k : f[i] \in Nat
  BY <1>1, <1>3, FS_Interval
<1>5. Total(k, n) = SumFunctionOnSet(f, 1 .. k)
  BY DEF Total, SumFunction, D
<1>6. Total(k, n) \in Nat
  <2> HIDE DEF f
  <2> QED
    BY <1>4, <1>5, SumIsNat
<1>7. Total(0, n) = 0
  <2>1. PICK g : g = [i \in 1 .. 0 |-> Dependencies(sources[i])[n]]
    OBVIOUS
  <2>2. DOMAIN g = {}
    BY <2>1
  <2>3. Total(0, n) = SumFunctionOnSet(g, {})
    BY <2>1, <2>2 DEF Total, SumFunction
  <2> QED
    BY <2>3, SumEmpty
<1>8. ASSUME k > 0 PROVE Total(k, n) = Total(k - 1, n) + D(k)
  <2>1. PICK j \in Nat : j = k - 1
    BY <1>1, <1>8
  <2> DEFINE g == [i \in 1 .. j |-> D(i)]
  <2>2. Total(k - 1, n) = SumFunctionOnSet(g, 1 .. j)
    BY <2>1 DEF Total, SumFunction, D
  <2>3. 1 .. k = 1 .. j \cup {k} /\ k \notin 1 .. j /\ IsFiniteSet(1 .. j)
    BY <1>1, <1>8, <2>1, FS_Interval
  <2>4. \A i \in 1 .. j : f[i] = g[i]
    BY <2>3
  <2>5. f[k] = D(k)
    BY <2>3
  <2> HIDE DEF f, g
  <2>6. \A i \in 1 .. j \cup {k} : f[i] \in Int
    BY <1>4, <2>3
  <2>7. SumFunctionOnSet(f, 1 .. j \cup {k}) = SumFunctionOnSet(f, 1 .. j) + f[k]
    BY <2>3, <2>6, SumAdds
  <2>8. SumFunctionOnSet(f, 1 .. j) = SumFunctionOnSet(g, 1 .. j)
    BY <2>3, <2>4, SumDependsOnValues
  <2> QED
    BY <1>5, <2>2, <2>3, <2>5, <2>7, <2>8
<1> QED
  BY <1>6, <1>7, <1>8 DEF D

(* On the way back: a vertex whose dependency is complete, and what a thread *)
(* has added up for the vertex in its hands.                                 *)
Settled(n) ==
  \/ Dist[n] >= d
  \/ /\ Dist[n] = d - 1 /\ Dist[n] # -1
     /\ n \notin Waiting(first, last - first)
     /\ ~\E w \in Workers : Busy(w) /\ my[w].u = n

ShareOf(u) == Share(root, Deps, u)
SuccsOf(u) == Succs(root, u)

BackWorker(w) ==
  LET m == my[w] IN
  /\ m.pc \in BackPCs
  /\ m.pc # "edges" => m.todo = {}
  /\ m.pc = "done" => m.i = m.end /\ next_index >= last - first
  /\ m.pc \in {"edges", "score"} => Dist[m.u] # -1
  /\ m.pc = "edges" =>
       /\ m.todo \subseteq SuccsOf(m.u)
       /\ m.delta = SumFunctionOnSet(ShareOf(m.u), SuccsOf(m.u) \ m.todo)
  /\ m.pc = "score" => /\ m.score = scores[m.u] /\ m.delta = Deps[m.u]
                       /\ deltas[m.u] = m.delta

SettledSet == {n \in Nodes : Settled(n)}

SettledOK ==
  \A n \in Nodes : /\ n \in SettledSet => deltas[n] = Deps[n] /\ scores[n] = Total(iter, n)
                   /\ n \notin SettledSet => scores[n] = Total(iter - 1, n)

ScoresInv ==
  /\ pc = "back" => (\A w \in Workers : BackWorker(w)) /\ SettledOK
  /\ pc \in {"next", "done"} => \A n \in Nodes : scores[n] = Total(iter, n)
  /\ pc = "bfs" => \A n \in Nodes : scores[n] = Total(iter - 1, n)
  /\ pc = "done" => iter = num_iters /\ biggest_score = Greatest({0} \cup {scores[n] : n \in Nodes})

(* What the way back adds up does not change while it goes on.               *)
LEMMA BackFixed ==
  ASSUME SearchInv, BackFrame
  PROVE  /\ Deps' = Deps /\ \A u : ShareOf(u)' = ShareOf(u) /\ SuccsOf(u)' = SuccsOf(u)
         /\ \A k, n : Total(k, n)' = Total(k, n)
<1>1. UNCHANGED <<args, iter>> /\ UNCHANGED args /\ UNCHANGED out_neigh
  BY DEF BackFrame, main_vars, args
<1>2. Deps' = Deps /\ \A k, n : Total(k, n)' = Total(k, n)
  BY <1>1, TotalsStay
<1>3. PICK s, D : s = root /\ D = Deps
  OBVIOUS
<1>4. root' = s /\ Deps' = D
  BY <1>1, <1>2, <1>3 DEF root, args
<1>5. PathCounts(s)' = PathCounts(s) /\ Successors(s)' = Successors(s)
  BY <1>1, StaticStays
<1>6. ASSUME NEW u PROVE ShareOf(u)' = ShareOf(u) /\ SuccsOf(u)' = SuccsOf(u)
  <2>1. ShareOf(u)' = Share(s, D, u)' /\ SuccsOf(u)' = Succs(s, u)'
    BY <1>4 DEF ShareOf, SuccsOf
  <2>2. Share(s, D, u)' = Share(s, D, u) /\ Succs(s, u)' = Succs(s, u)
    BY <1>5 DEF Share, Succs
  <2> QED
    BY <1>3, <2>1, <2>2 DEF ShareOf, SuccsOf
<1> QED
  BY <1>2, <1>6

(* A thread that another one's step does not move.                           *)
LEMMA OthersStayBack ==
  ASSUME SearchInv, BackFrame, NEW x \in Workers, BackWorker(x), my'[x] = my[x],
         next_index' \in Nat, next_index <= next_index',
         my[x].pc = "score" => deltas'[my[x].u] = deltas[my[x].u] /\ scores'[my[x].u] = scores[my[x].u]
  PROVE  BackWorker(x)'
<1>1. /\ Deps' = Deps /\ \A u : ShareOf(u)' = ShareOf(u) /\ SuccsOf(u)' = SuccsOf(u)
      /\ first' = first /\ last' = last /\ Dist' = Dist
  BY BackFixed, BackFrameFacts
<1>2. next_index \in Nat /\ first \in Nat /\ last \in Nat
  BY BackLoop DEF SearchInv, Types, BackFrame
<1>3. PICK u : u = my[x].u
  OBVIOUS
<1>4. my'[x].u = u /\ ShareOf(u)' = ShareOf(u) /\ SuccsOf(u)' = SuccsOf(u)
  BY <1>1, <1>3
<1>5. ShareOf(my[x].u)' = ShareOf(my[x].u) /\ SuccsOf(my[x].u)' = SuccsOf(my[x].u)
  <2>1. my'[x].u = u
    BY <1>4
  <2>2. ShareOf(my[x].u)' = ShareOf(u)' /\ SuccsOf(my[x].u)' = SuccsOf(u)'
    BY <2>1 DEF ShareOf, SuccsOf, Share, Succs
  <2> QED
    BY <1>3, <1>4, <2>2
<1>6. my[x].pc = "done" => next_index' >= last - first
  BY <1>2 DEF BackWorker
<1> HIDE DEF ShareOf, SuccsOf
<1> QED
  BY <1>1, <1>5, <1>6 DEF BackWorker

(* Which vertices are settled, when nobody takes or lets go of one.          *)
LEMMA SettledStays ==
  ASSUME SearchInv, BackFrame, Waiting(first, last - first)' = Waiting(first, last - first),
         \A x \in Workers : (Busy(x)' <=> Busy(x)) /\ (Busy(x) => my'[x].u = my[x].u)
  PROVE  SettledSet' = SettledSet
<1>1. Dist' = Dist /\ d' = d
  BY BackFrameFacts
<1>2. \A n : (\E x \in Workers : Busy(x)' /\ my'[x].u = n) <=> (\E x \in Workers : Busy(x) /\ my[x].u = n)
  OBVIOUS
<1> HIDE DEF Busy, Waiting
<1>3. \A n : Settled(n)' <=> Settled(n)
  BY <1>1, <1>2 DEF Settled
<1> QED
  BY <1>3 DEF SettledSet

(* ScoresInv on the way back, from the set of vertices that are settled in   *)
(* the next state.                                                           *)
LEMMA ScoresHold ==
  ASSUME SearchInv, BackFrame, \A x \in Workers : BackWorker(x)', NEW S, S = SettledSet',
         \A n \in Nodes : n \in S => deltas'[n] = Deps[n] /\ scores'[n] = Total(iter, n),
         \A n \in Nodes : n \notin S => scores'[n] = Total(iter - 1, n)
  PROVE  ScoresInv'
<1>1. pc' = "back" /\ pc = "back" /\ iter' = iter
  BY DEF BackFrame, main_vars
<1>2. Deps' = Deps /\ \A k, n : Total(k, n)' = Total(k, n)
  BY BackFixed
<1>3. PICK k, l : k = iter /\ l = iter - 1
  OBVIOUS
<1>4. k = iter' /\ l = iter' - 1
  BY <1>1, <1>3
<1>5. SettledOK'
  <2>1. \A n \in Nodes : n \in S => deltas'[n] = Deps'[n] /\ scores'[n] = Total(k, n)'
    BY <1>2, <1>3
  <2>2. \A n \in Nodes : n \notin S => scores'[n] = Total(l, n)'
    BY <1>2, <1>3
  <2>3. \A n : Total(iter, n)' = Total(k, n)' /\ Total(iter - 1, n)' = Total(l, n)'
    BY <1>4 DEF Total
  <2> QED
    BY <2>1, <2>2, <2>3 DEF SettledOK
<1> QED
  BY <1>1, <1>5 DEF ScoresInv

(* ScoresInv, when a step settles no vertex and stores nothing.              *)
LEMMA ScoresStay ==
  ASSUME SearchInv, ScoresInv, BackFrame, UNCHANGED sums, \A x \in Workers : BackWorker(x)',
         SettledSet' = SettledSet
  PROVE  ScoresInv'
<1>1. SettledOK /\ UNCHANGED <<deltas, scores>>
  BY DEF ScoresInv, BackFrame, sums
<1>2. PICK S : S = SettledSet /\ S = SettledSet'
  OBVIOUS
<1>3. \A n \in Nodes : n \in S => deltas'[n] = Deps[n] /\ scores'[n] = Total(iter, n)
  BY <1>1, <1>2 DEF SettledOK
<1>4. \A n \in Nodes : n \notin S => scores'[n] = Total(iter - 1, n)
  BY <1>1, <1>2 DEF SettledOK
<1> QED
  BY <1>2, <1>3, <1>4, ScoresHold

(* Claiming a chunk settles nothing.                                         *)
LEMMA BackClaimChunkScores ==
  ASSUME SearchInv, ScoresInv, UNCHANGED <<args, main_vars>>, NEW w \in Workers, BackClaimChunk(w)
  PROVE  ScoresInv'
<1>1. /\ Types /\ pc = "back" /\ my[w].pc = "vertex" /\ my[w].todo = {}
      /\ UNCHANGED <<paths, queue_vars, sums>> /\ next_index \in Nat /\ kChunk \in Nat
      /\ \A x \in Workers : BackWorker(x)
  BY BCAssumption DEF BackClaimChunk, At, SearchInv, ScoresInv, BackWorker, Types
<1>2. BackFrame
  BY <1>1 DEF BackFrame
<1>3. /\ ChunkTaken(w, last - first, "done")
      /\ Waiting(first, last - first)' = Waiting(first, last - first)
  BY BackClaimChunkKeeps
<1>4. my'[w].pc \in {"vertex", "done"} /\ my'[w].todo = {} /\ next_index' \in Nat /\ next_index <= next_index'
      /\ \A x \in Workers \ {w} : my'[x] = my[x]
  BY <1>1, <1>3 DEF ChunkTaken
<1>5. my'[w].pc = "done" => my'[w].i = my'[w].end /\ next_index' >= last - first
  BY <1>1, <1>3 DEF ChunkTaken
<1>6. first' = first /\ last' = last
  BY <1>2, BackFrameFacts
<1>7. BackWorker(w)'
  BY <1>4, <1>5, <1>6 DEF BackWorker, BackPCs
<1>8. \A x \in Workers : BackWorker(x)'
  <2>1. ASSUME NEW x \in Workers \ {w} PROVE BackWorker(x)'
    BY <1>1, <1>2, <1>4, OthersStayBack DEF sums
  <2> QED
    BY <1>7, <2>1
<1>9. \A x \in Workers : (Busy(x)' <=> Busy(x)) /\ (Busy(x) => my'[x].u = my[x].u)
  BY <1>1, <1>4 DEF Busy
<1>10. SettledSet' = SettledSet
  BY <1>2, <1>3, <1>9, SettledStays
<1> QED
  BY <1>1, <1>2, <1>8, <1>10, ScoresStay

(* Taking a vertex settles nothing: it was waiting and is now in hand.       *)
LEMMA BackTakeVertexScores ==
  ASSUME SearchInv, ScoresInv, UNCHANGED <<args, main_vars>>, NEW w \in Workers, BackTakeVertex(w)
  PROVE  ScoresInv'
<1>1. /\ Types /\ pc = "back" /\ my[w].pc = "vertex" /\ my[w].todo = {}
      /\ UNCHANGED <<paths, queue_vars, sums, next_index>> /\ next_index \in Nat
      /\ \A x \in Workers : BackWorker(x)
  BY DEF BackTakeVertex, At, SearchInv, ScoresInv, BackWorker, Types
<1>2. BackFrame
  BY <1>1 DEF BackFrame
<1>3. BackTaken(w)
  BY BackTakeVertexKeeps
<1>4. PICK u : u = my'[w].u
  OBVIOUS
<1>5. /\ \A x \in Workers \ {w} : my'[x] = my[x]
      /\ u \in Level(d - 1) /\ u \in Waiting(first, last - first)
      /\ Waiting(first, last - first)' = Waiting(first, last - first) \ {u}
      /\ \A x \in Workers \ {w} : Busy(x) => my[x].u # u
      /\ my'[w].todo = {v \in Nodes : <<u, v>> \in Edges}
      /\ my'[w].delta = 0 /\ my'[w].pc = "edges" /\ my'[w].u = u
  BY <1>3, <1>4 DEF BackTaken
<1>6. Dist'[u] # -1
  <2>1. d > 0
    <3>1. first \in Nat /\ last \in Nat /\ first <= last /\ d \in 0 .. Levels /\ d \in Int
      BY <1>1, BackLoop DEF SearchInv, InBack, Types
    <3>2. ASSUME d = 0 PROVE FALSE
      <4>1. {shared[i] : i \in first .. last - 1} = {}
        BY <1>1, <3>2, BackLoop
      <4>2. PICK a \in Nat, z \in Nat : a = first /\ z = last /\ a <= z
        BY <3>1
      <4>3. \A i \in a .. z - 1 : FALSE
        BY <4>1, <4>2
      <4>4. a .. z - 1 = {}
        BY <4>3
      <4>5. z = a
        BY <4>2, <4>4
      <4>6. Ahead(last - first) = {}
        BY <4>2, <4>5 DEF Ahead
      <4> QED
        BY <1>5, <4>6 DEF Waiting
    <3> QED
      BY <3>1, <3>2
  <2>2. Dist[u] = d - 1 /\ Dist' = Dist /\ d \in Int
    BY <1>1, <1>2, <1>5, BackFrameFacts DEF Level, Types
  <2> QED
    BY <2>1, <2>2
<1>7. BackWorker(w)'
  <2>1. SuccsOf(u)' = SuccsOf(u)
    BY <1>2, BackFixed
  <2>2. SuccsOf(u) = my'[w].todo
    BY <1>5 DEF SuccsOf, Succs, Edges
  <2>3. SuccsOf(my[w].u)' = SuccsOf(u)'
    BY <1>5 DEF SuccsOf, Succs
  <2>4. SumFunctionOnSet(ShareOf(my[w].u)', {}) = 0
    BY SumEmpty
  <2>5. SuccsOf(my[w].u)' \ my'[w].todo = {}
    BY <2>1, <2>2, <2>3
  <2> HIDE DEF SuccsOf, ShareOf
  <2> QED
    BY <1>5, <1>6, <2>1, <2>2, <2>3, <2>4, <2>5 DEF BackWorker, BackPCs
<1>8. \A x \in Workers : BackWorker(x)'
  <2>1. ASSUME NEW x \in Workers \ {w} PROVE BackWorker(x)'
    BY <1>1, <1>2, <1>5, OthersStayBack DEF sums
  <2> QED
    BY <1>7, <2>1
<1>9. ~Busy(w) /\ Busy(w)' /\ \A x \in Workers \ {w} : (Busy(x)' <=> Busy(x)) /\ my'[x].u = my[x].u
  BY <1>1, <1>5 DEF Busy
<1>10. ASSUME NEW n \in Nodes PROVE Settled(n)' <=> Settled(n)
  <2>1. Dist' = Dist /\ d' = d /\ d \in Int
    BY <1>1, <1>2, BackFrameFacts DEF Types
  <2>2. CASE n = u
    <3>1. ~(Dist[u] >= d)
      BY <1>5, <2>1 DEF Level
    <3>2. ~Settled(u)
      BY <1>5, <3>1 DEF Settled
    <3>3. \E x \in Workers : Busy(x)' /\ my'[x].u = u
      BY <1>5, <1>9
    <3>4. ~Settled(u)'
      BY <2>1, <3>1, <3>3 DEF Settled
    <3> QED
      BY <2>2, <3>2, <3>4
  <2>3. CASE n # u
    <3>1. (\E x \in Workers : Busy(x)' /\ my'[x].u = n) <=> (\E x \in Workers : Busy(x) /\ my[x].u = n)
      <4> HIDE DEF Busy
      <4> QED
        BY <1>5, <1>9, <2>3
    <3>2. n \in Waiting(first, last - first)' <=> n \in Waiting(first, last - first)
      BY <1>5, <2>3
    <3> HIDE DEF Busy, Waiting
    <3> QED
      BY <2>1, <3>1, <3>2 DEF Settled
  <2> QED
    BY <2>2, <2>3
<1>11. SettledSet' = SettledSet
  BY <1>10 DEF SettledSet
<1> QED
  BY <1>1, <1>2, <1>8, <1>11, ScoresStay

(* What a successor gives to the vertex in hand is what the serial sum says. *)
LEMMA SuccessorIsComplete ==
  ASSUME SearchInv, ScoresInv, pc = "back", NEW w \in Workers, my[w].pc = "edges", NEW v \in my[w].todo
  PROVE  /\ v \in SuccsOf(my[w].u) /\ my[w].u \in Nodes /\ v \in Nodes
         /\ (path_counts[my[w].u] * (kScale + deltas[v])) \div path_counts[v] = ShareOf(my[w].u)[v]
<1>1. /\ Types /\ iter > 0 /\ InBack /\ BackWorker(w) /\ SettledOK /\ my[w] \in WorkerType /\ d \in Int
  BY DEF SearchInv, ScoresInv, Types
<1>2. PICK u \in Nodes : u = my[w].u /\ Dist[u] = d - 1
  <2>1. Busy(w)
    BY DEF Busy
  <2>2. my[w].u \in Level(d - 1)
    BY <1>1, <2>1 DEF InBack, Hands
  <2> QED
    BY <2>2 DEF Level
<1>3. v \in SuccsOf(u)
  BY <1>1, <1>2 DEF BackWorker
<1>4. v \in Nodes /\ <<u, v>> \in Edges
  BY <1>3 DEF SuccsOf, Succs, Edges
<1>5. Dist[v] = Dist[u] + 1
  BY <1>1, <1>4, RootFacts
<1>6. v \in SettledSet
  <2>1. Dist[v] >= d
    BY <1>1, <1>2, <1>5
  <2> QED
    BY <1>4, <2>1 DEF Settled, SettledSet
<1>7. deltas[v] = Deps[v] /\ path_counts = Counts
  BY <1>1, <1>4, <1>6 DEF SettledOK, InBack
<1>8. ShareOf(u)[v] = (Counts[u] * (kScale + Deps[v])) \div Counts[v]
  BY <1>4 DEF ShareOf, Share, Counts
<1> QED
  BY <1>2, <1>3, <1>4, <1>7, <1>8

(* Adding a share settles nothing: the share is that of a successor whose    *)
(* own delta is complete.                                                    *)
LEMMA BackEdgeScores ==
  ASSUME SearchInv, ScoresInv, UNCHANGED <<args, main_vars>>, NEW w \in Workers, BackEdge(w)
  PROVE  ScoresInv'
<1>1. /\ Types /\ iter > 0 /\ InBack /\ pc = "back" /\ my[w].pc = "edges"
      /\ UNCHANGED <<paths, queue_vars, sums, next_index>> /\ next_index \in Nat
      /\ \A x \in Workers : BackWorker(x)
  BY DEF BackEdge, At, SearchInv, ScoresInv, Types
<1>2. BackFrame
  BY <1>1 DEF BackFrame
<1>3. PICK v \in my[w].todo : BackAdded(w, v)
  BY BackEdgeKeeps
<1>4. PICK u \in Nodes : u = my[w].u
  BY <1>1, <1>3, SuccessorIsComplete
<1>5. PICK S, f, T : S = SuccsOf(u) /\ f = ShareOf(u) /\ T = my[w].todo
  OBVIOUS
<1>6. /\ v \in S /\ v \in Nodes /\ v \in T
      /\ (path_counts[u] * (kScale + deltas[v])) \div path_counts[v] = f[v]
  BY <1>1, <1>3, <1>4, <1>5, SuccessorIsComplete
<1>7. T \subseteq S /\ my[w].delta = SumFunctionOnSet(f, S \ T)
  BY <1>1, <1>4, <1>5 DEF BackWorker
<1>8. /\ \A x \in Workers \ {w} : my'[x] = my[x]
      /\ my'[w].pc = "edges" /\ my'[w].u = u /\ my'[w].i = my[w].i /\ my'[w].end = my[w].end
      /\ my'[w].todo = T \ {v} /\ my'[w].delta = my[w].delta + f[v]
  BY <1>3, <1>4, <1>5, <1>6 DEF BackAdded
<1>9. SumFunctionOnSet(f, S \ (T \ {v})) = SumFunctionOnSet(f, S \ T) + f[v]
  <2>1. IsFiniteSet(S \ T)
    <3>1. S \ T \in SUBSET Nodes
      BY <1>4, <1>5 DEF SuccsOf, Succs
    <3> QED
      BY <3>1, NodesAreFinite, FS_Subset
  <2>2. S \ (T \ {v}) = (S \ T) \cup {v} /\ v \notin S \ T
    BY <1>6
  <2>3. ASSUME NEW x \in (S \ T) \cup {v} PROVE f[x] \in Int
    <3>1. out_neigh \in [Nodes -> SUBSET Nodes] /\ root \in Nodes
      BY <1>1, RootFacts DEF Types
    <3>2. x \in Succs(root, u) /\ x \in Nodes
      BY <1>4, <1>5, <1>6 DEF SuccsOf, Succs
    <3>3. Deps[x] \in Nat
      BY <3>1, <3>2, DependencyFacts DEF Deps
    <3>4. Share(root, Deps, u)[x] \in Nat
      BY <3>1, <3>2, <3>3, ShareTypes
    <3> QED
      BY <1>4, <1>5, <3>4 DEF ShareOf
  <2> QED
    BY <2>1, <2>2, <2>3, SumAdds
<1>10. BackWorker(w)'
  <2>1. SuccsOf(u)' = S /\ ShareOf(u)' = f
    BY <1>2, <1>4, <1>5, BackFixed
  <2>4. Dist'[u] # -1
    <3>1. Dist[u] # -1
      BY <1>1, <1>4 DEF BackWorker
    <3> QED
      BY <1>2, <3>1, BackFrameFacts
  <2>2. SuccsOf(my[w].u)' = SuccsOf(u)' /\ ShareOf(my[w].u)' = ShareOf(u)'
    BY <1>8 DEF SuccsOf, Succs, ShareOf, Share
  <2>3. my'[w].delta = SumFunctionOnSet(f, S \ (T \ {v}))
    BY <1>7, <1>8, <1>9
  <2> HIDE DEF SuccsOf, ShareOf
  <2> QED
    BY <1>7, <1>8, <2>1, <2>2, <2>3, <2>4 DEF BackWorker, BackPCs
<1>11. \A x \in Workers : BackWorker(x)'
  <2>1. ASSUME NEW x \in Workers \ {w} PROVE BackWorker(x)'
    BY <1>1, <1>2, <1>8, OthersStayBack DEF sums
  <2> QED
    BY <1>10, <2>1
<1>12. \A x \in Workers : (Busy(x)' <=> Busy(x)) /\ (Busy(x) => my'[x].u = my[x].u)
  BY <1>1, <1>4, <1>5, <1>8 DEF Busy
<1>13. Waiting(first, last - first)' = Waiting(first, last - first)
  <2>1. \A x \in Workers : KeepsPlace(x)
    <3>1. \A x \in Workers : my'[x].i = my[x].i /\ my'[x].end = my[x].end
      BY <1>8
    <3> QED
      BY <1>12, <3>1 DEF KeepsPlace
  <2> QED
    BY <1>1, <1>2, <2>1, BackScheduleKept
<1>14. SettledSet' = SettledSet
  BY <1>2, <1>12, <1>13, SettledStays
<1> QED
  BY <1>1, <1>2, <1>11, <1>14, ScoresStay

(* A vertex in hand is not settled.                                          *)
LEMMA InHand ==
  ASSUME SearchInv, pc = "back", NEW w \in Workers, Busy(w)
  PROVE  /\ my[w].u \in Nodes /\ Dist[my[w].u] = d - 1 /\ my[w].u \notin SettledSet
         /\ my[w].u \notin Waiting(first, last - first)
         /\ \A x \in Workers \ {w} : Busy(x) => my[x].u # my[w].u
<1>1. d \in Int /\ InBack
  BY DEF SearchInv, Types
<1>2. /\ my[w].u \in Level(d - 1) /\ my[w].u \notin Waiting(first, last - first)
      /\ \A x \in Workers \ {w} : Busy(x) => my[x].u # my[w].u
  BY <1>1 DEF InBack, Hands
<1>3. my[w].u \in Nodes /\ Dist[my[w].u] = d - 1
  BY <1>2 DEF Level
<1>4. ~(Dist[my[w].u] >= d)
  BY <1>1, <1>3
<1>5. my[w].u \notin SettledSet
  BY <1>2, <1>4 DEF Settled, SettledSet
<1> QED
  BY <1>2, <1>3, <1>5

(* When a delta is stored it is the dependency of its vertex, for no         *)
(* successor is left.                                                        *)
LEMMA BackStoreDeltaScores ==
  ASSUME SearchInv, ScoresInv, UNCHANGED <<args, main_vars>>, NEW w \in Workers, BackStoreDelta(w)
  PROVE  ScoresInv'
<1>1. /\ Types /\ iter > 0 /\ InBack /\ pc = "back" /\ my[w].pc = "edges" /\ my[w].todo = {}
      /\ UNCHANGED <<paths, queue_vars, next_index>> /\ next_index \in Nat
      /\ \A x \in Workers : BackWorker(x)
      /\ SettledOK
  BY DEF BackStoreDelta, At, SearchInv, ScoresInv, Types
<1>2. BackFrame
  BY <1>1 DEF BackFrame
<1>3. BackStored(w)
  BY BackStoreDeltaKeeps
<1>4. Busy(w)
  BY <1>1 DEF Busy
<1>5. PICK u \in Nodes : u = my[w].u
  BY <1>1, <1>4, InHand
<1>6. /\ u \notin SettledSet /\ \A x \in Workers \ {w} : Busy(x) => my[x].u # u
  BY <1>1, <1>4, <1>5, InHand
<1>7. my[w].delta = Deps[u]
  <2>1. my[w].delta = SumFunctionOnSet(ShareOf(u), SuccsOf(u) \ {})
    BY <1>1, <1>5 DEF BackWorker
  <2>2. my[w].delta = Owed(root, Deps, u)
    BY <2>1 DEF ShareOf, SuccsOf, Owed
  <2>3. out_neigh \in [Nodes -> SUBSET Nodes] /\ root \in Nodes
    BY <1>1, RootFacts DEF Types
  <2> QED
    BY <2>2, <2>3, DependencyFacts DEF Deps
<1>8. /\ \A x \in Workers \ {w} : my'[x] = my[x]
      /\ my'[w].pc = "score" /\ my'[w].u = u /\ my'[w].i = my[w].i /\ my'[w].end = my[w].end
      /\ my'[w].todo = {} /\ my'[w].delta = Deps[u] /\ my'[w].score = scores[u]
      /\ deltas' = [deltas EXCEPT ![u] = Deps[u]]
      /\ UNCHANGED scores
  BY <1>3, <1>5, <1>7 DEF BackStored
<1>9. deltas'[u] = Deps[u] /\ \A n \in Nodes : n # u => deltas'[n] = deltas[n]
  BY <1>1, <1>8 DEF Types
<1>10. Deps' = Deps
  BY <1>2, BackFixed
<1>11. BackWorker(w)'
  <2>1. Dist'[u] # -1
    <3>1. Dist[u] # -1
      BY <1>1, <1>5 DEF BackWorker
    <3> QED
      BY <1>2, <3>1, BackFrameFacts
  <2> QED
    BY <1>8, <1>9, <1>10, <2>1 DEF BackWorker, BackPCs
<1>12. \A x \in Workers : BackWorker(x)'
  <2>1. ASSUME NEW x \in Workers \ {w} PROVE BackWorker(x)'
    <3>1. my[x].pc = "score" => deltas'[my[x].u] = deltas[my[x].u] /\ scores'[my[x].u] = scores[my[x].u]
      <4>1. ASSUME my[x].pc = "score" PROVE my[x].u \in Nodes /\ my[x].u # u
        <5>1. Busy(x)
          BY <4>1 DEF Busy
        <5> QED
          BY <1>1, <1>6, <5>1, InHand
      <4> QED
        BY <1>8, <1>9, <4>1
    <3> QED
      BY <1>1, <1>2, <1>8, <3>1, OthersStayBack
  <2> QED
    BY <1>11, <2>1
<1>13. \A x \in Workers : (Busy(x)' <=> Busy(x)) /\ (Busy(x) => my'[x].u = my[x].u)
  BY <1>1, <1>5, <1>8 DEF Busy
<1>14. Waiting(first, last - first)' = Waiting(first, last - first)
  <2>1. \A x \in Workers : KeepsPlace(x)
    <3>1. \A x \in Workers : my'[x].i = my[x].i /\ my'[x].end = my[x].end
      BY <1>8
    <3> QED
      BY <1>13, <3>1 DEF KeepsPlace
  <2> QED
    BY <1>1, <1>2, <2>1, BackScheduleKept
<1>15. SettledSet' = SettledSet
  BY <1>2, <1>13, <1>14, SettledStays
<1>16. PICK S : S = SettledSet /\ S = SettledSet'
  BY <1>15
<1>17. \A n \in Nodes : n \in S => deltas'[n] = Deps[n] /\ scores'[n] = Total(iter, n)
  BY <1>1, <1>6, <1>8, <1>9, <1>16 DEF SettledOK
<1>18. \A n \in Nodes : n \notin S => scores'[n] = Total(iter - 1, n)
  BY <1>1, <1>8, <1>16 DEF SettledOK
<1> QED
  BY <1>2, <1>12, <1>16, <1>17, <1>18, ScoresHold

(* A vertex is settled when its score is stored.                             *)
LEMMA BackStoreScoreScores ==
  ASSUME SearchInv, ScoresInv, UNCHANGED <<args, main_vars>>, NEW w \in Workers, BackStoreScore(w)
  PROVE  ScoresInv'
<1>1. /\ Types /\ iter > 0 /\ InBack /\ pc = "back" /\ my[w].pc = "score"
      /\ UNCHANGED <<paths, queue_vars, next_index>> /\ next_index \in Nat
      /\ \A x \in Workers : BackWorker(x)
      /\ SettledOK
  BY DEF BackStoreScore, At, SearchInv, ScoresInv, Types
<1>2. BackFrame
  BY <1>1 DEF BackFrame
<1>3. BackScored(w)
  BY BackStoreScoreKeeps
<1>4. Busy(w) /\ my[w].todo = {}
  BY <1>1 DEF Busy, BackWorker
<1>5. PICK u \in Nodes : u = my[w].u
  BY <1>1, <1>4, InHand
<1>6. /\ u \notin SettledSet /\ \A x \in Workers \ {w} : Busy(x) => my[x].u # u
      /\ Dist[u] = d - 1 /\ u \notin Waiting(first, last - first)
  BY <1>1, <1>4, <1>5, InHand
<1>7. my[w].score = scores[u] /\ my[w].delta = Deps[u] /\ deltas[u] = Deps[u]
  BY <1>1, <1>5 DEF BackWorker
<1>8. /\ \A x \in Workers \ {w} : my'[x] = my[x]
      /\ my'[w].pc = "vertex" /\ my'[w].u = u /\ my'[w].i = my[w].i /\ my'[w].end = my[w].end
      /\ my'[w].todo = {}
      /\ scores' = [scores EXCEPT ![u] = scores[u] + Deps[u]]
      /\ UNCHANGED deltas
  BY <1>3, <1>4, <1>5, <1>7 DEF BackScored
<1>9. scores'[u] = scores[u] + Deps[u] /\ \A n \in Nodes : n # u => scores'[n] = scores[n]
  BY <1>1, <1>8 DEF Types
<1>10. scores'[u] = Total(iter, u)
  <2>1. PICK k \in 0 .. num_iters : k = iter /\ k > 0
    BY <1>1 DEF Types
  <2>2. Total(k, u) = Total(k - 1, u) + Dependencies(sources[k])[u]
    BY <1>1, <2>1, TotalGrows
  <2>3. Deps[u] = Dependencies(sources[k])[u]
    BY <2>1 DEF Deps, root
  <2>4. scores[u] = Total(k - 1, u)
    BY <1>1, <1>6, <2>1 DEF SettledOK
  <2> QED
    BY <1>9, <2>1, <2>2, <2>3, <2>4
<1>11. \A x \in Workers : BackWorker(x)'
  <2>1. ASSUME NEW x \in Workers \ {w} PROVE BackWorker(x)'
    <3>1. my[x].pc = "score" => deltas'[my[x].u] = deltas[my[x].u] /\ scores'[my[x].u] = scores[my[x].u]
      <4>1. ASSUME my[x].pc = "score" PROVE my[x].u \in Nodes /\ my[x].u # u
        <5>1. Busy(x)
          BY <4>1 DEF Busy
        <5> QED
          BY <1>1, <1>6, <5>1, InHand
      <4> QED
        BY <1>8, <1>9, <4>1
    <3> QED
      BY <1>1, <1>2, <1>8, <3>1, OthersStayBack
  <2>2. BackWorker(w)'
    BY <1>8 DEF BackWorker, BackPCs
  <2> QED
    BY <2>1, <2>2
<1>12. ~Busy(w)' /\ \A x \in Workers \ {w} : (Busy(x)' <=> Busy(x)) /\ my'[x].u = my[x].u
  BY <1>8 DEF Busy
<1>13. Waiting(first, last - first)' = Waiting(first, last - first)
  <2>1. \A x \in Workers : KeepsPlace(x)
    <3>1. \A x \in Workers : my'[x].i = my[x].i /\ my'[x].end = my[x].end
      BY <1>8
    <3> HIDE DEF Busy
    <3> QED
      BY <1>12, <3>1 DEF KeepsPlace
  <2> QED
    BY <1>1, <1>2, <2>1, BackScheduleKept
<1>14. Dist' = Dist /\ d' = d
  BY <1>2, BackFrameFacts
<1>15. Settled(u)'
  <2>2. Dist[u] # -1
    BY <1>1, <1>5 DEF BackWorker
  <2>1. ~\E x \in Workers : Busy(x)' /\ my'[x].u = u
    <3> HIDE DEF Busy
    <3> QED
      BY <1>6, <1>12
  <2> HIDE DEF Busy, Waiting
  <2> QED
    BY <1>6, <1>13, <1>14, <2>1, <2>2 DEF Settled
<1>16. ASSUME NEW n \in Nodes, n # u PROVE Settled(n)' <=> Settled(n)
  <2>1. (\E x \in Workers : Busy(x)' /\ my'[x].u = n) <=> (\E x \in Workers : Busy(x) /\ my[x].u = n)
    <3> HIDE DEF Busy
    <3> QED
      BY <1>5, <1>12, <1>16
  <2> HIDE DEF Busy, Waiting
  <2> QED
    BY <1>13, <1>14, <2>1 DEF Settled
<1>17. PICK S : S = SettledSet'
  OBVIOUS
<1>18. u \in S /\ \A n \in Nodes : n # u => (n \in S <=> n \in SettledSet)
  BY <1>15, <1>16, <1>17 DEF SettledSet
<1>19. \A n \in Nodes : n \in S => deltas'[n] = Deps[n] /\ scores'[n] = Total(iter, n)
  BY <1>1, <1>7, <1>8, <1>9, <1>10, <1>18 DEF SettledOK
<1>20. \A n \in Nodes : n \notin S => scores'[n] = Total(iter - 1, n)
  BY <1>1, <1>9, <1>18 DEF SettledOK
<1> QED
  BY <1>2, <1>11, <1>17, <1>19, <1>20, ScoresHold

(* The steps of the search, and all those that leave the scores alone.       *)
LEMMA ScoresKept ==
  ASSUME ScoresInv, UNCHANGED <<args, pc, iter, scores, biggest_score>>, pc # "back"
  PROVE  ScoresInv'
<1>1. \A k, n : Total(k, n)' = Total(k, n)
  BY TotalsStay
<1>2. PICK k, l : k = iter /\ l = iter - 1
  OBVIOUS
<1>3. k = iter' /\ l = iter' - 1
  BY <1>2
<1>4. \A n : /\ Total(iter, n)' = Total(k, n)' /\ Total(iter - 1, n)' = Total(l, n)'
             /\ Total(iter, n) = Total(k, n) /\ Total(iter - 1, n) = Total(l, n)
  BY <1>2, <1>3 DEF Total
<1>5. \A n : Total(iter, n)' = Total(iter, n) /\ Total(iter - 1, n)' = Total(iter - 1, n)
  BY <1>1, <1>4
<1> QED
  BY <1>5 DEF ScoresInv

(* An iteration begins: the scores are the totals of those before.           *)
LEMMA BeginIterationScores ==
  ASSUME SearchInv, ScoresInv, UNCHANGED args, BeginIteration
  PROVE  ScoresInv'
<1>1. pc = "next" /\ pc' = "bfs" /\ iter' = iter + 1 /\ iter \in Nat /\ UNCHANGED scores
  BY BCAssumption DEF SearchInv, Types, BeginIteration, sums
<1>2. PICK k \in Nat : k = iter /\ k = iter' - 1
  BY <1>1
<1>3. \A n : Total(iter - 1, n)' = Total(k, n)' /\ Total(iter, n) = Total(k, n)
  BY <1>2 DEF Total
<1>4. \A n : Total(k, n)' = Total(k, n)
  BY TotalsStay
<1> QED
  BY <1>1, <1>3, <1>4 DEF ScoresInv

(* When a loop over a level begins, all of that level is waiting and no      *)
(* thread has anything.                                                      *)
LevelBegins ==
  /\ Waiting(first, last - first) = IF d = 0 THEN {} ELSE Level(d - 1)
  /\ \A x \in Workers : BackWorker(x)

(* The loop of the way back is known as long as the way back goes on.        *)
LEMMA LoopInBack == SearchInv /\ pc = "back" => Loop
  BY LoopKnown DEF SearchInv, InBack

(* A new region on the way back is the beginning of a level.                 *)
LEMMA NewLevel ==
  ASSUME SearchInv', pc' = "back", NewRegion("vertex")
  PROVE  LevelBegins'
<1>1. Loop'
  <2>1. (SearchInv /\ pc = "back" => Loop)'
    BY LoopInBack, PTL
  <2> QED
    BY <2>1
<1>2. PICK z \in Nat, b \in Nat : z = last' /\ b = first' /\ b <= z
  BY <1>1 DEF Loop
<1>3. PICK n \in Nat : n = z - b
  <2>1. z \in Nat /\ b \in Nat /\ b <= z
    BY <1>2
  <2>2. z - b \in Nat
    BY <2>1
  <2> QED
    BY <2>2
<1>4. Waiting(b, n)' = {shared'[b + j] : j \in 0 .. n - 1}
  BY NewSchedule
<1>5. {shared'[b + j] : j \in 0 .. n - 1} = {shared'[i] : i \in b .. z - 1}
  <2>1. n \in Nat /\ b \in Nat /\ z \in Nat
    BY <1>2, <1>3
  <2>2. \A j \in 0 .. n - 1 : b + j \in b .. z - 1
    BY <1>3, <2>1
  <2>3. \A i \in b .. z - 1 : i - b \in 0 .. n - 1 /\ b + (i - b) = i
    BY <1>3, <2>1
  <2>4. \A j \in 0 .. n - 1 : shared'[b + j] \in {shared'[i] : i \in b .. z - 1}
    BY <2>2
  <2>5. \A i \in b .. z - 1 : shared'[i] \in {shared'[b + j] : j \in 0 .. n - 1}
    BY <2>3
  <2> QED
    BY <2>4, <2>5
<1>6. {shared'[i] : i \in first' .. last' - 1} = IF d' = 0 THEN {} ELSE Level(d - 1)'
  BY <1>1 DEF Loop
<1>7. Waiting(first, last - first)' = Waiting(b, n)'
  <2>1. b = first' /\ n = (last - first)'
    BY <1>2, <1>3
  <2> QED
    BY <2>1
<1>8. Waiting(first, last - first)' = IF d' = 0 THEN {} ELSE Level(d - 1)'
  BY <1>2, <1>4, <1>5, <1>6, <1>7
<1>9. \A x \in Workers : BackWorker(x)'
  BY DEF NewRegion, BackWorker, BackPCs
<1> QED
  BY <1>8, <1>9 DEF LevelBegins

(* The vertices that are settled when a loop over a level begins are those   *)
(* behind the level.                                                         *)
LEMMA SettledBehind ==
  SearchInv /\ pc = "back" /\ LevelBegins => SettledSet = {n \in Nodes : Dist[n] >= d}
<1> SUFFICES ASSUME SearchInv, pc = "back", LevelBegins
             PROVE  SettledSet = {n \in Nodes : Dist[n] >= d}
  OBVIOUS
<1>1. ASSUME NEW n \in Nodes, Dist[n] = d - 1, Dist[n] # -1, n \notin Waiting(first, last - first)
      PROVE  FALSE
  <2>1. d # 0
    BY <1>1
  <2> QED
    BY <1>1, <2>1 DEF LevelBegins, Level
<1> QED
  BY <1>1 DEF SettledSet, Settled

(* The deltas are cleared, and nothing is settled.                           *)
LEMMA EndSearchScores ==
  ASSUME SearchInv, ScoresInv, UNCHANGED args, EndSearch
  PROVE  ScoresInv'
<1>1. /\ pc = "bfs" /\ pc' = "back" /\ Fork("vertex")
      /\ depth_index' = Append(depth_index, shared_out_start) /\ d' = Len(depth_index') - 2
      /\ UNCHANGED <<args, iter, scores>>
  BY DEF EndSearch
<1>2. SearchInv'
  BY EndSearchKeeps
<1>3. LevelBegins'
  <2>1. NewRegion("vertex")
    BY <1>1, ForkMeans DEF NewRegion, BackPCs
  <2> QED
    BY <1>1, <1>2, <2>1, NewLevel
<1>4. SettledSet' = {n \in Nodes : Dist'[n] >= d'}
  <2>1. (SearchInv /\ pc = "back" /\ LevelBegins => SettledSet = {n \in Nodes : Dist[n] >= d})'
    BY SettledBehind, PTL
  <2> QED
    BY <1>1, <1>2, <1>3, <2>1
<1>5. \A n \in Nodes : ~(Dist'[n] >= d')
  <2>1. InBack'
    BY <1>1, <1>2 DEF SearchInv
  <2>2. \A n \in Nodes : Dist'[n] < Levels'
    BY <2>1 DEF InBack
  <2>3. d' = Levels' /\ Levels' \in Int
    BY <1>1, <1>2 DEF Levels, SearchInv, Types
  <2>4. Types' /\ iter' > 0
    BY <1>1, <1>2 DEF SearchInv, Types
  <2>5. RootIsKnown'
    <3>1. (Types /\ iter > 0 => RootIsKnown)'
      BY RootKnown, PTL
    <3> QED
      BY <2>4, <3>1
  <2>6. \A n \in Nodes : Dist'[n] \in Int
    BY <2>5 DEF RootIsKnown
  <2> QED
    BY <2>2, <2>3, <2>6
<1>6. SettledSet' = {}
  BY <1>4, <1>5
<1>7. PICK l : l = iter - 1 /\ l = iter' - 1
  BY <1>1
<1>8. \A n : Total(iter - 1, n)' = Total(l, n)' /\ Total(l, n)' = Total(l, n) /\ Total(iter - 1, n) = Total(l, n)
  BY <1>1, <1>7, TotalsStay DEF Total
<1>9. SettledOK'
  BY <1>1, <1>6, <1>8 DEF SettledOK, ScoresInv
<1> QED
  BY <1>1, <1>3, <1>9 DEF ScoresInv, LevelBegins

(* When all threads are done with a level, it is settled.                    *)
LEMMA LevelIsSettled ==
  ASSUME SearchInv, ScoresInv, pc = "back", \A w \in Workers : my[w].pc = "done"
  PROVE  SettledSet = {n \in Nodes : Dist[n] >= d \/ (Dist[n] = d - 1 /\ Dist[n] # -1)}
<1>1. /\ \A w \in Workers : BackWorker(w) /\ my[w].i = my[w].end /\ my[w].todo = {} /\ my[w] \in WorkerType
      /\ next_index \in Nat /\ Types
  BY DEF ScoresInv, BackWorker, SearchInv, Types
<1>2. next_index >= last - first /\ last - first \in Int
  <2>1. PICK w \in Workers : TRUE
    BY BCAssumption
  <2>2. BackWorker(w) /\ my[w].pc = "done"
    BY <1>1, <2>1
  <2>3. first \in Nat /\ last \in Nat
    BY BackLoop
  <2> QED
    BY <2>2, <2>3 DEF BackWorker
<1>3. Ahead(last - first) = {}
  <2>1. PICK n \in Int : n = last - first
    BY <1>2
  <2>2. \A w \in Workers : my[w].i \in Nat /\ my[w].i = my[w].end
    BY <1>1 DEF WorkerType
  <2>3. Ahead(n) = {}
    BY <1>1, <1>2, <2>1, <2>2 DEF Ahead
  <2> QED
    BY <2>1, <2>3
<1>4. Waiting(first, last - first) = {}
  BY <1>3 DEF Waiting
<1>5. \A w \in Workers : ~Busy(w)
  BY <1>1 DEF Busy
<1> HIDE DEF Waiting, Busy
<1> QED
  BY <1>4, <1>5 DEF SettledSet, Settled

(* A level of the way back is over: it is settled, and the next level has    *)
(* only settled successors, or the iteration ends.                           *)
LEMMA PreviousLevelScores ==
  ASSUME SearchInv, ScoresInv, UNCHANGED args, PreviousLevel
  PROVE  ScoresInv'
<1>1. /\ Types /\ InBack /\ SettledOK /\ pc = "back" /\ iter > 0 /\ d \in Int /\ d >= 0
      /\ \A w \in Workers : my[w].pc = "done"
      /\ d' = d - 1 /\ pc' = (IF d > 0 THEN "back" ELSE "next")
      /\ Fork("vertex")
      /\ UNCHANGED <<iter, sums, args>>
  <2>1. InBack /\ Types /\ SettledOK
    BY DEF PreviousLevel, SearchInv, ScoresInv
  <2>2. d \in Int /\ d >= 0
    BY <2>1 DEF InBack, Types
  <2> QED
    BY <2>1, <2>2 DEF PreviousLevel, AllAt, At, Types
<1>2. SettledSet = {n \in Nodes : Dist[n] >= d \/ (Dist[n] = d - 1 /\ Dist[n] # -1)}
  BY <1>1, LevelIsSettled
<1>3. RootIsKnown
  BY <1>1, RootKnown
<1>4. \A n \in Nodes : Dist[n] \in Int /\ Dist[n] >= -1
  <2>1. num_nodes \in Nat
    BY NodesAreFinite
  <2>2. \A n \in Nodes : Dist[n] \in -1 .. num_nodes
    BY <1>3 DEF RootIsKnown
  <2> QED
    BY <2>1, <2>2
<1>5. PICK k \in 0 .. num_iters, l \in Int : k = iter /\ k > 0 /\ l = k - 1 /\ k = iter'
  BY <1>1, BCAssumption DEF Types
<1>6. \A n : /\ Total(iter, n)' = Total(k, n)' /\ Total(iter - 1, n)' = Total(l, n)'
             /\ Total(iter, n) = Total(k, n) /\ Total(iter - 1, n) = Total(l, n)
  BY <1>5 DEF Total
<1>7. Deps' = Deps /\ \A i, n : Total(i, n)' = Total(i, n)
  BY <1>1, TotalsStay
<1>8. Dist' = Dist
  BY <1>1, RootStays
<1>9. CASE d > 0
  <2>1. SearchInv' /\ pc' = "back"
    BY <1>1, <1>9, PreviousLevelKeeps
  <2>2. LevelBegins'
    <3>1. NewRegion("vertex")
      BY <1>1, ForkMeans DEF NewRegion, BackPCs
    <3> QED
      BY <2>1, <3>1, NewLevel
  <2>3. SettledSet' = {n \in Nodes : Dist'[n] >= d'}
    <3>1. (SearchInv /\ pc = "back" /\ LevelBegins => SettledSet = {n \in Nodes : Dist[n] >= d})'
      BY SettledBehind, PTL
    <3> QED
      BY <2>1, <2>2, <3>1
  <2>4. SettledSet' = SettledSet
    <3>1. \A n \in Nodes : Dist[n] >= d - 1 <=> (Dist[n] >= d \/ (Dist[n] = d - 1 /\ Dist[n] # -1))
      BY <1>1, <1>4, <1>9
    <3> QED
      BY <1>1, <1>2, <1>8, <2>3, <3>1
  <2>5. SettledOK'
    <3>1. UNCHANGED <<deltas, scores>>
      BY <1>1 DEF sums
    <3>2. PICK S : S = SettledSet /\ S = SettledSet'
      BY <2>4
    <3>3. \A n \in Nodes : n \in S => deltas'[n] = Deps'[n] /\ scores'[n] = Total(iter, n)'
      BY <1>1, <1>6, <1>7, <3>1, <3>2 DEF SettledOK
    <3>4. \A n \in Nodes : n \notin S => scores'[n] = Total(iter - 1, n)'
      BY <1>1, <1>6, <1>7, <3>1, <3>2 DEF SettledOK
    <3> QED
      BY <3>2, <3>3, <3>4 DEF SettledOK
  <2> QED
    BY <2>1, <2>2, <2>5 DEF ScoresInv, LevelBegins
<1>10. CASE ~(d > 0)
  <2>1. pc' = "next" /\ UNCHANGED scores /\ d = 0
    BY <1>1, <1>10 DEF sums
  <2>2. ASSUME NEW n \in Nodes PROVE scores'[n] = Total(iter, n)'
    <3>1. CASE Dist[n] # -1
      <4>1. n \in SettledSet
        BY <1>2, <1>4, <2>1, <3>1
      <4> QED
        BY <1>1, <1>6, <1>7, <2>1, <4>1 DEF SettledOK
    <3>2. CASE Dist[n] = -1
      <4>1. n \notin SettledSet
        BY <1>2, <2>1, <3>2
      <4>2. scores[n] = Total(k - 1, n)
        BY <1>1, <1>5, <1>6, <4>1 DEF SettledOK
      <4>3. Dependencies(sources[k])[n] = 0
        <5>1. out_neigh \in [Nodes -> SUBSET Nodes] /\ root \in Nodes
          BY <1>1, <1>3 DEF Types, RootIsKnown
        <5>2. Dependencies(root)[n] = 0
          BY <3>2, <5>1, DependencyFacts DEF Dist
        <5> QED
          BY <1>5, <5>2 DEF root
      <4>4. PICK a \in Nat : a = Total(k - 1, n)
        <5>1. k - 1 \in 0 .. num_iters
          <6>1. k \in 0 .. num_iters /\ k > 0 /\ num_iters \in Nat
            BY <1>5, BCAssumption
          <6> QED
            BY <6>1
        <5> QED
          BY <1>1, <5>1, TotalGrows
      <4>5. Total(k, n) = a + 0
        BY <1>1, <1>5, <4>3, <4>4, TotalGrows
      <4> QED
        BY <1>6, <1>7, <2>1, <4>2, <4>4, <4>5
    <3> QED
      BY <3>1, <3>2
  <2> QED
    BY <2>1, <2>2 DEF ScoresInv
<1> QED
  BY <1>9, <1>10

(* The biggest score is that of the totals.                                  *)
LEMMA NormalizeScores ==
  ASSUME SearchInv, ScoresInv, UNCHANGED args, Normalize
  PROVE  ScoresInv'
<1>1. /\ pc = "next" /\ pc' = "done" /\ iter = num_iters /\ UNCHANGED <<iter, scores>>
      /\ biggest_score' = Greatest({0} \cup {scores[n] : n \in Nodes})
  BY DEF Normalize, sums
<1>2. PICK k : k = iter /\ k = iter'
  BY <1>1
<1>3. \A n : Total(iter, n)' = Total(k, n)' /\ Total(k, n)' = Total(k, n) /\ Total(iter, n) = Total(k, n)
  BY <1>2, TotalsStay DEF Total
<1> QED
  BY <1>1, <1>3 DEF ScoresInv, Greatest

(* The scores begin as zeros.                                                *)
LEMMA InitScores == Init => ScoresInv
<1> SUFFICES ASSUME Init PROVE ScoresInv
  OBVIOUS
<1>1. Types /\ pc = "next" /\ iter = 0 /\ scores = [n \in Nodes |-> 0]
  BY InitEstablishes DEF Init, SearchInv
<1>2. ASSUME NEW n \in Nodes PROVE scores[n] = Total(iter, n)
  <2>1. 0 \in 0 .. num_iters
    BY BCAssumption
  <2>2. Total(0, n) = 0
    BY <1>1, <2>1, TotalGrows
  <2>3. Total(iter, n) = Total(0, n)
    BY <1>1
  <2> QED
    BY <1>1, <2>2, <2>3
<1> QED
  BY <1>1, <1>2 DEF ScoresInv

(* A step that changes nothing.                                              *)
LEMMA StutterScores ==
  ASSUME SearchInv, ScoresInv, UNCHANGED vars
  PROVE  ScoresInv'
<1>1. UNCHANGED <<args, main_vars, paths, queue_vars, sums, next_index, my>> /\ UNCHANGED <<pc, iter, scores, biggest_score>>
  BY DEF vars, main_vars, sums
<1>2. CASE pc # "back"
  BY <1>1, <1>2, ScoresKept
<1>3. CASE pc = "back"
  <2>1. BackFrame
    BY <1>1, <1>3 DEF BackFrame
  <2>2. next_index \in Nat /\ \A x \in Workers : BackWorker(x)
    BY <1>3 DEF SearchInv, Types, ScoresInv
  <2>3. \A x \in Workers : BackWorker(x)'
    <3>1. UNCHANGED <<deltas, scores>>
      BY <1>1 DEF sums
    <3> QED
      BY <1>1, <2>1, <2>2, <3>1, OthersStayBack
  <2>4. Waiting(first, last - first)' = Waiting(first, last - first)
    <3>1. \A x \in Workers : KeepsPlace(x)
      BY <1>1, ThoseWhoStay
    <3> QED
      BY <1>1, <2>1, <3>1, BackScheduleKept
  <2>5. \A x \in Workers : (Busy(x)' <=> Busy(x)) /\ (Busy(x) => my'[x].u = my[x].u)
    BY <1>1 DEF Busy
  <2>6. SettledSet' = SettledSet
    BY <2>1, <2>4, <2>5, SettledStays
  <2> QED
    BY <1>1, <2>1, <2>3, <2>6, ScoresStay
<1> QED
  BY <1>2, <1>3

(* Every step of the program keeps the scores what they should be.           *)
LEMMA ScoresKeep ==
  ASSUME SearchInv, ScoresInv, [Next]_vars
  PROVE  ScoresInv'
<1>1. ASSUME MainStep PROVE ScoresInv'
  <2>1. UNCHANGED args
    BY <1>1 DEF MainStep
  <2>2. CASE BeginIteration
    BY <2>1, <2>2, BeginIterationScores
  <2>3. CASE NextLevel
    <3>1. UNCHANGED <<args, pc, iter, scores, biggest_score>> /\ pc # "back"
      BY <2>1, <2>3 DEF NextLevel, sums
    <3> QED
      BY <3>1, ScoresKept
  <2>4. CASE EndSearch
    BY <2>1, <2>4, EndSearchScores
  <2>5. CASE PreviousLevel
    BY <2>1, <2>5, PreviousLevelScores
  <2>6. CASE Normalize
    BY <2>1, <2>6, NormalizeScores
  <2> QED
    BY <1>1, <2>2, <2>3, <2>4, <2>5, <2>6 DEF MainStep
<1>2. ASSUME NEW w \in Workers, WorkerStep(w) PROVE ScoresInv'
  <2>1. UNCHANGED <<args, main_vars>>
    BY <1>2 DEF WorkerStep
  <2>2. CASE pc = "bfs"
    <3>1. UNCHANGED sums
      BY <1>2, <2>2 DEF WorkerStep, WhileTest, ClaimChunk, TakeVertex, ReadDepth, ClaimVertex, PushVertex,
         MarkSuccessor, CountPaths, Flush, FlushCopies, BackClaimChunk, BackTakeVertex, BackEdge,
         BackStoreDelta, BackStoreScore
    <3>2. UNCHANGED <<args, pc, iter, scores, biggest_score>> /\ pc # "back"
      BY <2>1, <2>2, <3>1 DEF main_vars, sums
    <3> QED
      BY <3>2, ScoresKept
  <2>3. CASE BackClaimChunk(w)
    BY <2>1, <2>3, BackClaimChunkScores
  <2>4. CASE BackTakeVertex(w)
    BY <2>1, <2>4, BackTakeVertexScores
  <2>5. CASE BackEdge(w)
    BY <2>1, <2>5, BackEdgeScores
  <2>6. CASE BackStoreDelta(w)
    BY <2>1, <2>6, BackStoreDeltaScores
  <2>7. CASE BackStoreScore(w)
    BY <2>1, <2>7, BackStoreScoreScores
  <2>8. ASSUME pc # "bfs"
        PROVE  \/ BackClaimChunk(w) \/ BackTakeVertex(w) \/ BackEdge(w) \/ BackStoreDelta(w)
               \/ BackStoreScore(w)
    BY <1>2, <2>8 DEF WorkerStep, WhileTest, ClaimChunk, TakeVertex, ReadDepth, ClaimVertex, PushVertex,
       MarkSuccessor, CountPaths, Flush, FlushCopies
  <2> QED
    BY <2>2, <2>3, <2>4, <2>5, <2>6, <2>7, <2>8
<1>3. CASE UNCHANGED vars
  BY <1>3, StutterScores
<1> QED
  BY <1>1, <1>2, <1>3 DEF Next

(* The scores are the sums of the dependencies before they are divided by    *)
(* the biggest one, which is the biggest sum.                                *)
LEMMA ScoresVerify ==
  ASSUME SearchInv, ScoresInv
  PROVE  ResultVerifies
<1> SUFFICES ASSUME pc = "done" PROVE ResultVerifies
  BY DEF ResultVerifies
<1>1. /\ Types /\ iter = num_iters /\ num_iters \in 0 .. num_iters
      /\ biggest_score = Greatest({0} \cup {scores[n] : n \in Nodes})
      /\ \A n \in Nodes : scores[n] = Total(iter, n)
  BY BCAssumption DEF ScoresInv, SearchInv
<1> DEFINE D == [i \in 1 .. num_iters |-> Dependencies(sources[i])]
           expected == [n \in Nodes |-> SumFunction([i \in 1 .. num_iters |-> D[i][n]])]
<1>2. \A n \in Nodes : expected[n] = Total(num_iters, n)
  <2>1. ASSUME NEW n \in Nodes PROVE expected[n] = Total(num_iters, n)
    <3>1. [i \in 1 .. num_iters |-> D[i][n]] = [i \in 1 .. num_iters |-> Dependencies(sources[i])[n]]
      OBVIOUS
    <3> HIDE DEF D
    <3>2. expected[n] = SumFunction([i \in 1 .. num_iters |-> D[i][n]])
      OBVIOUS
    <3> QED
      BY <3>1, <3>2 DEF Total
  <2> QED
    BY <2>1
<1> HIDE DEF expected
<1>3. \A n \in Nodes : expected[n] = scores[n] /\ scores[n] \in Nat
  BY <1>1, <1>2 DEF Types
<1>4. PICK S \in SUBSET Nat : S = {scores[n] : n \in Nodes}
  BY <1>1 DEF Types
<1>5. {expected[m] : m \in Nodes} = S
  BY <1>3, <1>4
<1>6. PICK G \in SUBSET Nat : G = {0} \cup S
  <2>1. {0} \cup S \in SUBSET Nat
    OBVIOUS
  <2> QED
    BY <2>1
<1>7. IsFiniteSet(S) /\ S # {}
  <2>1. IsFiniteSet({scores[n] : n \in Nodes})
    BY NodesAreFinite, ImageIsFinite
  <2>2. 0 \in Nodes
    BY NodesAreFinite
  <2> QED
    BY <1>4, <2>1, <2>2
<1>8. IsFiniteSet(G)
  <2>1. G = S \cup {0}
    BY <1>6
  <2> QED
    BY <1>7, <2>1, FS_AddElement
<1>9. Greatest(S) \in S /\ \A y \in S : y <= Greatest(S)
  BY <1>7, GreatestMeans
<1>10. Greatest(G) \in G /\ \A y \in G : y <= Greatest(G)
  BY <1>6, <1>8, GreatestMeans
<1>11. Greatest(G) = Greatest(S)
  <2>1. PICK a \in S, b \in G : a = Greatest(S) /\ b = Greatest(G)
    BY <1>9, <1>10
  <2>2. a \in Nat /\ b \in Nat /\ a \in G /\ a <= b
    BY <1>6, <1>10, <2>1
  <2>3. b = 0 \/ b <= a
    BY <1>6, <1>9, <2>1
  <2> QED
    BY <2>1, <2>2, <2>3
<1>12. biggest_score = Greatest({expected[m] : m \in Nodes})
  BY <1>1, <1>4, <1>5, <1>6, <1>11
<1>13. \A n \in Nodes : scores[n] * Greatest({expected[m] : m \in Nodes}) = expected[n] * biggest_score
  BY <1>3, <1>12
<1> QED
  BY <1>13 DEF ResultVerifies, expected

(* The way back keeps the scores: a delta is complete before anybody reads   *)
(* it and an addition to a score is not lost (bc.cc:123-136).                *)
THEOREM ScoresInvariant == Spec => []ScoresInv
<1>1. SearchInv /\ ScoresInv /\ [Next]_vars => ScoresInv'
  BY ScoresKeep
<1> QED
  BY InitScores, SearchInvariant, <1>1, PTL DEF Spec

(* bc.cc:169-230: the verifier accepts the scores, on every graph, for every *)
(* choice of sources, with any number of threads and any chunk size.         *)
THEOREM ScoresAreExact == Spec => []ResultVerifies
<1>1. SearchInv /\ ScoresInv => ResultVerifies
  BY ScoresVerify
<1> QED
  BY SearchInvariant, ScoresInvariant, <1>1, PTL

--------------------------------------------------------------------------------
(* What the code rests on without looking.                                   *)

(* Nobody else works on the vertex whose delta and score a thread is adding  *)
(* to, nor on a successor whose delta it has still to read.                  *)
SumsDoNotRace ==
  pc = "back" =>
    \A w, x \in Workers : w # x /\ my[w].pc \in {"edges", "score"} /\ my[x].pc \in {"edges", "score"}
      => my[x].u # my[w].u /\ my[x].u \notin my[w].todo

(* bc.cc:124-134: the plain additions to deltas and scores and the plain     *)
(* reads of deltas never meet a write of another thread.                     *)
THEOREM SumsHaveOneWriter == Spec => []SumsDoNotRace
<1>1. SearchInv /\ ScoresInv => SumsDoNotRace
  <2> SUFFICES ASSUME SearchInv, ScoresInv, pc = "back", NEW w \in Workers, NEW x \in Workers, w # x,
                      my[w].pc \in {"edges", "score"}, my[x].pc \in {"edges", "score"}
               PROVE  my[x].u # my[w].u /\ my[x].u \notin my[w].todo
    BY DEF SumsDoNotRace
  <2>1. Busy(w) /\ Busy(x)
    BY DEF Busy
  <2>2. /\ Types /\ iter > 0 /\ BackWorker(w) /\ d \in Int
        /\ my[w].u # my[x].u /\ Dist[my[w].u] = d - 1 /\ Dist[my[x].u] = d - 1
    BY <2>1, InHand DEF SearchInv, ScoresInv, Types
  <2>3. ASSUME NEW v \in my[w].todo PROVE Dist[v] = d
    <3>1. v \in SuccsOf(my[w].u)
      BY <2>2 DEF BackWorker
    <3>2. <<my[w].u, v>> \in Edges
      BY <3>1 DEF SuccsOf, Succs, Edges
    <3>3. my[w].u \in Nodes /\ v \in Nodes
      BY <3>1, <2>1, InHand DEF SuccsOf, Succs
    <3>4. Dist[v] = Dist[my[w].u] + 1
      BY <2>2, <3>2, <3>3, RootFacts
    <3> QED
      BY <2>2, <3>4
  <2> QED
    BY <2>2, <2>3
<1> QED
  BY SearchInvariant, ScoresInvariant, <1>1, PTL

(* bc.cc:71-73,103 and sliding_queue.h:105-106: in every iteration a vertex  *)
(* is pushed once at most, so the num_nodes slots that nobody counts are     *)
(* enough, and overlapping flushes have slots of their own.                  *)
THEOREM EveryVertexIsQueuedOnce ==
  Spec => [](queue!NoItemTwice /\ queue!NeverOverflows /\ queue!FlushesAreDisjoint)
<1>1. SearchInv => queue!NoItemTwice /\ queue!NeverOverflows /\ queue!FlushesAreDisjoint
  <2> SUFFICES ASSUME SearchInv
               PROVE  queue!NoItemTwice /\ queue!NeverOverflows /\ queue!FlushesAreDisjoint
    OBVIOUS
  <2>1. QOK /\ QueueTypes /\ OnePlaceEach /\ queue!FlushesAreDisjoint
    BY DEF SearchInv, QOK
  <2>2. queue!NoItemTwice
    BY <2>1, OnePlaceEachIsNoItemTwice
  <2>3. queue!NeverOverflows
    BY <2>1, SlotsSuffice, SharedSize DEF queue!NeverOverflows
  <2> QED
    BY <2>1, <2>2, <2>3
<1> QED
  BY SearchInvariant, <1>1, PTL

================================================================================
