------------------------------ MODULE DOBFSProofs ------------------------------
(***************************************************************************)
(* The direction-optimizing BFS keeps its promises on every graph, with any  *)
(* number of workers and any tuning: each vertex is queued once, the regions *)
(* report exactly, the search is one by levels, and the verifier accepts its *)
(* tree.                                                                     *)
(*                                                                           *)
(* The proof is one induction.  SearchInv relates the tree, the queue, the   *)
(* bitmaps and the local variables of every worker in every region;          *)
(* LevelsInv is the invariant of the search by levels, instantiated with     *)
(* this search's tree.  Each is needed for the other: a bottom-up step       *)
(* claims from the level being expanded only because no level that is over   *)
(* has an open edge.                                                         *)
(***************************************************************************)
EXTENDS DOBFS, FiniteSetTheorems, WellFoundedInduction, TLAPS

--------------------------------------------------------------------------------
(* The inductive invariant.                                                  *)

(* The regions main opens, and the labels a worker goes through in them.     *)
Regions == {"InitParent", "TDStep", "QueueToBitmap", "BUStep", "BitmapToQueue", "Cleanup"}

WorkerPCs == {"begin", "edges", "cas", "push", "copy", "lastcopy", "load", "vertex",
              "store", "scan", "done"}

(* The local variables of one worker of a region.                            *)
WorkerType ==
  [pc : WorkerPCs, i : Nat, end : Nat, u : Nodes, todo : SUBSET Nodes, v : Nodes,
   curr_val : Int, word : SUBSET Nodes, count : Int]

(* The types of everything but the queue.                                    *)
Types ==
  /\ out_neigh \in [Nodes -> SUBSET Nodes] /\ source \in Nodes
  /\ alpha \in Nat \ {0} /\ beta \in Nat \ {0} /\ max_bu_iters \in Nat
  /\ pc \in Regions \cup {"while", "done"}
  /\ parent \in [Nodes -> Int]
  /\ depth \in [Nodes -> Nat \cup {-1}]
  /\ level \in Nat
  /\ front \subseteq Nodes /\ curr \subseteq Nodes
  /\ edges_to_check \in Int /\ scout_count \in Int
  /\ awake_count \in Nat /\ old_awake_count \in Nat /\ bu_iters \in Nat
  /\ next_index \in Nat
  /\ my \in [Workers -> WorkerType]

(* What parent[v] holds as long as v is not claimed.                         *)
Weight(v) == IF out_degree(v) # 0 THEN out_degree(v) ELSE 1

(* The tree: an unreached vertex still holds the weight InitParent gave it   *)
(* (until Cleanup overwrites it), no vertex is deeper than the level being   *)
(* built, and front has only vertices of levels that are over or being       *)
(* expanded.                                                                 *)
TreeOK ==
  IF pc = "InitParent"
  THEN (\A v \in Nodes : depth[v] = -1) /\ level = 0 /\ front = {}
  ELSE /\ \A v \in Nodes : IF depth[v] = -1 THEN parent[v] < 0 ELSE parent[v] \in Nodes
       /\ pc \notin {"Cleanup", "done"} => \A v \in Nodes \ Visited : parent[v] = -Weight(v)
       /\ depth[source] = 0
       /\ \A v \in Visited :
             depth[v] <= IF pc \in {"TDStep", "BUStep"} THEN level + 1 ELSE level
       /\ \A v \in front : v \in Visited /\ depth[v] <= level

(* The region InitParent: a worker that is done has written its range.       *)
InInitParent ==
  /\ shared_in = 0
  /\ \A w \in Workers : /\ my[w].pc \in {"begin", "done"}
                        /\ my[w].pc = "done" => \A v \in Range_(w) : parent[v] = -Weight(v)

(* The queue.                                                                *)
QueueTypes ==
  /\ shared_in \in Nat /\ shared_out_start \in Nat /\ shared_out_end \in Nat
  /\ shared_out_start <= shared_out_end /\ shared_out_end <= shared_in
  /\ shared \in [queue!Slots -> Nodes \cup {Garbage}]
  /\ local_queue \in [Workers -> Seq(Nodes)]
  /\ copy_start \in [Workers -> Nat \cup {queue!NotFlushing}]

(* Every item is in one slot or one buffer, once: NoItemTwice, point by      *)
(* point.                                                                    *)
OnePlaceEach ==
  /\ \A i, j \in queue!Written : shared[i] = shared[j] => i = j
  /\ \A i \in queue!Written : shared[i] \in Nodes
  /\ \A i \in queue!Written, t \in Workers : \A k \in 1 .. Len(local_queue[t]) : local_queue[t][k] # shared[i]
  /\ \A t, u \in Workers : \A k \in 1 .. Len(local_queue[t]), l \in 1 .. Len(local_queue[u]) :
        local_queue[t][k] = local_queue[u][l] => t = u /\ k = l

(* What the queue keeps.                                                     *)
QOK == QueueTypes /\ OnePlaceEach /\ queue!FlushesAreDisjoint

(* A worker's buffer is in use only inside the two regions that push.        *)
BuffersMatch ==
  \A w \in Workers :
    /\ copy_start[w] # queue!NotFlushing <=>
         pc \in {"TDStep", "BitmapToQueue"} /\ my[w].pc \in {"copy", "lastcopy"}
    /\ pc \notin {"TDStep", "BitmapToQueue"} \/ my[w].pc \in {"begin", "done"}
         => local_queue[w] = <<>>

(* The workers that have claimed a vertex and not pushed it yet, or that     *)
(* scanned one; and those vertices.                                          *)
Pushing(w) == my[w].pc \in {"push", "copy"}
Unpushed == {my[w].v : w \in {x \in Workers : Pushing(x)}}

(* What lies before the end of the window is of this level or an older one.  *)
OlderOK ==
  \A i \in 0 .. shared_out_end - 1 :
    /\ shared[i] \in Visited
    /\ IF pc = "BitmapToQueue" THEN depth[shared[i]] < level ELSE depth[shared[i]] <= level

(* The window is the level being expanded whenever main reads the queue, and *)
(* main opens no region on an empty one.                                     *)
WindowOK ==
  /\ pc \in {"while", "TDStep", "QueueToBitmap"} => queue!Window = LevelOf(level)
  /\ pc \notin {"TDStep", "BitmapToQueue"} => shared_in = shared_out_end
  /\ pc = "BUStep" => LevelOf(level) # {}
  /\ pc \in {"TDStep", "QueueToBitmap"} => shared_out_start < shared_out_end
  /\ pc \in {"Cleanup", "done"} => LevelOf(level) = {}

(* What is about to be pushed is not in the queue, nor about to be pushed by *)
(* another worker.                                                           *)
PushesOK ==
  /\ \A w \in Workers : Pushing(w) => my[w].v \notin queue!Pending
  /\ \A w, x \in Workers : Pushing(w) /\ Pushing(x) /\ my[w].v = my[x].v => w = x

(* The regions.                                                              *)

(* A worker's share of the window, and what it has done of it: every out-    *)
(* neighbour of the vertices behind it is reached, or still in its hands.    *)
Share(w) == StaticRange(queue!size, w)

TDWorker(w) ==
  LET m == my[w] IN
  /\ m.pc \in {"begin", "edges", "cas", "push", "copy", "lastcopy", "done"}
  /\ m.todo # {} => depth[m.u] = level /\ m.todo \subseteq out_neigh[m.u]
  /\ m.pc = "cas" => depth[m.u] = level /\ m.v \in out_neigh[m.u] /\ m.curr_val = -Weight(m.v)
  /\ m.pc # "begin" => /\ Share(w).begin <= m.i /\ m.i <= m.end /\ m.end = Share(w).end
                       /\ \A j \in Share(w).begin .. m.i - 1 :
                            \A v \in out_neigh[shared[shared_out_start + j]] :
                               v \in Visited \/ v \in m.todo \/ (m.pc = "cas" /\ v = m.v)
  /\ m.pc \in {"lastcopy", "done"} => m.i = m.end /\ m.todo = {}

(* The region TDStep: what is queued or in a worker's hands is the next      *)
(* level, and the counts add up to its weights.                              *)
InTDStep ==
  /\ \A w \in Workers : TDWorker(w)
  /\ queue!Pending \cup Unpushed = LevelOf(level + 1)
  /\ PushesOK
  /\ Reduce = SumFunction([v \in LevelOf(level + 1) |-> Weight(v)])

(* A worker of QueueToBitmap has set the bits of the part of its share that  *)
(* lies behind it.                                                           *)
QBWorker(w) ==
  LET m == my[w] IN
  /\ m.pc \in {"begin", "load", "cas", "done"}
  /\ m.pc # "begin" => /\ Share(w).begin <= m.i /\ m.i <= m.end /\ m.end = Share(w).end
                       /\ \A j \in Share(w).begin .. m.i - 1 : shared[shared_out_start + j] \in front
  /\ m.pc = "cas" => m.i < m.end /\ m.u = shared[shared_out_start + m.i]
  /\ m.pc = "done" => m.i = m.end

(* The region QueueToBitmap.                                                 *)
InQueueToBitmap == \A w \in Workers : QBWorker(w)

(* The dynamic chunk of BUStep a vertex is in, and what a worker knows of    *)
(* its own: it is alone in it, so the word of next it loaded is still the    *)
(* word.                                                                     *)
Chunk(v) == v \div kChunk

BUWorker(w) ==
  LET m == my[w] IN
  /\ m.pc \in {"begin", "vertex", "store", "done"}
  /\ m.pc \in {"begin", "done"} => m.i = m.end
  /\ m.i <= m.end /\ m.end <= num_nodes /\ m.end <= next_index
  /\ m.pc = "done" => next_index >= num_nodes
  /\ \A v \in m.i .. m.end - 1 : Chunk(v) = Chunk(m.i)
  /\ m.pc = "store" => /\ m.i < m.end
                       /\ depth[m.i] = level + 1
                       /\ m.word = bitmap!LoadWord(curr, m.i)
  /\ m.count \in Nat

(* A vertex the bottom-up sweep is through with: reached, or without an in-  *)
(* neighbour in the front.                                                   *)
Settled(v) == v \in Visited \/ \A u \in in_neigh(v) : u \notin front

(* The region BUStep: chunks are handed out once, what lies before the next  *)
(* one is settled or in a worker's hands, and next has every claimed vertex  *)
(* but those whose bit is about to be stored.                                *)
InBUStep ==
  /\ \A w \in Workers : BUWorker(w)
  /\ next_index % kChunk = 0
  /\ \A w, x \in Workers :
        w # x /\ my[w].i < my[w].end /\ my[x].i < my[x].end => Chunk(my[w].i) # Chunk(my[x].i)
  /\ \A v \in Nodes : v < next_index =>
        Settled(v) \/ \E w \in Workers : my[w].i <= v /\ v < my[w].end
  /\ LevelOf(level) \subseteq front
  /\ curr = LevelOf(level + 1) \ {my[w].i : w \in {x \in Workers : my[x].pc = "store"}}
  /\ Reduce = Cardinality(LevelOf(level + 1))
  /\ old_awake_count > 0

(* What a worker of BitmapToQueue has scanned of its range it has pushed, or *)
(* is pushing.                                                               *)
Scanned(w, v) == my[w].pc # "begin" /\ v < my[w].i

BQWorker(w) ==
  LET m == my[w] IN
  /\ m.pc \in {"begin", "scan", "push", "copy", "lastcopy", "done"}
  /\ m.pc # "begin" => /\ StaticRange(num_nodes, w).begin <= m.i /\ m.i <= m.end
                       /\ m.end = StaticRange(num_nodes, w).end
  /\ m.pc \in {"lastcopy", "done"} => m.i = m.end
  /\ \A v \in Range_(w) : v \in queue!Pending \cup Unpushed <=> v \in front /\ Scanned(w, v)

(* The region BitmapToQueue.                                                 *)
InBitmapToQueue ==
  /\ front = LevelOf(level)
  /\ \A w \in Workers : BQWorker(w)
  /\ PushesOK

(* The region Cleanup: a worker that is done has overwritten the weights.    *)
InCleanup ==
  \A w \in Workers : /\ my[w].pc \in {"begin", "done"}
                     /\ my[w].pc = "done" => \A v \in Range_(w) : parent[v] >= -1

(* What does not depend on the workers.                                      *)
Steady == TreeOK /\ QOK /\ OlderOK /\ WindowOK

(* What the search keeps, apart from what makes the tree breadth-first.      *)
SearchInv ==
  /\ Types
  /\ Steady
  /\ BuffersMatch
  /\ pc = "InitParent" => InInitParent
  /\ pc = "TDStep" => InTDStep
  /\ pc = "QueueToBitmap" => InQueueToBitmap
  /\ pc = "BUStep" => InBUStep
  /\ pc = "BitmapToQueue" => InBitmapToQueue
  /\ pc = "Cleanup" => InCleanup
  /\ pc = "done" => \A v \in Nodes : parent[v] >= -1

--------------------------------------------------------------------------------
(* Sums: what the reductions compute.                                        *)

(* The fold behind Reduce, unfolded: a sum takes some element and goes on    *)
(* with the others.                                                          *)
Pick(s) == CHOOSE x \in s : TRUE
SumBody(f, g, s) == IF s = {} THEN 0 ELSE f[Pick(s)] + g[s \ {Pick(s)}]
IsSum(f, S, g) == g = [s \in SUBSET S |-> SumBody(f, g, s)]

(* A family of subsets of a finite set has a smallest one; the inductions    *)
(* below are on the smallest counterexample.                                 *)
LEMMA SmallestSubset ==
  ASSUME NEW S, IsFiniteSet(S), NEW F, F \subseteq SUBSET S, F # {}
  PROVE  \E T \in F : \A U \in F : U \subseteq T => U = T
<1>1. F \subseteq FiniteSubsetsOf(S)
  BY FS_FiniteSubsetsOfFinite
<1>2. PICK T \in F : \A U \in F : <<U, T>> \notin StrictSubsetOrdering(S)
  BY <1>1, FS_StrictSubsetOrderingWellFounded, WFMin
<1>3. \A U \in F : U \subseteq T => U = T
  BY <1>2 DEF StrictSubsetOrdering
<1> QED
  BY <1>3

(* The element the fold takes is one of the set's.                           *)
LEMMA PickFromSet == ASSUME NEW s, s # {} PROVE Pick(s) \in s
  BY DEF Pick

(* One function at most satisfies the fold's equation.                       *)
LEMMA SumIsUnique ==
  ASSUME NEW f, NEW S, IsFiniteSet(S), NEW g, NEW h, IsSum(f, S, g), IsSum(f, S, h)
  PROVE  g = h
<1> DEFINE F == {s \in SUBSET S : g[s] # h[s]}
<1>1. CASE F = {}
  BY <1>1 DEF IsSum
<1>2. CASE F # {}
  <2>1. PICK T \in F : \A U \in F : U \subseteq T => U = T
    <3> HIDE DEF F
    <3>1. F \subseteq SUBSET S
      BY DEF F
    <3> QED
      BY <1>2, <3>1, SmallestSubset
  <2>2. g[T] = SumBody(f, g, T) /\ h[T] = SumBody(f, h, T) /\ T # {}
    BY DEF IsSum, SumBody
  <2>3. Pick(T) \in T
    BY <2>2, PickFromSet
  <2>4. g[T \ {Pick(T)}] = h[T \ {Pick(T)}]
    BY <2>1, <2>3
  <2> QED
    BY <2>2, <2>4 DEF SumBody
<1> QED
  BY <1>1, <1>2

(* The fold over a set is also the fold over its subsets.                    *)
LEMMA SumRestricts ==
  ASSUME NEW f, NEW S, NEW g, IsSum(f, S, g), NEW T \in SUBSET S
  PROVE  IsSum(f, T, [s \in SUBSET T |-> g[s]])
<1> DEFINE h == [s \in SUBSET T |-> g[s]]
<1>1. ASSUME NEW s \in SUBSET T PROVE h[s] = SumBody(f, h, s)
  <2>1. g[s] = SumBody(f, g, s)
    BY DEF IsSum
  <2>2. CASE s = {}
    BY <2>1, <2>2 DEF SumBody
  <2>3. CASE s # {}
    <3>1. h[s \ {Pick(s)}] = g[s \ {Pick(s)}]
      OBVIOUS
    <3> QED
      BY <2>1, <2>3, <3>1 DEF SumBody
  <2> QED
    BY <2>2, <2>3
<1> QED
  BY <1>1 DEF IsSum

(* Some function satisfies the fold's equation.                              *)
LEMMA SumExists ==
  ASSUME NEW f, NEW S, IsFiniteSet(S)
  PROVE  \E g : IsSum(f, S, g)
<1> SUFFICES ASSUME ~\E g : IsSum(f, S, g) PROVE FALSE
  OBVIOUS
<1> DEFINE F == {T \in SUBSET S : ~\E g : IsSum(f, T, g)}
<1>1. PICK T \in F : \A U \in F : U \subseteq T => U = T
  <2> HIDE DEF F
  <2>1. F \subseteq SUBSET S /\ S \in F
    BY DEF F
  <2> QED
    BY <2>1, SmallestSubset
<1> DEFINE G(U) == CHOOSE g : IsSum(f, U, g)
           Value(s) == IF s = {} THEN 0 ELSE f[Pick(s)] + G(s \ {Pick(s)})[s \ {Pick(s)}]
           h == [s \in SUBSET T |-> Value(s)]
<1>2. ASSUME NEW U \in SUBSET T, U # T PROVE IsSum(f, U, G(U)) /\ IsFiniteSet(U)
  BY <1>1, <1>2, FS_Subset
<1>3. ASSUME NEW U \in SUBSET T, U # T PROVE G(U)[U] = Value(U)
  <2>1. G(U)[U] = SumBody(f, G(U), U)
    <3> HIDE DEF G
    <3> QED BY <1>2, <1>3 DEF IsSum
  <2>2. CASE U = {}
    <3> HIDE DEF G
    <3> QED BY <2>1, <2>2 DEF SumBody
  <2>3. CASE U # {}
    <3> DEFINE V == U \ {Pick(U)}
    <3>1. V \subseteq U /\ V # U
      BY <2>3, PickFromSet
    <3>2. G(V) = [s \in SUBSET V |-> G(U)[s]]
      <4> HIDE DEF G, V
      <4>1. IsSum(f, V, [s \in SUBSET V |-> G(U)[s]])
        BY <1>2, <1>3, <3>1, SumRestricts
      <4>2. IsSum(f, V, G(V)) /\ IsFiniteSet(V)
        BY <1>2, <1>3, <3>1
      <4> QED
        BY <4>1, <4>2, SumIsUnique
    <3>3. G(V)[V] = G(U)[V]
      <4> HIDE DEF G, V
      <4> QED BY <3>2
    <3> HIDE DEF G
    <3> QED
      BY <2>1, <2>3, <3>3 DEF SumBody
  <2> QED
    BY <2>2, <2>3
<1>4. ASSUME NEW s \in SUBSET T PROVE h[s] = SumBody(f, h, s)
  <2>1. CASE s = {}
    BY <2>1 DEF SumBody
  <2>2. CASE s # {}
    <3> DEFINE V == s \ {Pick(s)}
    <3>1. V \in SUBSET T /\ V # T
      BY <2>2, PickFromSet
    <3>2. h[V] = G(V)[V]
      <4>1. G(V)[V] = Value(V)
        BY <1>3, <3>1
      <4> HIDE DEF V, Value
      <4> QED BY <4>1, <3>1
    <3> QED
      <4>1. h[s] = f[Pick(s)] + G(V)[V]
        <5> HIDE DEF G
        <5> QED BY <2>2
      <4> HIDE DEF h
      <4> QED BY <2>2, <3>2, <4>1 DEF SumBody
  <2> QED
    BY <2>1, <2>2
<1>5. IsSum(f, T, h)
  <2> HIDE DEF Value
  <2>1. h = [s \in SUBSET T |-> h[s]]
    OBVIOUS
  <2> HIDE DEF h
  <2> QED BY <1>4, <2>1 DEF IsSum
<1> QED
  <2> HIDE DEF h
  <2> QED BY <1>5

(* The fold unfolds.                                                         *)
LEMMA SumUnfolds ==
  ASSUME NEW f, NEW S, IsFiniteSet(S)
  PROVE  \E g : IsSum(f, S, g) /\ SumFunctionOnSet(f, S) = g[S]
<1> DEFINE g == CHOOSE g : g = [s \in SUBSET S |-> IF s = {} THEN 0 ELSE f[CHOOSE x \in s : TRUE] + g[s \ {CHOOSE x \in s : TRUE}]]
<1>1. SumFunctionOnSet(f, S) = g[S]
  BY DEF SumFunctionOnSet, FoldFunctionOnSet, MapThenFoldSet
<1>2. \E h : h = [s \in SUBSET S |-> IF s = {} THEN 0 ELSE f[CHOOSE x \in s : TRUE] + h[s \ {CHOOSE x \in s : TRUE}]]
  <2>1. PICK h : IsSum(f, S, h)
    BY SumExists
  <2>2. h = [s \in SUBSET S |-> IF s = {} THEN 0 ELSE f[CHOOSE x \in s : TRUE] + h[s \ {CHOOSE x \in s : TRUE}]]
    BY <2>1 DEF IsSum, SumBody, Pick
  <2> QED
    BY <2>2
<1>3. g = [s \in SUBSET S |-> IF s = {} THEN 0 ELSE f[CHOOSE x \in s : TRUE] + g[s \ {CHOOSE x \in s : TRUE}]]
  BY <1>2
<1>4. IsSum(f, S, g)
  <2> HIDE DEF g
  <2> QED BY <1>3 DEF IsSum, SumBody, Pick
<1> QED
  BY <1>1, <1>4

(* The fold, as an equation.                                                 *)
LEMMA SumStep ==
  ASSUME NEW f, NEW S, IsFiniteSet(S)
  PROVE  /\ S = {} => SumFunctionOnSet(f, S) = 0
         /\ S # {} => SumFunctionOnSet(f, S) = f[Pick(S)] + SumFunctionOnSet(f, S \ {Pick(S)})
<1>1. PICK g : IsSum(f, S, g) /\ SumFunctionOnSet(f, S) = g[S]
  BY SumUnfolds
<1>2. g[S] = SumBody(f, g, S)
  BY <1>1 DEF IsSum
<1>3. CASE S = {}
  BY <1>1, <1>2, <1>3 DEF SumBody
<1>4. CASE S # {}
  <2> DEFINE T == S \ {Pick(S)}
  <2>1. IsFiniteSet(T) /\ T \in SUBSET S
    BY FS_RemoveElement
  <2>2. PICK h : IsSum(f, T, h) /\ SumFunctionOnSet(f, T) = h[T]
    BY <2>1, SumUnfolds
  <2>3. h = [s \in SUBSET T |-> g[s]]
    <3> HIDE DEF T
    <3> QED BY <1>1, <2>1, <2>2, SumRestricts, SumIsUnique
  <2>4. h[T] = g[T]
    <3> HIDE DEF T
    <3> QED BY <2>3
  <2> QED
    BY <1>1, <1>2, <1>4, <2>2, <2>4 DEF SumBody
<1> QED
  BY <1>3, <1>4

(* The sum of nothing.                                                       *)
LEMMA SumEmpty == ASSUME NEW f PROVE SumFunctionOnSet(f, {}) = 0
  BY SumStep, FS_EmptySet

(* A sum of integers is an integer.                                          *)
LEMMA SumIsInt ==
  ASSUME NEW f, NEW S, IsFiniteSet(S), \A x \in S : f[x] \in Int
  PROVE  SumFunctionOnSet(f, S) \in Int
<1> SUFFICES ASSUME SumFunctionOnSet(f, S) \notin Int PROVE FALSE
  OBVIOUS
<1> DEFINE F == {T \in SUBSET S : SumFunctionOnSet(f, T) \notin Int}
<1>1. PICK T \in F : \A U \in F : U \subseteq T => U = T
  <2> HIDE DEF F
  <2>1. F \subseteq SUBSET S /\ S \in F
    BY DEF F
  <2> QED
    BY <2>1, SmallestSubset
<1>2. IsFiniteSet(T) /\ T # {}
  <2>1. IsFiniteSet(T)
    BY <1>1, FS_Subset
  <2>2. CASE T = {}
    BY <1>1, <2>2, SumEmpty
  <2> QED
    BY <2>1, <2>2
<1>3. Pick(T) \in T
  BY <1>2, PickFromSet
<1>4. SumFunctionOnSet(f, T \ {Pick(T)}) \in Int
  BY <1>1, <1>3
<1> QED
  BY <1>1, <1>2, <1>3, <1>4, SumStep

(* Any element can be taken out first.                                       *)
LEMMA SumRemove ==
  ASSUME NEW f, NEW S, IsFiniteSet(S), \A x \in S : f[x] \in Int, NEW y \in S
  PROVE  SumFunctionOnSet(f, S) = f[y] + SumFunctionOnSet(f, S \ {y})
<1> DEFINE Holds(T) == \A z \in T : SumFunctionOnSet(f, T) = f[z] + SumFunctionOnSet(f, T \ {z})
           F == {T \in SUBSET S : ~Holds(T)}
<1> SUFFICES ASSUME ~Holds(S) PROVE FALSE
  OBVIOUS
<1>1. PICK T \in F : \A U \in F : U \subseteq T => U = T
  <2> HIDE DEF F
  <2>1. F \subseteq SUBSET S /\ S \in F
    BY DEF F
  <2> QED
    BY <2>1, SmallestSubset
<1>2. PICK z \in T : SumFunctionOnSet(f, T) # f[z] + SumFunctionOnSet(f, T \ {z})
  BY <1>1
<1>3. IsFiniteSet(T) /\ T \subseteq S /\ Pick(T) \in T
  BY <1>1, <1>2, FS_Subset, PickFromSet
<1> DEFINE x == Pick(T)
           R == (T \ {x}) \ {z}
<1>4. SumFunctionOnSet(f, T) = f[x] + SumFunctionOnSet(f, T \ {x})
  BY <1>2, <1>3, SumStep
<1>5. x # z
  BY <1>2, <1>4
<1>6. Holds(T \ {x}) /\ Holds(T \ {z})
  BY <1>1, <1>2, <1>3
<1>7. SumFunctionOnSet(f, T \ {x}) = f[z] + SumFunctionOnSet(f, R)
  BY <1>2, <1>3, <1>5, <1>6
<1>8. SumFunctionOnSet(f, T \ {z}) = f[x] + SumFunctionOnSet(f, R)
  <2>1. (T \ {z}) \ {x} = R
    OBVIOUS
  <2> QED
    BY <1>2, <1>3, <1>5, <1>6, <2>1
<1>9. /\ SumFunctionOnSet(f, R) \in Int /\ f[x] \in Int /\ f[z] \in Int
  BY <1>2, <1>3, FS_RemoveElement, SumIsInt
<1> HIDE DEF R, x
<1> QED
  BY <1>2, <1>4, <1>7, <1>8, <1>9

(* The sum depends on the values summed only.                                *)
LEMMA SumDependsOnValues ==
  ASSUME NEW f, NEW g, NEW S, IsFiniteSet(S), \A x \in S : f[x] = g[x]
  PROVE  SumFunctionOnSet(f, S) = SumFunctionOnSet(g, S)
<1> SUFFICES ASSUME SumFunctionOnSet(f, S) # SumFunctionOnSet(g, S) PROVE FALSE
  OBVIOUS
<1> DEFINE F == {T \in SUBSET S : SumFunctionOnSet(f, T) # SumFunctionOnSet(g, T)}
<1>1. PICK T \in F : \A U \in F : U \subseteq T => U = T
  <2> HIDE DEF F
  <2>1. F \subseteq SUBSET S /\ S \in F
    BY DEF F
  <2> QED
    BY <2>1, SmallestSubset
<1>2. IsFiniteSet(T) /\ T # {}
  <2>1. IsFiniteSet(T)
    BY <1>1, FS_Subset
  <2>2. CASE T = {}
    BY <1>1, <2>2, SumEmpty
  <2> QED
    BY <2>1, <2>2
<1>3. Pick(T) \in T
  BY <1>2, PickFromSet
<1>4. SumFunctionOnSet(f, T \ {Pick(T)}) = SumFunctionOnSet(g, T \ {Pick(T)})
  BY <1>1, <1>3
<1> QED
  BY <1>1, <1>2, <1>3, <1>4, SumStep

(* A sum of naturals is a natural, zero only if all of them are.             *)
LEMMA SumIsNat ==
  ASSUME NEW f, NEW S, IsFiniteSet(S), \A x \in S : f[x] \in Nat
  PROVE  /\ SumFunctionOnSet(f, S) \in Nat
         /\ SumFunctionOnSet(f, S) # 0 => \E x \in S : f[x] # 0
<1> DEFINE Holds(T) == /\ SumFunctionOnSet(f, T) \in Nat
                       /\ SumFunctionOnSet(f, T) # 0 => \E x \in T : f[x] # 0
           F == {T \in SUBSET S : ~Holds(T)}
<1> SUFFICES ASSUME ~Holds(S) PROVE FALSE
  OBVIOUS
<1>1. PICK T \in F : \A U \in F : U \subseteq T => U = T
  <2> HIDE DEF F
  <2>1. F \subseteq SUBSET S /\ S \in F
    BY DEF F
  <2> QED
    BY <2>1, SmallestSubset
<1>2. IsFiniteSet(T) /\ T # {}
  <2>1. IsFiniteSet(T)
    BY <1>1, FS_Subset
  <2>2. CASE T = {}
    BY <1>1, <2>2, SumEmpty
  <2> QED
    BY <2>1, <2>2
<1>3. Pick(T) \in T
  BY <1>2, PickFromSet
<1>4. Holds(T \ {Pick(T)})
  BY <1>1, <1>3
<1>5. SumFunctionOnSet(f, T) = f[Pick(T)] + SumFunctionOnSet(f, T \ {Pick(T)})
  BY <1>2, SumStep
<1>6. Holds(T)
  BY <1>1, <1>3, <1>4, <1>5
<1> QED
  BY <1>1, <1>6

(* A function's sum, over its domain.                                        *)
LEMMA SumTypes ==
  ASSUME NEW S, IsFiniteSet(S), NEW f \in [S -> Int]
  PROVE  /\ SumFunction(f) \in Int
         /\ f \in [S -> Nat] => SumFunction(f) \in Nat
         /\ SumFunction(f) # 0 => S # {}
<1>1. SumFunction(f) = SumFunctionOnSet(f, S)
  BY DEF SumFunction
<1>2. SumFunctionOnSet(f, S) \in Int
  BY SumIsInt
<1>3. ASSUME f \in [S -> Nat] PROVE SumFunctionOnSet(f, S) \in Nat
  BY <1>3, SumIsNat
<1>4. S = {} => SumFunctionOnSet(f, S) = 0
  BY SumEmpty
<1> QED
  BY <1>1, <1>2, <1>3, <1>4

(* One value changes, as when a worker's count grows: the sum changes by as  *)
(* much.                                                                     *)
LEMMA SumChanges ==
  ASSUME NEW S, IsFiniteSet(S), NEW f \in [S -> Int], NEW g \in [S -> Int],
         NEW y \in S, \A x \in S \ {y} : g[x] = f[x]
  PROVE  SumFunction(g) = SumFunction(f) - f[y] + g[y]
<1> DEFINE T == S \ {y}
<1>1. IsFiniteSet(T)
  BY FS_RemoveElement
<1>2. SumFunctionOnSet(f, T) = SumFunctionOnSet(g, T)
  BY <1>1, SumDependsOnValues
<1>3. SumFunctionOnSet(f, T) \in Int
  BY <1>1, SumIsInt
<1>4. SumFunctionOnSet(f, S) = f[y] + SumFunctionOnSet(f, T)
  BY SumRemove
<1>5. SumFunctionOnSet(g, S) = g[y] + SumFunctionOnSet(g, T)
  BY SumRemove
<1>6. SumFunction(f) = SumFunctionOnSet(f, S) /\ SumFunction(g) = SumFunctionOnSet(g, S)
  BY DEF SumFunction
<1>7. f[y] \in Int /\ g[y] \in Int
  OBVIOUS
<1> HIDE DEF T
<1> QED
  BY <1>2, <1>3, <1>4, <1>5, <1>6, <1>7

(* One value is added, as when a vertex is claimed: the sum grows by it.     *)
LEMMA SumGrows ==
  ASSUME NEW S, IsFiniteSet(S), NEW y, y \notin S, NEW T, T = S \cup {y},
         NEW f \in [S -> Int], NEW g \in [T -> Int], \A x \in S : g[x] = f[x]
  PROVE  SumFunction(g) = SumFunction(f) + g[y]
<1>1. IsFiniteSet(T)
  BY FS_AddElement
<1>2. T \ {y} = S
  OBVIOUS
<1>3. SumFunctionOnSet(g, T) = g[y] + SumFunctionOnSet(g, S)
  <2>1. y \in T /\ \A x \in T : g[x] \in Int
    OBVIOUS
  <2>2. SumFunctionOnSet(g, T) = g[y] + SumFunctionOnSet(g, T \ {y})
    BY <1>1, <2>1, SumRemove
  <2> QED BY <1>2, <2>2
<1>4. SumFunctionOnSet(g, S) = SumFunctionOnSet(f, S)
  BY SumDependsOnValues
<1>5. SumFunctionOnSet(f, S) \in Int
  BY SumIsInt
<1>6. SumFunction(f) = SumFunctionOnSet(f, S) /\ SumFunction(g) = SumFunctionOnSet(g, T)
  BY DEF SumFunction
<1>7. g[y] \in Int
  OBVIOUS
<1> QED
  BY <1>2, <1>3, <1>4, <1>5, <1>6, <1>7

--------------------------------------------------------------------------------
(* Arithmetic: static ranges, chunks and words.                              *)

(* Quotient and remainder.                                                   *)
LEMMA DivisionFacts ==
  ASSUME NEW n \in Nat, NEW k \in Nat \ {0}
  PROVE  /\ n \div k \in Nat /\ n % k \in Nat /\ n % k < k
         /\ n = k * (n \div k) + (n % k)
  OBVIOUS

(* Quotient and remainder are determined by the equation.                    *)
LEMMA DivisionIsUnique ==
  ASSUME NEW k \in Nat \ {0}, NEW q \in Nat, NEW r \in 0 .. k - 1
  PROVE  (k * q + r) \div k = q /\ (k * q + r) % k = r
  OBVIOUS

(* A non-empty set of naturals has a smallest one.                           *)
LEMMA SmallestNumber ==
  ASSUME NEW F, F \subseteq Nat, F # {}
  PROVE  \E m \in F : \A n \in F : m <= n
<1>1. PICK top \in F : TRUE
  OBVIOUS
<1> DEFINE S == 0 .. top
           G == {T \in SUBSET S : \E n \in F : T = 0 .. n}
<1>2. PICK T \in G : \A U \in G : U \subseteq T => U = T
  <2>1. S \in G /\ G \subseteq SUBSET S
    BY <1>1
  <2>2. IsFiniteSet(S)
    BY <1>1, FS_Interval
  <2> HIDE DEF G, S
  <2> QED
    BY <2>1, <2>2, SmallestSubset
<1>3. PICK m \in F : T = 0 .. m
  BY <1>2
<1>4. ASSUME NEW n \in F, n < m PROVE FALSE
  <2>1. 0 .. n \subseteq T /\ 0 .. n \in G /\ m \notin 0 .. n /\ m \in T
    BY <1>2, <1>3, <1>4
  <2> QED
    BY <1>2, <2>1
<1> QED
  BY <1>4

(* A product grows with its factor ...                                       *)
LEMMA ProductGrows ==
  ASSUME NEW q \in Nat, NEW a \in Nat, NEW b \in Nat, a <= b
  PROVE  q * a \in Nat /\ q * b \in Nat /\ q * a <= q * b
  OBVIOUS

(* ... by at least the other one.                                            *)
LEMMA ProductsOrder ==
  ASSUME NEW k \in Nat \ {0}, NEW a \in Nat, NEW b \in Nat, k * a < k * b
  PROVE  a < b
  BY ProductGrows

(* Where the range of worker t starts in GOMP's static schedule.             *)
Begin(n, t) == (n \div NumThreads) * t + (IF t < n % NumThreads THEN t ELSE n % NumThreads)

(* StaticRange gives a worker what lies between its start and the next.      *)
LEMMA RangeOfBegins ==
  ASSUME NEW n \in Nat, NEW w \in Workers
  PROVE  StaticRange(n, w) = [begin |-> Begin(n, w), end |-> Begin(n, w + 1)]
<1> DEFINE q == n \div NumThreads
           r == n % NumThreads
<1>1. q \in Nat /\ r \in Nat /\ w \in Nat
  BY DivisionFacts, DOBFSAssumption DEF Workers
<1>2. (q + 1) * w = q * w + w /\ q * (w + 1) = q * w + q /\ q * w \in Nat
  <2> HIDE DEF q
  <2> QED BY <1>1
<1> QED
  <2>1. StaticRange(n, w) = IF w < r THEN [begin |-> (q + 1) * w, end |-> (q + 1) * w + q + 1]
                 ELSE [begin |-> q * w + r, end |-> q * w + r + q]
    BY DEF StaticRange
  <2>2. Begin(n, w) = q * w + (IF w < r THEN w ELSE r) /\ Begin(n, w + 1) = q * (w + 1) + (IF w + 1 < r THEN w + 1 ELSE r)
    BY DEF Begin
  <2> HIDE DEF q, r
  <2> QED BY <1>1, <1>2, <2>1, <2>2

(* The starts are in the order of the workers.                               *)
LEMMA BeginGrows ==
  ASSUME NEW n \in Nat, NEW t \in 0 .. NumThreads, NEW s \in 0 .. NumThreads, t <= s
  PROVE  /\ Begin(n, t) \in Nat /\ Begin(n, t) <= Begin(n, s)
         /\ Begin(n, 0) = 0 /\ Begin(n, NumThreads) = n
<1> DEFINE q == n \div NumThreads
           r == n % NumThreads
<1>1. q \in Nat /\ r \in Nat /\ r < NumThreads /\ n = NumThreads * q + r /\ NumThreads \in Nat
  BY DivisionFacts, DOBFSAssumption
<1>2. \A x \in 0 .. NumThreads : Begin(n, x) = q * x + (IF x < r THEN x ELSE r)
  BY DEF Begin
<1>3. q * t \in Nat /\ q * s \in Nat /\ q * t <= q * s /\ q * 0 = 0 /\ q * NumThreads = NumThreads * q
  <2> HIDE DEF q
  <2> QED BY <1>1, ProductGrows
<1> HIDE DEF q, r
<1>4. Begin(n, t) = q * t + (IF t < r THEN t ELSE r) /\ Begin(n, s) = q * s + (IF s < r THEN s ELSE r)
  BY <1>2
<1>5. Begin(n, 0) = q * 0 + (IF 0 < r THEN 0 ELSE r) /\ Begin(n, NumThreads) = q * NumThreads + (IF NumThreads < r THEN NumThreads ELSE r)
  BY <1>1, <1>2
<1>6. Begin(n, t) \in Nat /\ Begin(n, t) <= Begin(n, s)
  BY <1>1, <1>3, <1>4
<1>7. Begin(n, 0) = 0
  BY <1>1, <1>3, <1>5
<1>8. Begin(n, NumThreads) = n
  BY <1>1, <1>3, <1>5
<1> QED
  BY <1>6, <1>7, <1>8

(* The ranges of the static schedule lie in 0 .. n - 1, ...                  *)
LEMMA RangeBounds ==
  ASSUME NEW n \in Nat, NEW w \in Workers
  PROVE  /\ StaticRange(n, w).begin \in Nat /\ StaticRange(n, w).end \in Nat
         /\ StaticRange(n, w).begin <= StaticRange(n, w).end
         /\ StaticRange(n, w).end <= n
<1>1. w \in 0 .. NumThreads /\ w + 1 \in 0 .. NumThreads /\ w <= w + 1 /\ w + 1 <= NumThreads
       /\ NumThreads \in 0 .. NumThreads
  BY DOBFSAssumption DEF Workers
<1>2. Begin(n, w) \in Nat /\ Begin(n, w + 1) \in Nat /\ Begin(n, w) <= Begin(n, w + 1) /\ Begin(n, w + 1) <= n
  BY <1>1, BeginGrows
<1> QED
  BY <1>2, RangeOfBegins

(* ... cover it ...                                                          *)
LEMMA RangesCover ==
  ASSUME NEW n \in Nat, NEW j \in 0 .. n - 1
  PROVE  \E w \in Workers : StaticRange(n, w).begin <= j /\ j < StaticRange(n, w).end
<1> DEFINE F == {t \in 0 .. NumThreads : j < Begin(n, t)}
<1>1. PICK m \in F : \A t \in F : m <= t
  <2>1. NumThreads \in F /\ F \subseteq Nat
    BY BeginGrows, DOBFSAssumption
  <2> HIDE DEF F
  <2> QED
    BY <2>1, SmallestNumber
<1>2. m # 0 /\ m \in 0 .. NumThreads /\ NumThreads \in Nat
  BY <1>1, BeginGrows, DOBFSAssumption
<1>3. m - 1 \in Workers /\ m - 1 \in 0 .. NumThreads /\ m - 1 \notin F
  BY <1>1, <1>2 DEF Workers
<1>4. ~(j < Begin(n, m - 1)) /\ Begin(n, m - 1) \in Nat /\ j < Begin(n, (m - 1) + 1)
  <2>1. (m - 1) + 1 = m
    BY <1>2
  <2> QED
    BY <1>1, <1>3, <2>1, BeginGrows
<1>5. StaticRange(n, m - 1) = [begin |-> Begin(n, m - 1), end |-> Begin(n, (m - 1) + 1)]
  BY <1>3, RangeOfBegins
<1> QED
  BY <1>3, <1>4, <1>5

(* ... and do not overlap.                                                   *)
LEMMA RangesAreDisjoint ==
  ASSUME NEW n \in Nat, NEW j \in Int, NEW w \in Workers, NEW x \in Workers,
         StaticRange(n, w).begin <= j, j < StaticRange(n, w).end,
         StaticRange(n, x).begin <= j, j < StaticRange(n, x).end
  PROVE  w = x
<1>1. ASSUME NEW a \in Workers, NEW b \in Workers, a < b
      PROVE  StaticRange(n, a).end <= StaticRange(n, b).begin
  <2>1. a + 1 \in 0 .. NumThreads /\ b \in 0 .. NumThreads /\ a + 1 <= b
    BY <1>1, DOBFSAssumption DEF Workers
  <2>2. Begin(n, a + 1) <= Begin(n, b)
    BY <2>1, BeginGrows
  <2> QED
    BY <2>2, RangeOfBegins
<1>2. w < x \/ x < w \/ w = x
  BY DOBFSAssumption DEF Workers
<1> QED
  BY <1>1, <1>2, RangeBounds

(* Dividing by a product is dividing twice.                                  *)
LEMMA DivisionTwice ==
  ASSUME NEW n \in Nat, NEW k \in Nat \ {0}, NEW c \in Nat \ {0}
  PROVE  n \div (k * c) = (n \div k) \div c
<1>1. PICK q \in Nat, r \in 0 .. k - 1 : n = k * q + r /\ n \div k = q
  BY DivisionFacts
<1>2. PICK d \in Nat, s \in 0 .. c - 1 : q = c * d + s /\ q \div c = d
  BY DivisionFacts
<1>3. n = (k * c) * d + (k * s + r)
  <2>1. n = k * (c * d + s) + r
    BY <1>1, <1>2
  <2>2. k * (c * d + s) = (k * c) * d + k * s
    OBVIOUS
  <2>3. (k * c) * d \in Nat /\ k * s \in Nat
    OBVIOUS
  <2> QED
    BY <2>1, <2>2, <2>3
<1>4. k * s + r \in 0 .. (k * c) - 1 /\ k * c \in Nat \ {0}
  <2>1. k * s <= k * (c - 1) /\ k * s \in Nat /\ k * (c - 1) = k * c - k
    BY ProductGrows
  <2>2. k * c \in Nat
    OBVIOUS
  <2> QED
    BY <2>1, <2>2
<1>5. n \div (k * c) = d
  <2> DEFINE m == k * c
             t == k * s + r
  <2> HIDE DEF m, t
  <2>1. m \in Nat \ {0} /\ t \in 0 .. m - 1 /\ n = m * d + t
    BY <1>3, <1>4 DEF m, t
  <2>2. n \div m = d
    BY <2>1, DivisionIsUnique
  <2> QED
    BY <2>2 DEF m
<1> QED
  BY <1>1, <1>2, <1>5

(* 1024 is a multiple of 64: vertices of one bitmap word are of one chunk,   *)
(* which is why next.set_bit needs no atomic operation.                      *)
LEMMA WordsNestInChunks ==
  ASSUME NEW a \in Nat, NEW b \in Nat, bitmap!word_offset(a) = bitmap!word_offset(b)
  PROVE  Chunk(a) = Chunk(b)
<1>1. PICK c \in Nat \ {0} : kChunk = kBitsPerWord * c
  <2>1. /\ kChunk = kBitsPerWord * (kChunk \div kBitsPerWord) + (kChunk % kBitsPerWord)
        /\ kChunk \div kBitsPerWord \in Nat
    BY DivisionFacts, DOBFSAssumption, ChunkAssumption
  <2>2. kChunk % kBitsPerWord = 0 /\ kChunk \in Nat \ {0} /\ kBitsPerWord \in Nat \ {0}
    BY DOBFSAssumption, ChunkAssumption
  <2> QED
    BY <2>1, <2>2
<1>2. Chunk(a) = (a \div kBitsPerWord) \div c /\ Chunk(b) = (b \div kBitsPerWord) \div c
  <2>1. kBitsPerWord \in Nat \ {0}
    BY ChunkAssumption
  <2>2. ASSUME NEW n \in Nat PROVE n \div kChunk = (n \div kBitsPerWord) \div c
    <3>1. n \div (kBitsPerWord * c) = (n \div kBitsPerWord) \div c
      BY <2>1, DivisionTwice
    <3> QED
      BY <1>1, <3>1
  <2> QED
    BY <2>2 DEF Chunk
<1> QED
  BY <1>2 DEF bitmap!word_offset

(* BUClaimChunk                                                              *)
LEMMA NextChunk ==
  ASSUME NEW n \in Nat, n % kChunk = 0
  PROVE  /\ (n + kChunk) % kChunk = 0
         /\ \A v \in n .. n + kChunk - 1 : Chunk(v) = Chunk(n)
         /\ \A v \in 0 .. n - 1 : Chunk(v) # Chunk(n)
<1> DEFINE q == n \div kChunk
<1>1. kChunk \in Nat \ {0} /\ q \in Nat /\ n = kChunk * q
  BY DOBFSAssumption, DivisionFacts
<1> HIDE DEF q
<1>2. (n + kChunk) % kChunk = 0
  <2>1. n + kChunk = kChunk * (q + 1) + 0
    BY <1>1
  <2> QED
    BY <1>1, <2>1, DivisionIsUnique
<1>3. ASSUME NEW v \in n .. n + kChunk - 1 PROVE Chunk(v) = q
  <2>1. v - n \in 0 .. kChunk - 1 /\ v = kChunk * q + (v - n)
    BY <1>1
  <2> QED
    BY <1>1, <2>1, DivisionIsUnique DEF Chunk
<1>4. ASSUME NEW v \in 0 .. n - 1 PROVE Chunk(v) < q
  <2>1. v \in Nat /\ v < n
    OBVIOUS
  <2>2. Chunk(v) \in Nat /\ v = kChunk * Chunk(v) + (v % kChunk) /\ v % kChunk \in Nat
    BY <1>1, <2>1, DivisionFacts DEF Chunk
  <2>3. ASSUME NEW c \in Nat, v = kChunk * c + (v % kChunk), v % kChunk \in Nat
        PROVE  kChunk * c < kChunk * q
    <3>1. kChunk * c \in Nat /\ kChunk * q \in Nat
      BY <1>1
    <3> QED
      BY <1>1, <2>1, <2>3, <3>1
  <2> QED
    BY <1>1, <2>2, <2>3, ProductsOrder
<1>5. n \in n .. n + kChunk - 1
  BY <1>1
<1> QED
  BY <1>1, <1>2, <1>3, <1>4, <1>5

--------------------------------------------------------------------------------
(* The queue.                                                                *)

(* What a thread's buffer holds.                                             *)
LEMMA BufferFacts ==
  ASSUME QueueTypes, NEW t \in Workers
  PROVE  /\ local_queue[t] \in Seq(Nodes) /\ Len(local_queue[t]) \in Nat
         /\ DOMAIN local_queue[t] = 1 .. Len(local_queue[t])
         /\ \A k \in 1 .. Len(local_queue[t]) : local_queue[t][k] \in Nodes
         /\ copy_start[t] \in Int
  BY DEF QueueTypes, queue!NotFlushing

(* The reserved slots of a thread, as bounds.                                *)
LEMMA ReservedMeans ==
  ASSUME QueueTypes, NEW t \in Workers, NEW i
  PROVE  i \in queue!Reserved(t) <=> /\ copy_start[t] # queue!NotFlushing
                                    /\ i \in Int /\ copy_start[t] <= i
                                    /\ i < copy_start[t] + Len(local_queue[t])
  BY BufferFacts DEF queue!Reserved

(* The written slots, as bounds.                                             *)
LEMMA WrittenMeans ==
  ASSUME NEW i
  PROVE  i \in queue!Written <=> i \in 0 .. shared_in - 1 /\ \A t \in Workers : i \notin queue!Reserved(t)
  BY DEF queue!Written

(* What was pushed since the last slide is in a buffer or behind the window. *)
PendingParts ==
  \A x : x \in queue!Pending <=>
           \/ \E t \in Workers : \E k \in 1 .. Len(local_queue[t]) : local_queue[t][k] = x
           \/ \E i \in queue!Written : i >= shared_out_end /\ shared[i] = x

(* Pending, place by place.                                                  *)
LEMMA PendingMeans == QueueTypes => PendingParts
<1> SUFFICES ASSUME QueueTypes, NEW x
             PROVE  x \in queue!Pending <=>
                      \/ \E t \in Workers : \E k \in 1 .. Len(local_queue[t]) : local_queue[t][k] = x
                      \/ \E i \in queue!Written : i >= shared_out_end /\ shared[i] = x
  BY DEF PendingParts
<1>1. x \in queue!Buffered <=> \E t \in Workers : \E k \in 1 .. Len(local_queue[t]) : local_queue[t][k] = x
  BY BufferFacts DEF queue!Buffered, queue!ToSet
<1>2. \A i \in queue!Written : i \notin 0 .. shared_out_end - 1 <=> i >= shared_out_end
  BY DEF queue!Written, QueueTypes
<1> QED
  BY <1>1, <1>2 DEF queue!Pending

(* The queue keeps NoItemTwice, in the form the proofs use.                  *)
LEMMA OnePlaceEachIsNoItemTwice ==
  ASSUME QueueTypes
  PROVE  OnePlaceEach <=> queue!NoItemTwice
<1>1. ASSUME NEW x PROVE x \in queue!Buffered <=> \E t \in Workers : \E k \in 1 .. Len(local_queue[t]) : local_queue[t][k] = x
  BY BufferFacts DEF queue!Buffered, queue!ToSet
<1>2. ASSUME NEW t \in Workers
      PROVE  queue!IsInjective(local_queue[t]) <=>
                \A k, l \in 1 .. Len(local_queue[t]) : local_queue[t][k] = local_queue[t][l] => k = l
  BY BufferFacts DEF queue!IsInjective
<1>3. ASSUME NEW t \in Workers, NEW u \in Workers
      PROVE  queue!ToSet(local_queue[t]) \cap queue!ToSet(local_queue[u]) = {} <=>
                \A k \in 1 .. Len(local_queue[t]), l \in 1 .. Len(local_queue[u]) :
                   local_queue[t][k] # local_queue[u][l]
  BY BufferFacts DEF queue!ToSet
<1>4. ASSUME OnePlaceEach PROVE queue!NoItemTwice
  <2>1. \A i \in queue!Written : shared[i] \in Nodes \ queue!Buffered
    BY <1>1, <1>4 DEF OnePlaceEach
  <2>2. \A t \in Workers : queue!IsInjective(local_queue[t])
    BY <1>2, <1>4 DEF OnePlaceEach
  <2>3. \A t, u \in Workers : t # u => queue!ToSet(local_queue[t]) \cap queue!ToSet(local_queue[u]) = {}
    BY <1>3, <1>4 DEF OnePlaceEach
  <2>4. \A i, j \in queue!Written : shared[i] = shared[j] => i = j
    BY <1>4 DEF OnePlaceEach
  <2> QED
    BY <2>1, <2>2, <2>3, <2>4 DEF queue!NoItemTwice
<1>5. ASSUME queue!NoItemTwice PROVE OnePlaceEach
  <2>1. \A i \in queue!Written : shared[i] \in Nodes /\ shared[i] \notin queue!Buffered
    BY <1>5 DEF queue!NoItemTwice
  <2>2. \A i, j \in queue!Written : shared[i] = shared[j] => i = j
    BY <1>5 DEF queue!NoItemTwice
  <2>3. \A i \in queue!Written, t \in Workers : \A k \in 1 .. Len(local_queue[t]) : local_queue[t][k] # shared[i]
    BY <1>1, <2>1
  <2>4. ASSUME NEW t \in Workers, NEW u \in Workers, NEW k \in 1 .. Len(local_queue[t]), NEW l \in 1 .. Len(local_queue[u]),
               local_queue[t][k] = local_queue[u][l]
        PROVE  t = u /\ k = l
    <3>1. t = u
      BY <1>3, <1>5, <2>4 DEF queue!NoItemTwice
    <3> QED
      BY <1>2, <1>5, <2>4, <3>1 DEF queue!NoItemTwice
  <2> QED
    BY <2>1, <2>2, <2>3, <2>4 DEF OnePlaceEach
<1> QED
  BY <1>4, <1>5

(* NeverOverflows: the slots in use hold different items.                    *)
LEMMA SlotsSuffice ==
  ASSUME QOK
  PROVE  shared_in <= num_nodes
<1> DEFINE Owner(j) == CHOOSE t \in Workers : j \in queue!Reserved(t)
           Content == [j \in 0 .. shared_in - 1 |->
                         IF j \in queue!Written THEN shared[j]
                         ELSE local_queue[Owner(j)][j - copy_start[Owner(j)] + 1]]
<1> USE DEF QOK
<1>1. ASSUME NEW j \in 0 .. shared_in - 1, j \notin queue!Written
      PROVE  Owner(j) \in Workers /\ j \in queue!Reserved(Owner(j))
  BY <1>1, WrittenMeans
<1>2. ASSUME NEW j \in 0 .. shared_in - 1, j \notin queue!Written
      PROVE  /\ j - copy_start[Owner(j)] + 1 \in 1 .. Len(local_queue[Owner(j)])
             /\ copy_start[Owner(j)] \in Int
  <2> HIDE DEF Owner
  <2> QED BY <1>1, <1>2, ReservedMeans, BufferFacts
<1>3. Content \in [0 .. shared_in - 1 -> Nodes]
  <2>1. ASSUME NEW j \in 0 .. shared_in - 1 PROVE Content[j] \in Nodes
    <3>1. CASE j \in queue!Written
      BY <3>1 DEF OnePlaceEach
    <3>2. CASE j \notin queue!Written
      <4> HIDE DEF Owner
      <4> QED BY <3>2, <1>1, <1>2, BufferFacts
    <3> QED BY <3>1, <3>2
  <2> QED
    BY <2>1
<1>4. ASSUME NEW i \in 0 .. shared_in - 1, NEW j \in 0 .. shared_in - 1, Content[i] = Content[j]
      PROVE  i = j
  <2> HIDE DEF Owner
  <2>1. CASE i \in queue!Written /\ j \in queue!Written
    BY <1>4, <2>1 DEF OnePlaceEach
  <2>2. CASE i \notin queue!Written /\ j \notin queue!Written
    <3>1. ASSUME NEW x \in 0 .. shared_in - 1, x \notin queue!Written
          PROVE  \E t \in Workers : \E k \in 1 .. Len(local_queue[t]) :
                    x = k + copy_start[t] - 1 /\ Content[x] = local_queue[t][k]
      <4>1. x = (x - copy_start[Owner(x)] + 1) + copy_start[Owner(x)] - 1
        BY <1>2, <3>1
      <4> QED
        BY <1>1, <1>2, <3>1, <4>1
    <3>2. PICK t \in Workers : \E k \in 1 .. Len(local_queue[t]) :
                    i = k + copy_start[t] - 1 /\ Content[i] = local_queue[t][k]
      BY <2>2, <3>1
    <3>3. PICK u \in Workers : \E l \in 1 .. Len(local_queue[u]) :
                    j = l + copy_start[u] - 1 /\ Content[j] = local_queue[u][l]
      BY <2>2, <3>1
    <3> HIDE DEF Content
    <3> QED
      BY <1>4, <3>2, <3>3 DEF OnePlaceEach
  <2>3. ASSUME NEW x \in 0 .. shared_in - 1, NEW y \in 0 .. shared_in - 1,
               x \in queue!Written, y \notin queue!Written
        PROVE  Content[x] # Content[y]
    BY <1>1, <1>2, <2>3 DEF OnePlaceEach
  <2> QED
    BY <1>4, <2>1, <2>2, <2>3
<1>5. shared_in \in Nat /\ num_nodes \in Nat
  BY DOBFSAssumption DEF QueueTypes
<1>6. IsFiniteSet(0 .. shared_in - 1) /\ Cardinality(0 .. shared_in - 1) = shared_in
  BY <1>5, FS_Interval
<1>7. IsFiniteSet(Nodes) /\ Cardinality(Nodes) = num_nodes
  BY <1>5, FS_Interval DEF Nodes
<1>8. Content \in Injection(0 .. shared_in - 1, Nodes)
  <2> HIDE DEF Content
  <2> QED BY <1>3, <1>4 DEF Injection, IsInjective
<1> HIDE DEF Content
<1> QED
  BY <1>6, <1>7, <1>8, FS_Injection

(* The queue is sized for every vertex (bfs_pthread.cc:516).                 *)
LEMMA SharedSize == queue!shared_size = num_nodes /\ num_nodes \in Nat \ {0}
<1>1. num_nodes \in Nat \ {0}
  BY DOBFSAssumption
<1>2. queue!Cardinality(Nodes) = Cardinality(Nodes)
  BY DEF queue!Cardinality, Cardinality
<1> QED
  BY <1>1, <1>2, FS_Interval DEF queue!shared_size, Nodes

(* push_back into the buffer                                                 *)
LEMMA PushKeepsQueue ==
  ASSUME QOK, NEW t \in Workers, NEW x \in Nodes, queue!LocalPush(t, x),
         x \notin queue!Pending, \A i \in 0 .. shared_out_end - 1 : shared[i] # x
  PROVE  QOK' /\ queue!Pending' = queue!Pending \cup {x}
<1> USE DEF QOK
<1>1. /\ copy_start[t] = queue!NotFlushing
      /\ local_queue' = [local_queue EXCEPT ![t] = Append(@, x)]
      /\ UNCHANGED <<shared, shared_in, shared_out_start, shared_out_end, copy_start>>
  BY DEF queue!LocalPush
<1>2. /\ Len(local_queue'[t]) = Len(local_queue[t]) + 1 /\ local_queue'[t] \in Seq(Nodes)
      /\ \A k \in 1 .. Len(local_queue[t]) : local_queue'[t][k] = local_queue[t][k]
      /\ local_queue'[t][Len(local_queue[t]) + 1] = x
      /\ \A u \in Workers \ {t} : local_queue'[u] = local_queue[u]
  BY <1>1, BufferFacts DEF QueueTypes
<1>3. QueueTypes'
  BY <1>1, <1>2 DEF QueueTypes, queue!Slots, queue!NotFlushing
<1>4. \A u \in Workers : queue!Reserved(u)' = queue!Reserved(u)
  BY <1>1, <1>2 DEF queue!Reserved
<1>5. queue!Written' = queue!Written
  BY <1>1, <1>4 DEF queue!Written
<1>6. \A u \in Workers : \A k \in 1 .. Len(local_queue'[u]) :
         \/ k \in 1 .. Len(local_queue[u]) /\ local_queue'[u][k] = local_queue[u][k]
         \/ u = t /\ k = Len(local_queue[t]) + 1 /\ local_queue'[u][k] = x
  BY <1>2, BufferFacts
<1>7. /\ \A u \in Workers : \A k \in 1 .. Len(local_queue[u]) : local_queue[u][k] # x
      /\ \A i \in queue!Written : shared[i] # x
  <2>1. \A i \in queue!Written : i \in 0 .. shared_out_end - 1 \/ i >= shared_out_end
    BY WrittenMeans DEF QueueTypes
  <2> QED
    BY <2>1, PendingMeans DEF PendingParts
<1>8. OnePlaceEach'
  BY <1>1, <1>5, <1>6, <1>7 DEF OnePlaceEach
<1>9. queue!FlushesAreDisjoint'
  BY <1>1, <1>4 DEF queue!FlushesAreDisjoint
<1>10. (QueueTypes => PendingParts)'
  BY PendingMeans, PTL
<1>11. queue!Pending' = queue!Pending \cup {x}
  <2>1. ASSUME NEW y PROVE y \in queue!Pending' <=> y \in queue!Pending \/ y = x
    <3>1. y \in queue!Pending' <=>
           \/ \E u \in Workers : \E k \in 1 .. Len(local_queue'[u]) : local_queue'[u][k] = y
           \/ \E i \in queue!Written : i >= shared_out_end /\ shared[i] = y
      BY <1>1, <1>3, <1>5, <1>10 DEF PendingParts
    <3>2. y \in queue!Pending <=>
           \/ \E u \in Workers : \E k \in 1 .. Len(local_queue[u]) : local_queue[u][k] = y
           \/ \E i \in queue!Written : i >= shared_out_end /\ shared[i] = y
      BY PendingMeans DEF PendingParts
    <3>3. (\E u \in Workers : \E k \in 1 .. Len(local_queue'[u]) : local_queue'[u][k] = y)
            <=> (\E u \in Workers : \E k \in 1 .. Len(local_queue[u]) : local_queue[u][k] = y) \/ y = x
      <4>1. t \in Workers /\ Len(local_queue[t]) + 1 \in 1 .. Len(local_queue'[t])
        BY <1>2, BufferFacts
      <4>2. \A u \in Workers : \A k \in 1 .. Len(local_queue[u]) :
               k \in 1 .. Len(local_queue'[u]) /\ local_queue'[u][k] = local_queue[u][k]
        BY <1>2, BufferFacts
      <4> QED
        BY <1>2, <1>6, <4>1, <4>2
    <3> QED
      BY <3>1, <3>2, <3>3
  <2> QED
    BY <2>1
<1> QED
  BY <1>3, <1>8, <1>9, <1>11

(* fetch_and_add                                                             *)
LEMMA ReserveKeepsQueue ==
  ASSUME QOK, NEW t \in Workers, queue!Reserve(t)
  PROVE  /\ QOK' /\ queue!Pending' = queue!Pending
         /\ shared_in' = shared_in + Len(local_queue[t])
<1> USE DEF QOK
<1>1. /\ copy_start[t] = queue!NotFlushing
      /\ copy_start' = [copy_start EXCEPT ![t] = shared_in]
      /\ shared_in' = shared_in + Len(local_queue[t])
      /\ UNCHANGED <<shared, shared_out_start, shared_out_end, local_queue>>
      /\ Len(local_queue[t]) \in Nat
  BY BufferFacts DEF queue!Reserve
<1>2. QueueTypes'
  BY <1>1 DEF QueueTypes, queue!Slots, queue!NotFlushing
<1>3. /\ \A u \in Workers \ {t} : queue!Reserved(u)' = queue!Reserved(u)
      /\ queue!Reserved(t) = {} /\ queue!Reserved(t)' = shared_in .. shared_in' - 1
  BY <1>1 DEF queue!Reserved, QueueTypes, queue!NotFlushing
<1>4. \A u \in Workers : queue!Reserved(u) \subseteq shared_out_end .. shared_in - 1
  BY DEF queue!FlushesAreDisjoint
<1>5. queue!Written' = queue!Written
  <2>1. queue!Written' = (0 .. shared_in' - 1) \ UNION {queue!Reserved(u)' : u \in Workers}
    BY DEF queue!Written
  <2>2. ASSUME NEW i PROVE i \in queue!Written' <=> i \in queue!Written
    <3>1. i \in queue!Written' <=> /\ i \in 0 .. shared_in' - 1
                                  /\ \A u \in Workers : i \notin queue!Reserved(u)'
      BY <2>1
    <3>2. i \in queue!Reserved(t)' <=> i \in shared_in .. shared_in' - 1
      BY <1>3
    <3>3. \A u \in Workers \ {t} : i \in queue!Reserved(u)' <=> i \in queue!Reserved(u)
      BY <1>3
    <3>4. i \in 0 .. shared_in - 1 <=> i \in 0 .. shared_in' - 1 /\ i \notin shared_in .. shared_in' - 1
      BY <1>1 DEF QueueTypes
    <3> QED
      BY <1>3, <3>1, <3>2, <3>3, <3>4, WrittenMeans
  <2> QED
    BY <2>2
<1>6. OnePlaceEach'
  BY <1>1, <1>5 DEF OnePlaceEach
<1>7. queue!FlushesAreDisjoint'
  <2>1. /\ shared_out_end .. shared_in - 1 \subseteq shared_out_end' .. shared_in' - 1
        /\ queue!Reserved(t)' \subseteq shared_out_end' .. shared_in' - 1
        /\ queue!Reserved(t)' \cap (shared_out_end .. shared_in - 1) = {}
    BY <1>1, <1>3 DEF QueueTypes
  <2>2. \A u \in Workers : queue!Reserved(u)' \subseteq shared_out_end' .. shared_in' - 1
    BY <1>3, <1>4, <2>1
  <2>3. \A u \in Workers \ {t} : queue!Reserved(t)' \cap queue!Reserved(u)' = {}
    BY <1>3, <1>4, <2>1
  <2>4. \A u, v \in Workers \ {t} : u # v => queue!Reserved(u)' \cap queue!Reserved(v)' = {}
    BY <1>3 DEF queue!FlushesAreDisjoint
  <2> QED
    BY <2>2, <2>3, <2>4 DEF queue!FlushesAreDisjoint
<1>8. queue!Pending' = queue!Pending
  <2>1. (QueueTypes => PendingParts)'
    BY PendingMeans, PTL
  <2>2. \A y : y \in queue!Pending' <=> y \in queue!Pending
    BY <1>1, <1>2, <1>5, <2>1, PendingMeans DEF PendingParts
  <2> QED
    BY <2>2
<1> QED
  BY <1>1, <1>2, <1>6, <1>7, <1>8

(* std::copy                                                                 *)
LEMMA CopyKeepsQueue ==
  ASSUME QOK, NEW t \in Workers, queue!CopyOut(t)
  PROVE  /\ QOK' /\ queue!Pending' = queue!Pending
         /\ \A i \in 0 .. shared_out_end - 1 : shared'[i] = shared[i]
<1> USE DEF QOK
<1> DEFINE b == copy_start[t]
<1>1. /\ copy_start[t] # queue!NotFlushing
      /\ shared' = [i \in queue!Slots |-> IF i \in queue!Reserved(t) THEN local_queue[t][i - b + 1] ELSE shared[i]]
      /\ local_queue' = [local_queue EXCEPT ![t] = <<>>]
      /\ copy_start' = [copy_start EXCEPT ![t] = queue!NotFlushing]
      /\ UNCHANGED <<shared_in, shared_out_start, shared_out_end>>
      /\ Len(local_queue[t]) \in Nat /\ b \in Nat
  BY BufferFacts DEF queue!CopyOut, QueueTypes
<1>2. /\ \A u \in Workers \ {t} : queue!Reserved(u)' = queue!Reserved(u)
      /\ queue!Reserved(t)' = {} /\ queue!Reserved(t) = b .. b + Len(local_queue[t]) - 1
  BY <1>1 DEF queue!Reserved, QueueTypes, queue!NotFlushing
<1>3. \A u \in Workers : queue!Reserved(u) \subseteq shared_out_end .. shared_in - 1
  BY DEF queue!FlushesAreDisjoint
<1>4. shared_in <= num_nodes /\ queue!Slots = 0 .. num_nodes - 1 /\ num_nodes \in Nat
  BY SlotsSuffice, SharedSize DEF queue!Slots
<1>5. ASSUME NEW i \in queue!Reserved(t)
      PROVE  /\ i \in queue!Slots /\ i - b + 1 \in 1 .. Len(local_queue[t]) /\ i \in Int /\ i >= shared_out_end
             /\ shared'[i] = local_queue[t][i - b + 1]
  <2>1. i \in shared_out_end .. shared_in - 1 /\ i \in b .. b + Len(local_queue[t]) - 1
    BY <1>2, <1>3
  <2>2. i \in queue!Slots /\ i - b + 1 \in 1 .. Len(local_queue[t])
    BY <1>1, <1>4, <2>1 DEF QueueTypes
  <2> QED
    BY <1>1, <2>1, <2>2
<1>6. ASSUME NEW i \in queue!Slots, i \notin queue!Reserved(t) PROVE shared'[i] = shared[i]
  BY <1>1, <1>6
<1>7. ASSUME NEW i PROVE i \in queue!Written' <=> i \in queue!Written \/ i \in queue!Reserved(t)
  <2>1. queue!Written' = (0 .. shared_in' - 1) \ UNION {queue!Reserved(u)' : u \in Workers}
    BY DEF queue!Written
  <2>2. \A u \in Workers \ {t} : queue!Reserved(t) \cap queue!Reserved(u) = {}
    BY DEF queue!FlushesAreDisjoint
  <2>3. i \in queue!Reserved(t) => i \in 0 .. shared_in - 1
    BY <1>3 DEF QueueTypes
  <2> QED
    BY <1>1, <1>2, <2>1, <2>2, <2>3, WrittenMeans
<1>8. \A i \in queue!Written : i \in queue!Slots /\ i \notin queue!Reserved(t)
  BY <1>4, WrittenMeans DEF QueueTypes
<1>9. \A u \in Workers : \A k \in 1 .. Len(local_queue'[u]) :
         u # t /\ k \in 1 .. Len(local_queue[u]) /\ local_queue'[u][k] = local_queue[u][k]
  <2>1. Len(local_queue'[t]) = 0
    BY <1>1 DEF QueueTypes
  <2> QED
    BY <1>1, <2>1, BufferFacts DEF QueueTypes
<1>10. QueueTypes'
  <2>1. shared' \in [queue!Slots -> Nodes \cup {Garbage}]
    <3>1. ASSUME NEW i \in queue!Slots PROVE shared'[i] \in Nodes \cup {Garbage}
      BY <1>5, <1>6, BufferFacts DEF QueueTypes
    <3>2. shared' = [i \in queue!Slots |-> shared'[i]]
      BY <1>1
    <3> QED
      BY <3>1, <3>2
  <2>2. queue!Slots' = queue!Slots
    BY DEF queue!Slots
  <2>3. local_queue' \in [Workers -> Seq(Nodes)] /\ copy_start' \in [Workers -> Nat \cup {queue!NotFlushing}]
    BY <1>1 DEF QueueTypes
  <2> QED
    BY <1>1, <2>1, <2>2, <2>3 DEF QueueTypes
<1> HIDE DEF b
<1>11. OnePlaceEach'
  <2>1. ASSUME NEW i, i \in queue!Written'
        PROVE  \/ i \in queue!Written /\ shared'[i] = shared[i]
               \/ i \in queue!Reserved(t) /\ i - b + 1 \in 1 .. Len(local_queue[t])
                  /\ i \in Int /\ shared'[i] = local_queue[t][i - b + 1]
    BY <1>5, <1>6, <1>7, <1>8, <2>1
  <2>2. \A i \in queue!Written' : shared'[i] \in Nodes
    BY <2>1, BufferFacts DEF OnePlaceEach
  <2>3. ASSUME NEW i \in queue!Written', NEW j \in queue!Written', shared'[i] = shared'[j]
        PROVE  i = j
    <3>a. \A k, l \in 1 .. Len(local_queue[t]) : local_queue[t][k] = local_queue[t][l] => k = l
      BY DEF OnePlaceEach
    <3>b. \A m \in queue!Written : \A k \in 1 .. Len(local_queue[t]) : local_queue[t][k] # shared[m]
      BY DEF OnePlaceEach
    <3>c. \A m, n \in queue!Written : shared[m] = shared[n] => m = n
      BY DEF OnePlaceEach
    <3>1. CASE i \in queue!Written /\ shared'[i] = shared[i]
      <4>1. CASE j \in queue!Written /\ shared'[j] = shared[j]
        BY <2>3, <3>1, <3>c, <4>1
      <4>2. CASE /\ j - b + 1 \in 1 .. Len(local_queue[t])
                 /\ j \in Int /\ shared'[j] = local_queue[t][j - b + 1]
        BY <2>3, <3>1, <3>b, <4>2
      <4> QED
        BY <2>1, <4>1, <4>2
    <3>2. CASE /\ i - b + 1 \in 1 .. Len(local_queue[t])
               /\ i \in Int /\ shared'[i] = local_queue[t][i - b + 1]
      <4>1. CASE j \in queue!Written /\ shared'[j] = shared[j]
        BY <2>3, <3>2, <3>b, <4>1
      <4>2. CASE /\ j - b + 1 \in 1 .. Len(local_queue[t])
                 /\ j \in Int /\ shared'[j] = local_queue[t][j - b + 1]
        <5>1. i - b + 1 = j - b + 1
          BY <2>3, <3>2, <3>a, <4>2
        <5> QED
          BY <1>1, <3>2, <4>2, <5>1
      <4> QED
        BY <2>1, <4>1, <4>2
    <3> QED
      BY <2>1, <3>1, <3>2
  <2>4. ASSUME NEW i \in queue!Written', NEW u \in Workers, NEW k \in 1 .. Len(local_queue'[u])
        PROVE  local_queue'[u][k] # shared'[i]
    BY <1>9, <2>1 DEF OnePlaceEach
  <2>5. \A u, w \in Workers : \A k \in 1 .. Len(local_queue'[u]), l \in 1 .. Len(local_queue'[w]) :
           local_queue'[u][k] = local_queue'[w][l] => u = w /\ k = l
    BY <1>9 DEF OnePlaceEach
  <2> QED
    BY <2>2, <2>3, <2>4, <2>5 DEF OnePlaceEach
<1>12. queue!FlushesAreDisjoint'
  BY <1>1, <1>2, <1>3 DEF queue!FlushesAreDisjoint, QueueTypes
<1>13. queue!Pending' = queue!Pending
  <2>1. (QueueTypes => PendingParts)'
    BY PendingMeans, PTL
  <2>2. ASSUME NEW y PROVE y \in queue!Pending' <=>
           \/ \E u \in Workers : \E k \in 1 .. Len(local_queue'[u]) : local_queue'[u][k] = y
           \/ \E i \in queue!Written' : i >= shared_out_end /\ shared'[i] = y
    BY <1>1, <1>10, <2>1 DEF PendingParts
  <2>3. ASSUME NEW y PROVE y \in queue!Pending <=>
           \/ \E u \in Workers : \E k \in 1 .. Len(local_queue[u]) : local_queue[u][k] = y
           \/ \E i \in queue!Written : i >= shared_out_end /\ shared[i] = y
    BY PendingMeans DEF PendingParts
  <2>4. ASSUME NEW y, y \in queue!Pending PROVE y \in queue!Pending'
    <3>1. CASE \E i \in queue!Written : i >= shared_out_end /\ shared[i] = y
      BY <1>6, <1>7, <1>8, <2>2, <3>1
    <3>2. ASSUME NEW u \in Workers, NEW k \in 1 .. Len(local_queue[u]), local_queue[u][k] = y, u # t
          PROVE  y \in queue!Pending'
      <4>1. local_queue'[u] = local_queue[u]
        BY <1>1, <3>2 DEF QueueTypes
      <4> QED
        BY <2>2, <3>2, <4>1
    <3>3. ASSUME NEW k \in 1 .. Len(local_queue[t]), local_queue[t][k] = y
          PROVE  y \in queue!Pending'
      <4>1. b + k - 1 \in queue!Reserved(t) /\ (b + k - 1) - b + 1 = k
        BY <1>1, <1>2 DEF b
      <4>2. shared'[b + k - 1] = y /\ b + k - 1 \in queue!Written' /\ b + k - 1 >= shared_out_end
        BY <1>5, <1>7, <3>3, <4>1
      <4> QED
        BY <2>2, <4>2
    <3> QED
      BY <2>3, <2>4, <3>1, <3>2, <3>3
  <2>5. ASSUME NEW y, y \in queue!Pending' PROVE y \in queue!Pending
    <3>1. ASSUME NEW u \in Workers, NEW k \in 1 .. Len(local_queue'[u]), local_queue'[u][k] = y
          PROVE  y \in queue!Pending
      BY <1>9, <2>3, <3>1
    <3>2. ASSUME NEW i \in queue!Written', i >= shared_out_end, shared'[i] = y
          PROVE  y \in queue!Pending
      <4>1. CASE i \in queue!Reserved(t)
        BY <1>5, <2>3, <3>2, <4>1
      <4>2. CASE i \in queue!Written
        BY <1>6, <1>8, <2>3, <3>2, <4>2
      <4> QED
        BY <1>7, <4>1, <4>2
    <3> QED
      BY <2>2, <2>5, <3>1, <3>2
  <2> QED
    BY <2>4, <2>5
<1>14. \A i \in 0 .. shared_out_end - 1 : shared'[i] = shared[i]
  BY <1>3, <1>4, <1>6 DEF QueueTypes
<1> QED
  BY <1>10, <1>11, <1>12, <1>13, <1>14

(* slide_window                                                              *)
LEMMA SlideKeepsQueue ==
  ASSUME QOK, queue!slide_window,
         \A t \in Workers : copy_start[t] = queue!NotFlushing /\ local_queue[t] = <<>>
  PROVE  QOK' /\ queue!Pending' = {} /\ queue!Window' = queue!Pending
<1> USE DEF QOK
<1>1. /\ shared_out_start' = shared_out_end /\ shared_out_end' = shared_in
      /\ UNCHANGED <<shared, shared_in, local_queue, copy_start>>
  BY DEF queue!slide_window
<1>2. QueueTypes'
  BY <1>1 DEF QueueTypes, queue!Slots
<1>3. \A t \in Workers : queue!Reserved(t) = {} /\ queue!Reserved(t)' = {}
  BY <1>1 DEF queue!Reserved
<1>4. queue!Written = 0 .. shared_in - 1 /\ queue!Written' = 0 .. shared_in - 1
  BY <1>1, <1>3 DEF queue!Written
<1>5. OnePlaceEach'
  BY <1>1, <1>4 DEF OnePlaceEach
<1>6. queue!FlushesAreDisjoint'
  BY <1>3 DEF queue!FlushesAreDisjoint
<1>7. \A t \in Workers : 1 .. Len(local_queue[t]) = {}
  OBVIOUS
<1>8. queue!Pending' = {}
  <2>1. (QueueTypes => PendingParts)'
    BY PendingMeans, PTL
  <2> QED
    BY <1>1, <1>2, <1>4, <1>7, <2>1 DEF PendingParts, QueueTypes
<1>9. queue!Window' = queue!Pending
  <2>1. queue!Window' = {shared[i] : i \in shared_out_end .. shared_in - 1}
    BY <1>1 DEF queue!Window, queue!WindowSlots
  <2>2. \A y : y \in queue!Pending <=> \E i \in shared_out_end .. shared_in - 1 : shared[i] = y
    BY <1>4, <1>7, PendingMeans DEF PendingParts, QueueTypes
  <2> QED
    BY <2>1, <2>2
<1> QED
  BY <1>2, <1>5, <1>6, <1>8, <1>9

(* push_back and slide_window of the first vertex                            *)
LEMMA FirstPushKeepsQueue ==
  ASSUME QOK, shared_in = 0, NEW x \in Nodes, queue!push_back_and_slide(x),
         \A t \in Workers : copy_start[t] = queue!NotFlushing /\ local_queue[t] = <<>>
  PROVE  /\ QOK' /\ queue!Pending' = {} /\ queue!Window' = {x}
         /\ shared_in' = 1 /\ shared_out_start' = 0 /\ shared_out_end' = 1 /\ shared'[0] = x
<1> USE DEF QOK
<1>1. /\ shared' = [shared EXCEPT ![0] = x]
      /\ shared_in' = 1 /\ shared_out_start' = 0 /\ shared_out_end' = 1
      /\ UNCHANGED <<local_queue, copy_start>>
  BY DEF queue!push_back_and_slide, queue!PushAndSlide, QueueTypes
<1>2. queue!Slots = 0 .. num_nodes - 1 /\ 0 \in queue!Slots
  BY SharedSize DEF queue!Slots
<1>3. shared'[0] = x /\ QueueTypes'
  BY <1>1, <1>2 DEF QueueTypes, queue!Slots
<1>4. \A t \in Workers : queue!Reserved(t)' = {}
  BY <1>1 DEF queue!Reserved
<1>5. queue!Written' = {0}
  BY <1>1, <1>4 DEF queue!Written
<1>6. \A t \in Workers : 1 .. Len(local_queue'[t]) = {}
  BY <1>1
<1>7. OnePlaceEach'
  BY <1>3, <1>5, <1>6 DEF OnePlaceEach
<1>8. queue!FlushesAreDisjoint'
  BY <1>4 DEF queue!FlushesAreDisjoint
<1>9. queue!Pending' = {}
  <2>1. (QueueTypes => PendingParts)'
    BY PendingMeans, PTL
  <2> QED
    BY <1>1, <1>3, <1>5, <1>6, <2>1 DEF PendingParts
<1>10. queue!Window' = {x}
  BY <1>1, <1>3 DEF queue!Window, queue!WindowSlots
<1> QED
  BY <1>1, <1>3, <1>7, <1>8, <1>9, <1>10

--------------------------------------------------------------------------------
(* What steps leave alone.                                                   *)

(* A step that touches neither tree, queue nor bitmaps keeps what they keep. *)
LEMMA SteadyFrame ==
  ASSUME Steady, UNCHANGED <<out_neigh, source, pc, tree, queue_vars, bitmaps, level>>
  PROVE  Steady' /\ queue!Pending' = queue!Pending
<1> USE DEF tree, queue_vars, bitmaps
<1>1. TreeOK'
  BY DEF Steady, TreeOK, Visited, Weight, out_degree
<1>2. queue!Written' = queue!Written /\ queue!Pending' = queue!Pending /\ queue!Window' = queue!Window
      /\ \A t \in Workers : queue!Reserved(t)' = queue!Reserved(t)
  BY DEF queue!Written, queue!Reserved, queue!Pending, queue!Buffered, queue!Window, queue!WindowSlots
<1>3. QOK'
  BY <1>2 DEF Steady, QOK, QueueTypes, queue!Slots, OnePlaceEach, queue!FlushesAreDisjoint
<1>4. OlderOK' /\ WindowOK'
  BY <1>2 DEF Steady, OlderOK, WindowOK, Visited, LevelOf
<1> QED
  BY <1>1, <1>2, <1>3, <1>4 DEF Steady

(* Pushes and flushes                                                        *)
LEMMA QueueSteady ==
  ASSUME Steady, pc \in {"TDStep", "BitmapToQueue"}, QOK',
         UNCHANGED <<out_neigh, source, pc, tree, bitmaps, level, shared_out_start, shared_out_end>>,
         \A i \in 0 .. shared_out_end - 1 : shared'[i] = shared[i]
  PROVE  Steady'
<1> USE DEF tree, bitmaps
<1>1. TreeOK'
  BY DEF Steady, TreeOK, Visited, Weight, out_degree
<1>2. queue!Window' = queue!Window
  <2>1. \A i \in queue!WindowSlots : i \in 0 .. shared_out_end - 1
    BY DEF queue!WindowSlots, Steady, QOK, QueueTypes
  <2> QED
    BY <2>1 DEF queue!Window, queue!WindowSlots
<1>3. OlderOK'
  BY DEF Steady, OlderOK, Visited
<1>4. WindowOK'
  BY <1>2 DEF Steady, WindowOK, LevelOf
<1> QED
  BY <1>1, <1>3, <1>4 DEF Steady

(* The reduction depends on the workers' counts only.                        *)
LEMMA ReduceDepends ==
  ASSUME \A x \in Workers : my'[x].count = my[x].count
  PROVE  Reduce' = Reduce
<1>1. [x \in Workers |-> my'[x].count] = [x \in Workers |-> my[x].count]
  OBVIOUS
<1> QED
  BY <1>1 DEF Reduce

(* The team, and the vertices.                                               *)
LEMMA WorkersAreFinite == IsFiniteSet(Workers) /\ 0 \in Workers /\ Workers \subseteq Nat
<1>1. NumThreads \in Nat \ {0}
  BY DOBFSAssumption
<1>2. IsFiniteSet(Workers)
  BY <1>1, FS_Interval DEF Workers
<1> QED
  BY <1>1, <1>2 DEF Workers

(* The vertices.                                                             *)
LEMMA NodesAreFinite == IsFiniteSet(Nodes) /\ Nodes \subseteq Nat /\ 0 \in Nodes
  BY FS_Interval, DOBFSAssumption DEF Nodes

(* An encoded degree is never zero: a vertex without out-neighbours counts   *)
(* as 1, and looks unvisited.                                                *)
LEMMA WeightIsPositive ==
  ASSUME out_neigh \in [Nodes -> SUBSET Nodes], NEW v \in Nodes
  PROVE  Weight(v) \in Nat \ {0} /\ out_degree(v) \in Nat
<1>1. IsFiniteSet(out_neigh[v])
  BY NodesAreFinite, FS_Subset
<1> QED
  BY <1>1, FS_CardinalityType DEF Weight, out_degree

(* A worker's count grows by n.                                              *)
LEMMA ReduceAdds ==
  ASSUME Types, NEW w \in Workers, NEW n \in Int, my' \in [Workers -> WorkerType],
         my'[w].count = my[w].count + n,
         \A x \in Workers \ {w} : my'[x].count = my[x].count
  PROVE  Reduce' = Reduce + n
<1> DEFINE f == [x \in Workers |-> my[x].count]
           g == [x \in Workers |-> my'[x].count]
<1>1. f \in [Workers -> Int] /\ g \in [Workers -> Int]
  BY DEF Types, WorkerType
<1>2. SumFunction(g) = SumFunction(f) - f[w] + g[w]
  <2>1. (\A x \in Workers \ {w} : g[x] = f[x]) /\ IsFiniteSet(Workers)
    BY WorkersAreFinite
  <2> HIDE DEF f, g
  <2> QED BY <1>1, <2>1, SumChanges
<1>3. SumFunction(f) \in Int /\ f[w] \in Int /\ g[w] = f[w] + n
  <2>1. f[w] \in Int /\ g[w] = f[w] + n
    BY <1>1
  <2> HIDE DEF f, g
  <2> QED BY <1>1, <2>1, SumTypes, WorkersAreFinite
<1>4. Reduce = SumFunction(f) /\ Reduce' = SumFunction(g)
  BY DEF Reduce
<1> HIDE DEF f, g
<1> QED
  BY <1>2, <1>3, <1>4

(* A worker's range of the vertices, as bounds.                              *)
LEMMA RangeMeans ==
  ASSUME NEW w \in Workers, NEW v
  PROVE  v \in Range_(w) <=> v \in Int /\ StaticRange(num_nodes, w).begin <= v /\ v < StaticRange(num_nodes, w).end
<1>1. StaticRange(num_nodes, w).begin \in Nat /\ StaticRange(num_nodes, w).end \in Nat
  BY RangeBounds, DOBFSAssumption
<1> QED
  BY <1>1 DEF Range_

(* Every vertex is in the range of exactly one worker.                       *)
LEMMA RangesPartition ==
  /\ \A v \in Nodes : \E w \in Workers : v \in Range_(w)
  /\ \A w, x \in Workers : \A v : v \in Range_(w) /\ v \in Range_(x) => w = x
  /\ \A w \in Workers : Range_(w) \subseteq Nodes
<1>1. num_nodes \in Nat
  BY DOBFSAssumption
<1>2. ASSUME NEW v \in Nodes PROVE \E w \in Workers : v \in Range_(w)
  <2>1. v \in 0 .. num_nodes - 1 /\ v \in Int
    BY <1>1 DEF Nodes
  <2> QED
    BY <1>1, <2>1, RangesCover, RangeMeans
<1>3. ASSUME NEW w \in Workers, NEW x \in Workers, NEW v, v \in Range_(w), v \in Range_(x) PROVE w = x
  BY <1>1, <1>3, RangesAreDisjoint, RangeMeans
<1>4. ASSUME NEW w \in Workers, NEW v \in Range_(w) PROVE v \in Nodes
  BY <1>1, RangeMeans, RangeBounds DEF Nodes
<1> QED
  BY <1>2, <1>3, <1>4

--------------------------------------------------------------------------------
(* TDStep.                                                                   *)

(* A step of one worker leaves the others' local variables alone.            *)
Others(w) == my' \in [Workers -> WorkerType] /\ \A x \in Workers \ {w} : my'[x] = my[x]

(* The invariant of the workers that do not move.                            *)
LEMMA TDWorkerStays ==
  ASSUME Types, QueueTypes, NEW x \in Workers, TDWorker(x), my'[x] = my[x],
         UNCHANGED <<out_neigh, level, shared_out_start, shared_out_end>>,
         \A i \in 0 .. shared_out_end - 1 : shared'[i] = shared[i],
         \A v \in Visited : depth'[v] = depth[v]
  PROVE  TDWorker(x)'
<1> DEFINE m == my[x]
<1>1. m \in WorkerType
  BY DEF Types
<1>2. Share(x)' = Share(x) /\ Share(x).begin \in Nat /\ Share(x).end \in Nat /\ Share(x).end <= shared_out_end - shared_out_start
  <2>1. queue!size \in Nat /\ queue!size = shared_out_end - shared_out_start /\ queue!size' = queue!size
    BY DEF queue!size, QueueTypes
  <2> QED
    BY <2>1, RangeBounds DEF Share
<1>3. Visited \subseteq Visited'
  BY DEF Visited
<1>4. \A u \in Nodes : depth[u] = level => depth'[u] = level
  BY DEF Types, Visited
<1>5. \A v : Weight(v)' = Weight(v)
  BY DEF Weight, out_degree
<1>6. ASSUME m.pc # "begin", NEW j \in Share(x).begin .. m.i - 1
      PROVE  shared'[shared_out_start + j] = shared[shared_out_start + j]
  <2>1. m.i <= Share(x).end /\ m.i \in Nat
    BY <1>1, <1>6 DEF TDWorker, WorkerType
  <2>2. shared_out_start + j \in 0 .. shared_out_end - 1
    BY <1>2, <2>1 DEF QueueTypes
  <2> QED
    BY <2>2
<1> QED
  BY <1>1, <1>2, <1>3, <1>4, <1>5, <1>6 DEF TDWorker, WorkerType

(* What is pushed or about to be stays the same if no worker begins or ends  *)
(* a push.                                                                   *)
LEMMA NobodyPushes ==
  ASSUME queue!Pending' = queue!Pending, 
         \A x \in Workers : Pushing(x)' <=> Pushing(x),
         \A x \in Workers : Pushing(x) => my'[x].v = my[x].v
  PROVE  Unpushed' = Unpushed /\ (PushesOK => PushesOK')
<1>1. \A y : y \in Unpushed <=> \E x \in Workers : Pushing(x) /\ my[x].v = y
  BY DEF Unpushed
<1>2. \A y : y \in Unpushed' <=> \E x \in Workers : Pushing(x)' /\ my'[x].v = y
  BY DEF Unpushed
<1>3. Unpushed' = Unpushed
  BY <1>1, <1>2
<1>4. PushesOK => PushesOK'
  BY DEF PushesOK
<1> QED
  BY <1>3, <1>4

(* A step on one worker's buffer leaves the others' as they were.            *)
LEMMA BufferWorkersStay ==
  ASSUME BuffersMatch, pc' = pc, NEW w \in Workers,
         \A x \in Workers \ {w} : my'[x] = my[x] /\ copy_start'[x] = copy_start[x] /\ local_queue'[x] = local_queue[x],
         /\ copy_start'[w] # queue!NotFlushing <=>
              pc \in {"TDStep", "BitmapToQueue"} /\ my'[w].pc \in {"copy", "lastcopy"}
         /\ pc \notin {"TDStep", "BitmapToQueue"} \/ my'[w].pc \in {"begin", "done"}
              => local_queue'[w] = <<>>
  PROVE  BuffersMatch'
  BY DEF BuffersMatch

(* A step of a worker of TDStep that touches only its own variables.         *)
LEMMA TDLocalStep ==
  ASSUME SearchInv, pc = "TDStep", NEW w \in Workers,
         UNCHANGED <<args, pc, counters, level, tree, queue_vars, bitmaps, next_index>>,
         Others(w), TDWorker(w)', my'[w].count = my[w].count,
         ~Pushing(w), my[w].pc \notin {"lastcopy", "done"}, my'[w].pc \in {"edges", "cas"}
  PROVE  SearchInv'
<1> USE DEF SearchInv, Others
<1>1. Types'
  BY DEF Types, args, counters, tree, bitmaps
<1>2. Steady' /\ queue!Pending' = queue!Pending
  BY SteadyFrame DEF args
<1>3. BuffersMatch'
  BY BufferWorkersStay DEF queue_vars, BuffersMatch, Pushing
<1>4. Unpushed' = Unpushed /\ PushesOK'
  BY <1>2, NobodyPushes DEF Pushing, InTDStep
<1>5. \A x \in Workers : TDWorker(x)'
  BY TDWorkerStays DEF Steady, QOK, InTDStep, args, queue_vars, tree
<1>6. Reduce' = Reduce
  BY ReduceDepends
<1>7. LevelOf(level + 1)' = LevelOf(level + 1) /\ \A v : Weight(v)' = Weight(v)
  BY DEF LevelOf, tree, Weight, out_degree, args
<1>8. SumFunction([v \in LevelOf(level + 1) |-> Weight(v)])' = SumFunction([v \in LevelOf(level + 1) |-> Weight(v)])
  BY <1>7
<1>9. InTDStep'
  BY <1>2, <1>4, <1>5, <1>6, <1>7, <1>8 DEF InTDStep
<1> QED
  BY <1>1, <1>2, <1>3, <1>9

(* The shares of the window are ranges of its positions.                     *)
LEMMA ShareFacts ==
  ASSUME QueueTypes, NEW w \in Workers
  PROVE  /\ Share(w).begin \in Nat /\ Share(w).end \in Nat
         /\ Share(w).begin <= Share(w).end
         /\ Share(w).end <= shared_out_end - shared_out_start
         /\ queue!size \in Nat
<1>1. queue!size \in Nat /\ queue!size = shared_out_end - shared_out_start
  BY DEF queue!size, QueueTypes
<1> QED
  BY <1>1, RangeBounds DEF Share

(* The slots of a worker's share are slots of the window.                    *)
LEMMA ShareIsInWindow ==
  ASSUME Steady, NEW w \in Workers, NEW j \in Int, Share(w).begin <= j, j < Share(w).end
  PROVE  /\ shared_out_start + j \in queue!WindowSlots
         /\ shared_out_start + j \in 0 .. shared_out_end - 1
         /\ shared[shared_out_start + j] \in Nodes
         /\ shared[shared_out_start + j] \in queue!Window
<1>1. QueueTypes /\ OnePlaceEach /\ queue!FlushesAreDisjoint
  BY DEF Steady, QOK
<1>2. /\ shared_out_start + j \in shared_out_start .. shared_out_end - 1
      /\ shared_out_start + j \in 0 .. shared_out_end - 1
  BY <1>1, ShareFacts DEF QueueTypes
<1>3. shared_out_start + j \in queue!WindowSlots
  BY <1>2 DEF queue!WindowSlots
<1>4. shared_out_start + j \in queue!Written
  BY <1>1, <1>2, WrittenMeans DEF queue!FlushesAreDisjoint, QueueTypes
<1> QED
  BY <1>1, <1>2, <1>3, <1>4 DEF OnePlaceEach, queue!Window

(* A claimed vertex looks claimed and an unclaimed one unclaimed.            *)
LEMMA ParentTells ==
  ASSUME Types, Steady, pc \notin {"InitParent", "Cleanup", "done"}, NEW v \in Nodes
  PROVE  /\ v \in Visited => parent[v] \in Nodes /\ ~(parent[v] < 0)
         /\ v \notin Visited => parent[v] < 0 /\ parent[v] = -Weight(v)
<1>1. IF depth[v] = -1 THEN parent[v] < 0 ELSE parent[v] \in Nodes
  BY DEF Steady, TreeOK
<1>2. \A n \in Nodes \ Visited : parent[n] = -Weight(n)
  BY DEF Steady, TreeOK
<1>3. v \in Visited <=> depth[v] # -1
  BY DEF Visited
<1>4. \A n \in Nodes : ~(n < 0)
  BY NodesAreFinite
<1> QED
  BY <1>1, <1>2, <1>3, <1>4

(* TDBegin: the worker takes its share of the window.                        *)
LEMMA TDBeginKeeps ==
  ASSUME SearchInv, pc = "TDStep", NEW w \in Workers, UNCHANGED <<args, pc, counters, level>>,
         TDBegin(w)
  PROVE  SearchInv'
<1> DEFINE m == my[w]
<1>1. /\ my[w].pc = "begin"
      /\ my' = [my EXCEPT ![w].i = Share(w).begin, ![w].end = Share(w).end, ![w].pc = "edges"]
      /\ UNCHANGED <<tree, queue_vars, bitmaps, next_index>>
  BY DEF TDBegin, TakeRange, Share, At
<1>2. my \in [Workers -> WorkerType] /\ QueueTypes /\ TDWorker(w)
  BY DEF SearchInv, Types, Steady, QOK, InTDStep
<1>3. /\ Share(w).begin \in Nat /\ Share(w).end \in Nat /\ Share(w).begin <= Share(w).end
  BY <1>2, ShareFacts
<1>4. Others(w) /\ my'[w].count = my[w].count
  BY <1>1, <1>2, <1>3 DEF Others, WorkerType, WorkerPCs
<1>5. /\ my'[w].pc = "edges" /\ my'[w].i = Share(w).begin /\ my'[w].end = Share(w).end
      /\ my'[w].u = my[w].u /\ my'[w].todo = my[w].todo
  BY <1>1, <1>2 DEF WorkerType
<1>6. TDWorker(w)'
  <2>1. Share(w)' = Share(w) /\ Share(w).begin .. Share(w).begin - 1 = {}
    BY <1>1, <1>3 DEF Share, queue!size, queue_vars
  <2> QED
    BY <1>1, <1>2, <1>3, <1>5, <2>1 DEF TDWorker, tree, args
<1> QED
  BY <1>1, <1>4, <1>5, <1>6, TDLocalStep DEF Pushing

(* TDNextVertex: the worker goes to the next vertex of its share; all its    *)
(* out-neighbours are to do.                                                 *)
LEMMA TDNextVertexKeeps ==
  ASSUME SearchInv, pc = "TDStep", NEW w \in Workers, UNCHANGED <<args, pc, counters, level>>,
         TDNextVertex(w)
  PROVE  SearchInv'
<1> DEFINE u == shared[shared_out_start + my[w].i]
<1>1. /\ my[w].pc = "edges" /\ my[w].todo = {} /\ my[w].i < my[w].end
      /\ my' = [my EXCEPT ![w].u = u, ![w].todo = out_neigh[u], ![w].i = @ + 1]
      /\ UNCHANGED <<tree, queue_vars, bitmaps, next_index>>
  BY DEF TDNextVertex, At
<1>2. my \in [Workers -> WorkerType] /\ QueueTypes /\ TDWorker(w) /\ out_neigh \in [Nodes -> SUBSET Nodes]
  BY DEF SearchInv, Types, Steady, QOK, InTDStep
<1>3. /\ Share(w).begin \in Nat /\ Share(w).end \in Nat
      /\ Share(w).begin <= my[w].i /\ my[w].i < Share(w).end /\ my[w].end = Share(w).end /\ my[w].i \in Nat
  BY <1>1, <1>2, ShareFacts DEF TDWorker, WorkerType
<1>4. u \in Nodes /\ depth[u] = level
  BY <1>3, ShareIsInWindow DEF SearchInv, Steady, WindowOK, LevelOf
<1> HIDE DEF u
<1>5. Others(w) /\ my'[w].count = my[w].count
  BY <1>1, <1>2, <1>4 DEF Others, WorkerType
<1>6. /\ my'[w].pc = "edges" /\ my'[w].i = my[w].i + 1 /\ my'[w].end = my[w].end
      /\ my'[w].u = u /\ my'[w].todo = out_neigh[u]
  BY <1>1, <1>2, <1>4 DEF WorkerType
<1>7. TDWorker(w)'
  <2>1. Share(w)' = Share(w) /\ Visited' = Visited
    BY <1>1 DEF Share, queue!size, queue_vars, tree, Visited
  <2>2. ASSUME NEW j \in Share(w).begin .. my[w].i, NEW v \in out_neigh[shared[shared_out_start + j]]
        PROVE  v \in Visited \/ v \in my'[w].todo
    <3>1. CASE j = my[w].i
      BY <1>6, <2>2, <3>1 DEF u
    <3>2. CASE j # my[w].i
      <4>1. j \in Share(w).begin .. my[w].i - 1
        BY <1>3, <2>2, <3>2
      <4> QED
        BY <1>1, <1>2, <2>2, <4>1 DEF TDWorker
    <3> QED
      BY <3>1, <3>2
  <2>3. Share(w).begin <= my'[w].i /\ my'[w].i <= my'[w].end /\ my'[w].i - 1 = my[w].i
    BY <1>3, <1>6
  <2>4. ASSUME NEW j \in Share(w)'.begin .. my'[w].i - 1, NEW v \in out_neigh'[shared'[shared_out_start' + j]]
        PROVE  v \in Visited' \/ v \in my'[w].todo
    BY <1>1, <2>1, <2>2, <2>3, <2>4 DEF args, queue_vars
  <2> QED
    BY <1>1, <1>3, <1>4, <1>6, <2>1, <2>3, <2>4 DEF TDWorker, tree, args
<1> QED
  BY <1>1, <1>5, <1>6, <1>7, TDLocalStep DEF Pushing

(* TDReadParent: a vertex that looks claimed is done with, another is tried. *)
LEMMA TDReadParentKeeps ==
  ASSUME SearchInv, pc = "TDStep", NEW w \in Workers, UNCHANGED <<args, pc, counters, level>>,
         TDReadParent(w)
  PROVE  SearchInv'
<1>1. PICK v \in my[w].todo :
         my' = IF parent[v] < 0
               THEN [my EXCEPT ![w].todo = @ \ {v}, ![w].v = v, ![w].curr_val = parent[v], ![w].pc = "cas"]
               ELSE [my EXCEPT ![w].todo = @ \ {v}]
  BY DEF TDReadParent
<1>2. my[w].pc = "edges" /\ UNCHANGED <<tree, queue_vars, bitmaps, next_index>>
  BY DEF TDReadParent, At
<1>3. my \in [Workers -> WorkerType] /\ QueueTypes /\ TDWorker(w) /\ parent \in [Nodes -> Int]
  BY DEF SearchInv, Types, Steady, QOK, InTDStep
<1>4. v \in Nodes /\ depth[my[w].u] = level /\ v \in out_neigh[my[w].u] /\ my[w].todo \subseteq out_neigh[my[w].u]
  BY <1>1, <1>3 DEF TDWorker, WorkerType
<1>5. /\ parent[v] < 0 => parent[v] = -Weight(v)
      /\ ~(parent[v] < 0) => v \in Visited
  BY <1>4, ParentTells DEF SearchInv
<1>6. Others(w) /\ my'[w].count = my[w].count
  <2>1. my[w] \in WorkerType /\ my[w].todo \ {v} \subseteq Nodes
    BY <1>3 DEF WorkerType
  <2>2. CASE parent[v] < 0
    <3>1. parent[v] \in Int
      BY <1>3, <1>4
    <3>2. my' = [my EXCEPT ![w].todo = @ \ {v}, ![w].v = v, ![w].curr_val = parent[v], ![w].pc = "cas"]
      BY <1>1, <2>2
    <3>3. my' = [my EXCEPT ![w] = [my[w] EXCEPT !.todo = my[w].todo \ {v}, !.v = v, !.curr_val = parent[v], !.pc = "cas"]]
      BY <3>2, <1>3
    <3> DEFINE m == [my[w] EXCEPT !.todo = my[w].todo \ {v}, !.v = v, !.curr_val = parent[v], !.pc = "cas"]
    <3>4. m \in WorkerType /\ m.count = my[w].count
      BY <2>1, <3>1, <1>4 DEF WorkerType, WorkerPCs
    <3>5. my' = [my EXCEPT ![w] = m]
      BY <3>3
    <3> HIDE DEF m
    <3> QED
      BY <1>3, <3>4, <3>5 DEF Others
  <2>3. CASE ~(parent[v] < 0)
    BY <1>1, <1>3, <1>4, <2>3 DEF Others, WorkerType, WorkerPCs
  <2> QED
    BY <2>2, <2>3
<1>7. /\ my'[w].i = my[w].i /\ my'[w].end = my[w].end /\ my'[w].u = my[w].u
      /\ my'[w].todo = my[w].todo \ {v}
      /\ IF parent[v] < 0 THEN my'[w].pc = "cas" /\ my'[w].v = v /\ my'[w].curr_val = parent[v]
                          ELSE my'[w].pc = "edges"
  BY <1>1, <1>2, <1>3, <1>4 DEF WorkerType
<1>8. TDWorker(w)'
  <2>1. Share(w)' = Share(w) /\ Visited' = Visited /\ Weight(v)' = Weight(v)
    BY <1>2 DEF Share, queue!size, queue_vars, tree, Visited, Weight, out_degree, args
  <2>2. ASSUME NEW j \in Share(w)'.begin .. my'[w].i - 1, NEW x \in out_neigh'[shared'[shared_out_start' + j]]
        PROVE  x \in Visited' \/ x \in my'[w].todo \/ (my'[w].pc = "cas" /\ x = my'[w].v)
    <3>1. x \in Visited \/ x \in my[w].todo
      BY <1>2, <1>3, <1>7, <2>1, <2>2 DEF TDWorker, args, queue_vars
    <3> QED
      BY <1>5, <1>7, <2>1, <3>1
  <2> QED
    BY <1>2, <1>3, <1>4, <1>5, <1>7, <2>1, <2>2 DEF TDWorker, tree, args
<1> QED
  BY <1>2, <1>6, <1>7, <1>8, TDLocalStep DEF Pushing

(* TDClaim that fails: another worker has reached the vertex in between.     *)
LEMMA TDClaimFails ==
  ASSUME SearchInv, pc = "TDStep", NEW w \in Workers, UNCHANGED <<args, pc, counters, level>>,
         TDClaim(w), parent[my[w].v] # my[w].curr_val
  PROVE  SearchInv'
<1>1. /\ my[w].pc = "cas" /\ my' = [my EXCEPT ![w].pc = "edges"]
      /\ UNCHANGED <<tree, queue_vars, bitmaps, next_index>>
  BY DEF TDClaim, At
<1>2. my \in [Workers -> WorkerType] /\ QueueTypes /\ TDWorker(w)
  BY DEF SearchInv, Types, Steady, QOK, InTDStep
<1>3. Others(w) /\ my'[w].count = my[w].count
  BY <1>1, <1>2 DEF Others, WorkerType, WorkerPCs
<1>4. /\ my'[w].pc = "edges" /\ my'[w].i = my[w].i /\ my'[w].end = my[w].end /\ my'[w].u = my[w].u
      /\ my'[w].todo = my[w].todo /\ my[w].v \in Nodes
  BY <1>1, <1>2 DEF WorkerType
<1>5. my[w].v \in Visited
  BY <1>1, <1>2, <1>4 DEF TDWorker, SearchInv, Steady, TreeOK, Visited
<1>6. TDWorker(w)'
  <2>1. Share(w)' = Share(w) /\ Visited' = Visited
    BY <1>1 DEF Share, queue!size, queue_vars, tree, Visited
  <2>2. ASSUME NEW j \in Share(w)'.begin .. my'[w].i - 1, NEW x \in out_neigh'[shared'[shared_out_start' + j]]
        PROVE  x \in Visited' \/ x \in my'[w].todo
    BY <1>1, <1>2, <1>4, <1>5, <2>1, <2>2 DEF TDWorker, args, queue_vars
  <2> QED
    BY <1>1, <1>2, <1>4, <2>1, <2>2 DEF TDWorker, tree, args
<1> QED
  BY <1>1, <1>3, <1>4, <1>6, TDLocalStep DEF Pushing

(* A worker's variables are replaced by a record.                            *)
LEMMA WorkerMoves ==
  ASSUME Types, NEW w \in Workers, NEW m \in WorkerType, my' = [my EXCEPT ![w] = m]
  PROVE  Others(w) /\ my'[w] = m
  BY DEF Types, Others

(* A worker comes to a push ...                                              *)
LEMMA PushBegins ==
  ASSUME NEW w \in Workers, Others(w), PushesOK, ~Pushing(w), Pushing(w)',
         queue!Pending' = queue!Pending, my'[w].v \notin queue!Pending, my'[w].v \notin Unpushed
  PROVE  PushesOK' /\ Unpushed' = Unpushed \cup {my'[w].v}
<1>1. \A y : y \in Unpushed <=> \E x \in Workers : Pushing(x) /\ my[x].v = y
  BY DEF Unpushed
<1>2. \A y : y \in Unpushed' <=> \E x \in Workers : Pushing(x)' /\ my'[x].v = y
  BY DEF Unpushed
<1>3. \A x \in Workers \ {w} : (Pushing(x)' <=> Pushing(x)) /\ my'[x].v = my[x].v
  BY DEF Others, Pushing
<1>4. ASSUME NEW y PROVE y \in Unpushed' <=> y \in Unpushed \cup {my'[w].v}
  BY <1>1, <1>2, <1>3
<1>5. \A x \in Workers : Pushing(x)' => my'[x].v \notin queue!Pending'
  BY <1>3 DEF PushesOK
<1>6. ASSUME NEW x \in Workers, NEW y \in Workers, Pushing(x)', Pushing(y)', my'[x].v = my'[y].v
      PROVE  x = y
  BY <1>1, <1>3, <1>6 DEF PushesOK
<1> QED
  BY <1>4, <1>5, <1>6 DEF PushesOK

(* ... and has pushed.                                                       *)
LEMMA PushEnds ==
  ASSUME NEW w \in Workers, Others(w), PushesOK, Pushing(w), ~Pushing(w)',
         queue!Pending' = queue!Pending \cup {my[w].v}
  PROVE  PushesOK' /\ queue!Pending' \cup Unpushed' = queue!Pending \cup Unpushed
<1>1. \A y : y \in Unpushed <=> \E x \in Workers : Pushing(x) /\ my[x].v = y
  BY DEF Unpushed
<1>2. \A y : y \in Unpushed' <=> \E x \in Workers : Pushing(x)' /\ my'[x].v = y
  BY DEF Unpushed
<1>3. \A x \in Workers \ {w} : (Pushing(x)' <=> Pushing(x)) /\ my'[x].v = my[x].v
  BY DEF Others, Pushing
<1>4. ASSUME NEW y PROVE y \in queue!Pending' \cup Unpushed' <=> y \in queue!Pending \cup Unpushed
  BY <1>1, <1>2, <1>3
<1>5. ASSUME NEW x \in Workers, Pushing(x)' PROVE x # w /\ my'[x].v \notin queue!Pending'
  BY <1>3, <1>5 DEF PushesOK
<1>6. ASSUME NEW x \in Workers, NEW y \in Workers, Pushing(x)', Pushing(y)', my'[x].v = my'[y].v
      PROVE  x = y
  BY <1>3, <1>5, <1>6 DEF PushesOK
<1> QED
  BY <1>4, <1>5, <1>6 DEF PushesOK

(* A vertex is claimed, from above or from below.                            *)
LEMMA ClaimKeepsSteady ==
  ASSUME Types, Steady, pc \in {"TDStep", "BUStep"}, NEW v \in Nodes \ Visited, NEW u \in Nodes,
         parent' = [parent EXCEPT ![v] = u], depth' = [depth EXCEPT ![v] = level + 1],
         UNCHANGED <<out_neigh, source, pc, queue_vars, bitmaps, level>>
  PROVE  /\ Steady' /\ queue!Pending' = queue!Pending
         /\ Visited' = Visited \cup {v} /\ \A x \in Visited : depth'[x] = depth[x]
         /\ LevelOf(level)' = LevelOf(level)
         /\ v \notin LevelOf(level + 1) /\ LevelOf(level + 1)' = LevelOf(level + 1) \cup {v}
         /\ parent' \in [Nodes -> Int] /\ depth' \in [Nodes -> Nat \cup {-1}]
<1> USE DEF queue_vars, bitmaps
<1>1. /\ depth[v] = -1 /\ parent \in [Nodes -> Int] /\ depth \in [Nodes -> Nat \cup {-1}] /\ level \in Nat
      /\ parent'[v] = u /\ depth'[v] = level + 1
      /\ \A x \in Nodes \ {v} : parent'[x] = parent[x] /\ depth'[x] = depth[x]
      /\ u \in Int
  BY NodesAreFinite DEF Types, Visited
<1>2. parent' \in [Nodes -> Int] /\ depth' \in [Nodes -> Nat \cup {-1}]
  BY <1>1
<1>3. Visited' = Visited \cup {v} /\ \A x \in Visited : x # v /\ depth'[x] = depth[x] /\ parent'[x] = parent[x]
  BY <1>1 DEF Visited
<1>4. /\ LevelOf(level)' = LevelOf(level)
      /\ v \notin LevelOf(level + 1) /\ LevelOf(level + 1)' = LevelOf(level + 1) \cup {v}
  BY <1>1 DEF LevelOf
<1>5. TreeOK'
  <2>1. \A x \in Nodes : IF depth'[x] = -1 THEN parent'[x] < 0 ELSE parent'[x] \in Nodes
    BY <1>1 DEF Steady, TreeOK
  <2>2. \A x \in Nodes \ Visited' : parent'[x] = -Weight(x)'
    <3>1. \A x \in Nodes \ Visited : parent[x] = -Weight(x) /\ Weight(x)' = Weight(x)
      BY DEF Steady, TreeOK, Weight, out_degree
    <3> QED
      BY <1>1, <1>3, <3>1
  <2>3. depth'[source] = 0
    BY <1>1 DEF Steady, TreeOK, Types
  <2>4. \A x \in Visited' : depth'[x] <= level + 1
    BY <1>1, <1>3 DEF Steady, TreeOK
  <2>5. \A x \in front : x \in Visited' /\ depth'[x] <= level
    BY <1>3 DEF Steady, TreeOK
  <2> QED
    BY <2>1, <2>2, <2>3, <2>4, <2>5 DEF TreeOK
<1>6. queue!Written' = queue!Written /\ queue!Pending' = queue!Pending /\ queue!Window' = queue!Window
      /\ \A t \in Workers : queue!Reserved(t)' = queue!Reserved(t)
  BY DEF queue!Written, queue!Reserved, queue!Pending, queue!Buffered, queue!Window, queue!WindowSlots
<1>7. QOK'
  BY <1>6 DEF Steady, QOK, QueueTypes, queue!Slots, OnePlaceEach, queue!FlushesAreDisjoint
<1>8. OlderOK'
  BY <1>3 DEF Steady, OlderOK
<1>9. WindowOK'
  BY <1>4, <1>6 DEF Steady, WindowOK
<1> QED
  BY <1>2, <1>3, <1>4, <1>5, <1>6, <1>7, <1>8, <1>9 DEF Steady

(* What a claim from above does.                                             *)
LEMMA TDClaimTells ==
  ASSUME SearchInv, pc = "TDStep", NEW w \in Workers, TDClaim(w), parent[my[w].v] = my[w].curr_val
  PROVE  /\ my[w].pc = "cas" /\ my[w].v \in Nodes \ Visited /\ my[w].u \in Nodes
         /\ depth[my[w].u] = level /\ my[w].v \in out_neigh[my[w].u]
         /\ my[w].curr_val = -Weight(my[w].v)
         /\ parent' = [parent EXCEPT ![my[w].v] = my[w].u]
         /\ depth' = [depth EXCEPT ![my[w].v] = level + 1]
         /\ my' = [my EXCEPT ![w] = [my[w] EXCEPT !.pc = "push", !.count = my[w].count - my[w].curr_val]]
         /\ UNCHANGED <<queue_vars, bitmaps, next_index>>
<1>1. /\ my[w].pc = "cas"
      /\ parent' = [parent EXCEPT ![my[w].v] = my[w].u]
      /\ depth' = [depth EXCEPT ![my[w].v] = depth[my[w].u] + 1]
      /\ my' = [my EXCEPT ![w].pc = "push", ![w].count = @ - my[w].curr_val]
      /\ UNCHANGED <<queue_vars, bitmaps, next_index>>
  BY DEF TDClaim, At
<1>2. my \in [Workers -> WorkerType] /\ TDWorker(w) /\ out_neigh \in [Nodes -> SUBSET Nodes]
  BY DEF SearchInv, Types, InTDStep
<1>3. /\ my[w].v \in Nodes /\ my[w].u \in Nodes /\ depth[my[w].u] = level
      /\ my[w].v \in out_neigh[my[w].u] /\ my[w].curr_val = -Weight(my[w].v)
  BY <1>1, <1>2 DEF TDWorker, WorkerType
<1>4. my[w].v \notin Visited
  <2>1. my[w].curr_val < 0
    BY <1>2, <1>3, WeightIsPositive
  <2> QED
    BY <1>3, <2>1, ParentTells DEF SearchInv
<1>5. my' = [my EXCEPT ![w] = [my[w] EXCEPT !.pc = "push", !.count = my[w].count - my[w].curr_val]]
  BY <1>1, <1>2
<1> QED
  BY <1>1, <1>3, <1>4, <1>5

(* TDClaim that succeeds: the vertex is of the next level, in this worker's  *)
(* hands, and its weight in this worker's count.                             *)
LEMMA TDClaimSucceeds ==
  ASSUME SearchInv, pc = "TDStep", NEW w \in Workers, UNCHANGED <<args, pc, counters, level>>,
         TDClaim(w), parent[my[w].v] = my[w].curr_val
  PROVE  SearchInv'
<1> DEFINE v == my[w].v
           u == my[w].u
           m == [my[w] EXCEPT !.pc = "push", !.count = my[w].count - my[w].curr_val]
<1>1. /\ my[w].pc = "cas" /\ v \in Nodes \ Visited /\ u \in Nodes
      /\ depth[u] = level /\ v \in out_neigh[u] /\ my[w].curr_val = -Weight(v)
      /\ parent' = [parent EXCEPT ![v] = u] /\ depth' = [depth EXCEPT ![v] = level + 1]
      /\ my' = [my EXCEPT ![w] = m] /\ UNCHANGED <<queue_vars, bitmaps, next_index>>
  BY TDClaimTells
<1>2. Types /\ Steady /\ my[w] \in WorkerType /\ TDWorker(w) /\ QueueTypes
  BY DEF SearchInv, Types, InTDStep, Steady, QOK
<1>3. Weight(v) \in Nat /\ \A x \in Nodes : Weight(x) \in Nat /\ Weight(x)' = Weight(x)
  BY <1>1, <1>2, WeightIsPositive DEF Types, Weight, out_degree, args
<1>4. /\ m \in WorkerType /\ m.pc = "push" /\ m.count = my[w].count + Weight(v)
      /\ m.i = my[w].i /\ m.end = my[w].end /\ m.u = u /\ m.v = v /\ m.todo = my[w].todo
  <2>1. my[w].count \in Int /\ my[w].curr_val = -Weight(v)
    BY <1>1, <1>2 DEF WorkerType
  <2>2. my[w].count - my[w].curr_val \in Int /\ my[w].count - my[w].curr_val = my[w].count + Weight(v)
    BY <1>3, <2>1
  <2> DEFINE c == my[w].count - my[w].curr_val
  <2> HIDE DEF c
  <2>3. c \in Int /\ c = my[w].count + Weight(v)
    BY <2>2 DEF c
  <2>4. m = [my[w] EXCEPT !.pc = "push", !.count = c]
    BY DEF c
  <2> QED
    BY <1>2, <2>3, <2>4 DEF WorkerType, WorkerPCs
<1>5. Others(w) /\ my'[w] = m
  <2> HIDE DEF m
  <2> QED
    BY <1>1, <1>2, <1>4, WorkerMoves
<1>6. /\ Steady' /\ queue!Pending' = queue!Pending
      /\ Visited' = Visited \cup {v} /\ \A x \in Visited : depth'[x] = depth[x]
      /\ v \notin LevelOf(level + 1) /\ LevelOf(level + 1)' = LevelOf(level + 1) \cup {v}
      /\ parent' \in [Nodes -> Int] /\ depth' \in [Nodes -> Nat \cup {-1}]
  <2> HIDE DEF u, v, m
  <2> QED
    BY <1>1, <1>2, ClaimKeepsSteady DEF args
<1>7. Types'
  BY <1>1, <1>2, <1>5, <1>6 DEF Types, args, counters, bitmaps, Others
<1>8. BuffersMatch'
  BY <1>1, <1>4, <1>5, BufferWorkersStay DEF Others, queue_vars, SearchInv, BuffersMatch
<1> HIDE DEF v, m, u
<1>9. \A x \in Workers \ {w} : TDWorker(x)'
  <2>1. \A x \in Workers : TDWorker(x)
    BY DEF SearchInv, InTDStep
  <2>2. UNCHANGED <<out_neigh, level, shared_out_start, shared_out_end, shared>>
    BY <1>1 DEF args, queue_vars
  <2>3. \A i \in 0 .. shared_out_end - 1 : shared'[i] = shared[i]
    BY <2>2
  <2>4. \A x \in Workers \ {w} : my'[x] = my[x]
    BY <1>5 DEF Others
  <2> QED
    BY <1>2, <1>6, <2>1, <2>2, <2>3, <2>4, TDWorkerStays
<1>10. TDWorker(w)'
  <2>1. Share(w)' = Share(w)
    BY <1>1 DEF Share, queue!size, queue_vars
  <2>2. ASSUME NEW j \in Share(w)'.begin .. my'[w].i - 1, NEW x \in out_neigh'[shared'[shared_out_start' + j]]
        PROVE  x \in Visited' \/ x \in my'[w].todo
    BY <1>1, <1>2, <1>4, <1>5, <1>6, <2>1, <2>2 DEF TDWorker, args, queue_vars, v
  <2>3. my'[w].todo # {} => depth'[my'[w].u] = level' /\ my'[w].todo \subseteq out_neigh'[my'[w].u]
    <3>1. u \in Visited
      BY <1>1, <1>2 DEF Visited, Types
    <3> QED
      BY <1>1, <1>2, <1>4, <1>5, <1>6, <3>1 DEF TDWorker, args, u
  <2>4. my'[w].pc = "push" /\ Share(w).begin <= my'[w].i /\ my'[w].i <= my'[w].end /\ my'[w].end = Share(w).end
    BY <1>1, <1>2, <1>4, <1>5 DEF TDWorker
  <2> QED
    BY <1>1, <2>1, <2>2, <2>3, <2>4 DEF TDWorker
<1>11. PushesOK' /\ Unpushed' = Unpushed \cup {v}
  <2>1. queue!Pending \cup Unpushed = LevelOf(level + 1) /\ PushesOK
    BY DEF SearchInv, InTDStep
  <2>2. ~Pushing(w) /\ Pushing(w)' /\ my'[w].v = v
    BY <1>1, <1>4, <1>5 DEF Pushing
  <2>3. v \notin queue!Pending /\ v \notin Unpushed
    BY <1>6, <2>1
  <2> QED
    BY <1>5, <1>6, <2>1, <2>2, <2>3, PushBegins
<1>12. Reduce' = Reduce + Weight(v)
  <2>1. my'[w].count = my[w].count + Weight(v) /\ \A x \in Workers \ {w} : my'[x].count = my[x].count
    BY <1>4, <1>5 DEF Others
  <2> QED
    BY <1>2, <1>3, <1>5, <2>1, ReduceAdds DEF Others
<1>13. SumFunction([x \in LevelOf(level + 1) |-> Weight(x)])'
         = SumFunction([x \in LevelOf(level + 1) |-> Weight(x)]) + Weight(v)
  <2> DEFINE S == LevelOf(level + 1)
             T == S \cup {v}
             f == [x \in S |-> Weight(x)]
             g == [x \in T |-> Weight(x)]
  <2>1. S \subseteq Nodes /\ IsFiniteSet(S) /\ v \notin S /\ T = S \cup {v}
    BY <1>6, NodesAreFinite, FS_Subset DEF LevelOf
  <2>2. f \in [S -> Int] /\ g \in [T -> Int] /\ (\A x \in S : g[x] = f[x]) /\ g[v] = Weight(v)
    BY <1>1, <1>3, <2>1
  <2>3. [x \in LevelOf(level + 1) |-> Weight(x)]' = g
    BY <1>1, <1>3, <1>6, <2>1
  <2>4. SumFunction(g) = SumFunction(f) + g[v]
    <3> HIDE DEF S, T, f, g
    <3> QED BY <2>1, <2>2, SumGrows
  <2> QED
    BY <2>2, <2>3, <2>4
<1>14. InTDStep'
  <2>1. \A x \in Workers : TDWorker(x)'
    BY <1>9, <1>10
  <2>2. (queue!Pending \cup Unpushed)' = LevelOf(level + 1)'
    BY <1>6, <1>11 DEF SearchInv, InTDStep
  <2>3. Reduce' = SumFunction([x \in LevelOf(level + 1) |-> Weight(x)])'
    BY <1>12, <1>13 DEF SearchInv, InTDStep
  <2> QED
    BY <1>11, <2>1, <2>2, <2>3 DEF InTDStep
<1> QED
  BY <1>6, <1>7, <1>8, <1>14 DEF SearchInv

(* A worker of TDStep goes on at another place, with the same variables.     *)
LEMMA TDWorkerTurns ==
  ASSUME SearchInv, pc = "TDStep", NEW w \in Workers,
         UNCHANGED <<out_neigh, level, shared_out_start, shared_out_end, depth>>,
         \A i \in 0 .. shared_out_end - 1 : shared'[i] = shared[i],
         NEW label \in {"edges", "push", "copy", "lastcopy", "done"},
         my' = [my EXCEPT ![w].pc = label], my[w].pc \notin {"begin", "cas"},
         label \in {"lastcopy", "done"} => my[w].i = my[w].end /\ my[w].todo = {}
  PROVE  /\ Others(w) /\ TDWorker(w)' /\ my'[w].pc = label
         /\ my'[w].v = my[w].v /\ my'[w].count = my[w].count
<1> DEFINE m == [my[w] EXCEPT !.pc = label]
<1>1. Types /\ Steady /\ QueueTypes /\ my \in [Workers -> WorkerType] /\ my[w] \in WorkerType /\ TDWorker(w)
  BY DEF SearchInv, Types, InTDStep, Steady, QOK
<1>2. my' = [my EXCEPT ![w] = m]
  BY <1>1
<1>3. /\ m \in WorkerType /\ m.pc = label
      /\ m.i = my[w].i /\ m.end = my[w].end /\ m.u = my[w].u /\ m.v = my[w].v
      /\ m.todo = my[w].todo /\ m.count = my[w].count
  BY <1>1 DEF WorkerType, WorkerPCs
<1> HIDE DEF m
<1>4. Others(w) /\ my'[w] = m
  BY <1>1, <1>2, <1>3, WorkerMoves
<1>5. /\ Share(w)' = Share(w) /\ Visited' = Visited /\ Share(w).begin \in Nat
      /\ my[w].i \in Nat /\ my[w].i <= Share(w).end /\ my[w].end = Share(w).end /\ Share(w).end \in Nat
      /\ Share(w).end <= shared_out_end - shared_out_start
  BY <1>1, ShareFacts DEF Share, queue!size, Visited, TDWorker, WorkerType
<1>6. ASSUME NEW j \in Share(w).begin .. my[w].i - 1
      PROVE  shared'[shared_out_start + j] = shared[shared_out_start + j]
  <2>1. shared_out_start + j \in 0 .. shared_out_end - 1
    BY <1>1, <1>5 DEF QueueTypes
  <2> QED
    BY <2>1
<1>7. ASSUME NEW j \in Share(w)'.begin .. my'[w].i - 1, NEW x \in out_neigh'[shared'[shared_out_start' + j]]
      PROVE  x \in Visited' \/ x \in my'[w].todo
  <2>1. j \in Share(w).begin .. my[w].i - 1
    BY <1>3, <1>4, <1>5
  <2>2. x \in out_neigh[shared[shared_out_start + j]]
    BY <1>6, <2>1
  <2> QED
    BY <1>1, <1>3, <1>4, <1>5, <2>1, <2>2 DEF TDWorker
<1>8. TDWorker(w)'
  BY <1>1, <1>3, <1>4, <1>5, <1>7 DEF TDWorker
<1> QED
  BY <1>3, <1>4, <1>8

(* A step of a worker of TDStep on its buffer or on the queue.               *)
LEMMA TDQueueStep ==
  ASSUME SearchInv, pc = "TDStep", NEW w \in Workers,
         UNCHANGED <<args, pc, counters, level, tree, bitmaps, next_index>>,
         UNCHANGED <<shared_out_start, shared_out_end>>,
         \A i \in 0 .. shared_out_end - 1 : shared'[i] = shared[i],
         \A x \in Workers \ {w} : copy_start'[x] = copy_start[x] /\ local_queue'[x] = local_queue[x],
         Others(w), TDWorker(w)', my'[w].count = my[w].count,
         copy_start'[w] # queue!NotFlushing <=> my'[w].pc \in {"copy", "lastcopy"},
         my'[w].pc = "done" => local_queue'[w] = <<>>, my'[w].pc # "begin",
         QOK', PushesOK', (queue!Pending \cup Unpushed)' = queue!Pending \cup Unpushed
  PROVE  SearchInv'
<1> USE DEF SearchInv
<1>1. Types'
  BY DEF Types, args, counters, tree, bitmaps, Others
<1>2. Steady'
  BY QueueSteady DEF args
<1>3. BuffersMatch'
  BY BufferWorkersStay DEF Others
<1>4. \A x \in Workers : TDWorker(x)'
  <2>1. \A x \in Workers : TDWorker(x)
    BY DEF InTDStep
  <2>2. UNCHANGED <<out_neigh, level, depth>> /\ QueueTypes
    BY DEF args, tree, Steady, QOK
  <2>3. \A x \in Workers \ {w} : my'[x] = my[x]
    BY DEF Others
  <2> QED
    BY <2>1, <2>2, <2>3, TDWorkerStays
<1>5. Reduce' = Reduce
  BY ReduceDepends DEF Others
<1>6. LevelOf(level + 1)' = LevelOf(level + 1) /\ \A v : Weight(v)' = Weight(v)
  BY DEF LevelOf, tree, Weight, out_degree, args
<1>7. SumFunction([v \in LevelOf(level + 1) |-> Weight(v)])' = SumFunction([v \in LevelOf(level + 1) |-> Weight(v)])
  BY <1>6
<1>8. InTDStep'
  BY <1>4, <1>5, <1>6, <1>7 DEF InTDStep
<1> QED
  BY <1>1, <1>2, <1>3, <1>8

(* What a worker of TDStep is about to push is nowhere in the queue yet.     *)
LEMMA TDPushIsNew ==
  ASSUME SearchInv, pc = "TDStep", NEW w \in Workers, my[w].pc = "push"
  PROVE  /\ my[w].v \in Nodes /\ my[w].v \notin queue!Pending
         /\ \A i \in 0 .. shared_out_end - 1 : shared[i] # my[w].v
<1> DEFINE v == my[w].v
<1>1. /\ PushesOK /\ Pushing(w) /\ v \in Nodes
      /\ queue!Pending \cup Unpushed = LevelOf(level + 1)
  BY DEF SearchInv, InTDStep, Pushing, Types, WorkerType
<1>2. v \in Unpushed /\ v \notin queue!Pending
  BY <1>1 DEF Unpushed, PushesOK
<1>3. depth[v] = level + 1 /\ level \in Nat
  BY <1>1, <1>2 DEF LevelOf, SearchInv, Types
<1> QED
  BY <1>1, <1>2, <1>3 DEF SearchInv, Steady, OlderOK

(* TDPush: the vertex goes from the worker's hands to its buffer, or the     *)
(* full buffer gets its slots first.                                         *)
LEMMA TDPushKeeps ==
  ASSUME SearchInv, pc = "TDStep", NEW w \in Workers, UNCHANGED <<args, pc, counters, level>>,
         TDPush(w)
  PROVE  SearchInv'
<1> DEFINE v == my[w].v
<1>1. my[w].pc = "push" /\ Push(w, "edges") /\ UNCHANGED <<tree, bitmaps, next_index>>
  BY DEF TDPush, At
<1>2. /\ QOK /\ QueueTypes /\ BuffersMatch /\ PushesOK /\ Pushing(w) /\ my[w] \in WorkerType /\ v \in Nodes
      /\ queue!Pending \cup Unpushed = LevelOf(level + 1)
  BY <1>1 DEF SearchInv, Steady, QOK, InTDStep, Pushing, Types, WorkerType
<1>3. v \notin queue!Pending /\ \A i \in 0 .. shared_out_end - 1 : shared[i] # v
  BY <1>1, TDPushIsNew
<1>4. CASE queue!LocalPush(w, v) /\ my' = [my EXCEPT ![w].pc = "edges"]
  <2>1. /\ local_queue' = [local_queue EXCEPT ![w] = Append(@, v)]
        /\ UNCHANGED <<shared, shared_in, shared_out_start, shared_out_end, copy_start>>
    BY <1>4 DEF queue!LocalPush
  <2>2. QOK' /\ queue!Pending' = queue!Pending \cup {v}
    BY <1>2, <1>3, <1>4, PushKeepsQueue
  <2>3. Others(w) /\ TDWorker(w)' /\ my'[w].pc = "edges" /\ my'[w].count = my[w].count
    BY <1>1, <1>4, <2>1, TDWorkerTurns DEF args, tree
  <2>4. PushesOK' /\ (queue!Pending \cup Unpushed)' = queue!Pending \cup Unpushed
    BY <1>2, <2>2, <2>3, PushEnds DEF Pushing
  <2>5. \A x \in Workers \ {w} : copy_start'[x] = copy_start[x] /\ local_queue'[x] = local_queue[x]
    BY <1>2, <2>1 DEF QueueTypes
  <2>6. copy_start'[w] # queue!NotFlushing <=> my'[w].pc \in {"copy", "lastcopy"}
    BY <1>1, <1>2, <2>1, <2>3 DEF BuffersMatch
  <2> QED
    BY <1>1, <2>1, <2>2, <2>3, <2>4, <2>5, <2>6, TDQueueStep
<1>5. CASE queue!Reserve(w) /\ my' = [my EXCEPT ![w].pc = "copy"]
  <2>1. /\ copy_start' = [copy_start EXCEPT ![w] = shared_in]
        /\ UNCHANGED <<shared, shared_out_start, shared_out_end, local_queue>>
    BY <1>5 DEF queue!Reserve
  <2>2. QOK' /\ queue!Pending' = queue!Pending
    BY <1>2, <1>5, ReserveKeepsQueue
  <2>3. Others(w) /\ TDWorker(w)' /\ my'[w].pc = "copy" /\ my'[w].count = my[w].count /\ my'[w].v = v
    BY <1>1, <1>5, <2>1, TDWorkerTurns DEF args, tree
  <2>4. Unpushed' = Unpushed /\ PushesOK'
    BY <1>2, <2>2, <2>3, NobodyPushes DEF Pushing, Others
  <2>5. \A x \in Workers \ {w} : copy_start'[x] = copy_start[x] /\ local_queue'[x] = local_queue[x]
    BY <1>2, <2>1 DEF QueueTypes
  <2>6. copy_start'[w] # queue!NotFlushing /\ my'[w].pc \in {"copy", "lastcopy"}
    BY <1>2, <2>1, <2>3 DEF QueueTypes, queue!NotFlushing
  <2> QED
    BY <1>1, <2>1, <2>2, <2>3, <2>4, <2>5, <2>6, TDQueueStep
<1> QED
  BY <1>1, <1>4, <1>5 DEF Push

(* TDFlush: the last flush gets its slots.                                   *)
LEMMA TDFlushKeeps ==
  ASSUME SearchInv, pc = "TDStep", NEW w \in Workers, UNCHANGED <<args, pc, counters, level>>,
         TDFlush(w)
  PROVE  SearchInv'
<1>1. /\ my[w].pc = "edges" /\ my[w].todo = {} /\ my[w].i = my[w].end
      /\ queue!Reserve(w) /\ my' = [my EXCEPT ![w].pc = "lastcopy"] /\ UNCHANGED <<tree, bitmaps, next_index>>
  BY DEF TDFlush, At
<1>2. QOK /\ QueueTypes /\ PushesOK
  BY DEF SearchInv, Steady, QOK, InTDStep
<1>3. /\ copy_start' = [copy_start EXCEPT ![w] = shared_in]
      /\ UNCHANGED <<shared, shared_out_start, shared_out_end, local_queue>>
  BY <1>1 DEF queue!Reserve
<1>4. QOK' /\ queue!Pending' = queue!Pending
  BY <1>1, <1>2, ReserveKeepsQueue
<1>5. Others(w) /\ TDWorker(w)' /\ my'[w].pc = "lastcopy" /\ my'[w].count = my[w].count
  BY <1>1, <1>3, TDWorkerTurns DEF args, tree
<1>6. Unpushed' = Unpushed /\ PushesOK'
  BY <1>1, <1>2, <1>4, <1>5, NobodyPushes DEF Pushing, Others
<1>7. \A x \in Workers \ {w} : copy_start'[x] = copy_start[x] /\ local_queue'[x] = local_queue[x]
  BY <1>2, <1>3 DEF QueueTypes
<1>8. copy_start'[w] # queue!NotFlushing /\ my'[w].pc \in {"copy", "lastcopy"}
  BY <1>2, <1>3, <1>5 DEF QueueTypes, queue!NotFlushing
<1> QED
  BY <1>1, <1>3, <1>4, <1>5, <1>6, <1>7, <1>8, TDQueueStep

(* FlushCopies in TDStep: what is pending is the same, now behind the        *)
(* window.                                                                   *)
LEMMA TDCopyKeeps ==
  ASSUME SearchInv, pc = "TDStep", NEW w \in Workers, UNCHANGED <<args, pc, counters, level>>,
         FlushCopies(w)
  PROVE  SearchInv'
<1>1. /\ my[w].pc \in {"copy", "lastcopy"} /\ queue!CopyOut(w)
      /\ my' = [my EXCEPT ![w].pc = IF @ = "copy" THEN "push" ELSE "done"]
      /\ UNCHANGED <<tree, bitmaps, next_index>>
  BY DEF FlushCopies, Copied
<1>2. QOK /\ QueueTypes /\ PushesOK /\ TDWorker(w) /\ my \in [Workers -> WorkerType]
  BY DEF SearchInv, Steady, QOK, InTDStep, Types
<1>3. /\ local_queue' = [local_queue EXCEPT ![w] = <<>>]
      /\ copy_start' = [copy_start EXCEPT ![w] = queue!NotFlushing]
      /\ UNCHANGED <<shared_in, shared_out_start, shared_out_end>>
  BY <1>1 DEF queue!CopyOut
<1>4. QOK' /\ queue!Pending' = queue!Pending /\ \A i \in 0 .. shared_out_end - 1 : shared'[i] = shared[i]
  BY <1>1, <1>2, CopyKeepsQueue
<1> DEFINE label == IF my[w].pc = "copy" THEN "push" ELSE "done"
<1>5. my' = [my EXCEPT ![w].pc = label]
  BY <1>1, <1>2
<1>6. label \in {"edges", "push", "copy", "lastcopy", "done"} /\ (label = "push" <=> my[w].pc = "copy")
      /\ label \in {"push", "done"} /\ (label = "done" => my[w].i = my[w].end /\ my[w].todo = {})
  BY <1>1, <1>2 DEF TDWorker
<1> HIDE DEF label
<1>7. Others(w) /\ TDWorker(w)' /\ my'[w].pc = label /\ my'[w].count = my[w].count /\ my'[w].v = my[w].v
  BY <1>1, <1>3, <1>4, <1>5, <1>6, TDWorkerTurns DEF args, tree
<1>8. Unpushed' = Unpushed /\ PushesOK'
  BY <1>1, <1>2, <1>4, <1>6, <1>7, NobodyPushes DEF Pushing, Others
<1>9. \A x \in Workers \ {w} : copy_start'[x] = copy_start[x] /\ local_queue'[x] = local_queue[x]
  BY <1>2, <1>3 DEF QueueTypes
<1>10. copy_start'[w] = queue!NotFlushing /\ my'[w].pc \in {"push", "done"} /\ local_queue'[w] = <<>>
  BY <1>2, <1>3, <1>6, <1>7 DEF QueueTypes
<1> QED
  BY <1>1, <1>3, <1>4, <1>7, <1>8, <1>9, <1>10, TDQueueStep

--------------------------------------------------------------------------------
(* Main between the regions.                                                 *)

(* A step that does not touch the queue keeps what the queue keeps.          *)
LEMMA QueueFrame ==
  ASSUME QOK, UNCHANGED queue_vars
  PROVE  /\ QOK' /\ queue!Pending' = queue!Pending /\ queue!Window' = queue!Window
<1> USE DEF queue_vars
<1>1. queue!Written' = queue!Written /\ queue!Pending' = queue!Pending /\ queue!Window' = queue!Window
      /\ \A t \in Workers : queue!Reserved(t)' = queue!Reserved(t)
  BY DEF queue!Written, queue!Reserved, queue!Pending, queue!Buffered, queue!Window, queue!WindowSlots
<1> QED
  BY <1>1 DEF QOK, QueueTypes, queue!Slots, OnePlaceEach, queue!FlushesAreDisjoint

(* No buffer is in use outside the regions that push, nor when all workers   *)
(* are done.                                                                 *)
LEMMA BuffersAreIdle ==
  ASSUME SearchInv, pc \notin {"TDStep", "BitmapToQueue"} \/ \A w \in Workers : my[w].pc = "done"
  PROVE  \A w \in Workers : copy_start[w] = queue!NotFlushing /\ local_queue[w] = <<>>
  BY DEF SearchInv, BuffersMatch

(* Outside the regions that push, nothing waits behind the window.           *)
LEMMA NothingPending ==
  ASSUME SearchInv, pc \notin {"TDStep", "BitmapToQueue"}
  PROVE  queue!Pending = {}
<1>1. QueueTypes /\ shared_in = shared_out_end
  BY DEF SearchInv, Steady, QOK, WindowOK
<1>2. \A w \in Workers : 1 .. Len(local_queue[w]) = {}
  BY BuffersAreIdle
<1>3. \A i \in queue!Written : ~(i >= shared_out_end)
  BY <1>1, WrittenMeans DEF QueueTypes
<1> QED
  BY <1>1, <1>2, <1>3, PendingMeans DEF PendingParts

(* Main starts a region.                                                     *)
LEMMA ForkMeans ==
  ASSUME my' = [w \in Workers |-> NewWorker]
  PROVE  /\ my' \in [Workers -> WorkerType] /\ Reduce' = 0
         /\ \A w \in Workers : my'[w] = NewWorker
<1>1. NewWorker \in WorkerType
  BY NodesAreFinite DEF NewWorker, WorkerType, WorkerPCs
<1>2. my' \in [Workers -> WorkerType] /\ \A w \in Workers : my'[w] = NewWorker
  BY <1>1
<1>3. Reduce' = 0
  <2> DEFINE f == [w \in Workers |-> my'[w].count]
  <2>1. f \in [Workers -> Int] /\ \A w \in Workers : f[w] = 0
    BY <1>2 DEF NewWorker
  <2>2. Reduce' = SumFunction(f)
    BY DEF Reduce
  <2> HIDE DEF f
  <2>3. DOMAIN f = Workers /\ \A w \in Workers : f[w] \in Nat
    BY <2>1
  <2>4. SumFunction(f) = SumFunctionOnSet(f, Workers)
    BY <2>3 DEF SumFunction
  <2> QED
    BY <2>1, <2>2, <2>3, <2>4, SumIsNat, WorkersAreFinite
<1> QED
  BY <1>2, <1>3

(* Nothing is in the hands of workers that do not push.                      *)
LEMMA NobodyIsPushing ==
  ASSUME \A w \in Workers : ~Pushing(w)
  PROVE  Unpushed = {} /\ PushesOK
  BY DEF Unpushed, PushesOK

(* slide_window after all buffers are flushed: the window is what was        *)
(* pending.                                                                  *)
LEMMA SlideMeans ==
  ASSUME QOK, queue!slide_window, UNCHANGED depth, level' \in Nat, pc' # "BitmapToQueue",
         \A w \in Workers : copy_start[w] = queue!NotFlushing /\ local_queue[w] = <<>>,
         \A i \in 0 .. shared_out_end - 1 : shared[i] \in Visited /\ depth[shared[i]] <= level',
         \A y \in queue!Pending : y \in Visited /\ depth[y] <= level'
  PROVE  /\ QOK' /\ OlderOK' /\ queue!Window' = queue!Pending /\ shared_in' = shared_out_end'
         /\ UNCHANGED <<shared, shared_in, local_queue, copy_start>>
<1>1. /\ shared_out_end' = shared_in /\ UNCHANGED <<shared, shared_in, local_queue, copy_start>>
  BY DEF queue!slide_window
<1>2. QOK' /\ queue!Window' = queue!Pending
  BY SlideKeepsQueue
<1>3. QueueTypes
  BY DEF QOK
<1>4. ASSUME NEW i \in 0 .. shared_in - 1 PROVE shared[i] \in Visited /\ depth[shared[i]] <= level'
  <2>1. CASE i < shared_out_end
    BY <1>3, <2>1 DEF QueueTypes
  <2>2. CASE ~(i < shared_out_end)
    <3>1. \A t \in Workers : i \notin queue!Reserved(t)
      BY DEF queue!Reserved
    <3>2. i \in queue!Written /\ i >= shared_out_end
      BY <1>3, <2>2, <3>1, WrittenMeans DEF QueueTypes
    <3>3. shared[i] \in queue!Pending
      BY <1>3, <3>2, PendingMeans DEF PendingParts
    <3> QED
      BY <3>3
  <2> QED
    BY <2>1, <2>2
<1>5. Visited' = Visited
  BY DEF Visited
<1>6. OlderOK'
  BY <1>1, <1>4, <1>5 DEF OlderOK
<1> QED
  BY <1>1, <1>2, <1>6

(* The reduction of integers.                                                *)
LEMMA ReduceIsInt == ASSUME Types PROVE Reduce \in Int
<1> DEFINE f == [w \in Workers |-> my[w].count]
<1>1. f \in [Workers -> Int]
  BY DEF Types, WorkerType
<1>2. Reduce = SumFunction(f)
  BY DEF Reduce
<1> HIDE DEF f
<1> QED
  BY <1>1, <1>2, SumTypes, WorkersAreFinite

(* EndTopDown: the level of TDStep is the window.                            *)
LEMMA EndTopDownKeeps ==
  ASSUME SearchInv, UNCHANGED args, EndTopDown
  PROVE  SearchInv'
<1>1. /\ pc = "TDStep" /\ \A w \in Workers : my[w].pc = "done"
      /\ scout_count' = Reduce /\ queue!slide_window /\ level' = level + 1 /\ pc' = "while"
      /\ UNCHANGED <<tree, bitmaps, edges_to_check, awake_count, old_awake_count, bu_iters, next_index, my>>
  BY DEF EndTopDown, Joined
<1>2. Types /\ QOK /\ TreeOK /\ OlderOK /\ level \in Nat
  BY DEF SearchInv, Steady, Types
<1>3. \A w \in Workers : copy_start[w] = queue!NotFlushing /\ local_queue[w] = <<>>
  BY <1>1, BuffersAreIdle
<1>4. queue!Pending = LevelOf(level + 1)
  <2>1. Unpushed = {}
    BY <1>1, NobodyIsPushing DEF Pushing
  <2> QED
    BY <1>1, <2>1 DEF SearchInv, InTDStep
<1>5. \A y \in queue!Pending : y \in Visited /\ depth[y] <= level'
  BY <1>1, <1>2, <1>4 DEF LevelOf, Visited
<1>6. \A i \in 0 .. shared_out_end - 1 : shared[i] \in Visited /\ depth[shared[i]] <= level'
  <2>1. \A v \in Visited : depth[v] \in Nat
    BY <1>2 DEF Visited, Types
  <2> QED
    BY <1>1, <1>2, <2>1 DEF OlderOK
<1>7. /\ QOK' /\ OlderOK' /\ queue!Window' = queue!Pending /\ shared_in' = shared_out_end'
      /\ UNCHANGED <<shared, shared_in, local_queue, copy_start>>
  BY <1>1, <1>2, <1>3, <1>5, <1>6, SlideMeans DEF tree
<1>8. Types'
  BY <1>1, <1>2, ReduceIsInt DEF Types, args, tree, bitmaps
<1>9. TreeOK'
  <2>1. Visited' = Visited /\ \A v : Weight(v)' = Weight(v)
    BY <1>1 DEF Visited, tree, Weight, out_degree, args
  <2>2. \A v \in Visited : v \in Nodes /\ depth[v] \in Nat
    BY <1>2 DEF Visited, Types
  <2> QED
    BY <1>1, <1>2, <2>1, <2>2 DEF TreeOK, tree, bitmaps, args
<1>10. WindowOK'
  BY <1>1, <1>4, <1>7 DEF WindowOK, LevelOf, tree
<1>11. BuffersMatch'
  BY <1>1, <1>3, <1>7 DEF BuffersMatch
<1> QED
  BY <1>1, <1>7, <1>8, <1>9, <1>10, <1>11 DEF SearchInv, Steady

(* A level is left only when its edges are settled.                          *)
LEMMA TDLevelIsOver ==
  ASSUME SearchInv, Joined("TDStep")
  PROVE  LevelOf(level) # {} /\ \A u \in LevelOf(level) : out_neigh[u] \subseteq Visited
<1>1. pc = "TDStep" /\ \A w \in Workers : my[w].pc = "done" /\ TDWorker(w) /\ my[w] \in WorkerType
  BY DEF Joined, SearchInv, InTDStep, Types
<1>2. queue!Window = LevelOf(level) /\ shared_out_start < shared_out_end /\ QueueTypes
  BY <1>1 DEF SearchInv, Steady, QOK, WindowOK
<1>3. shared_out_start \in queue!WindowSlots
  BY <1>2 DEF queue!WindowSlots, QueueTypes
<1>4. ASSUME NEW u \in LevelOf(level), NEW v \in out_neigh[u] PROVE v \in Visited
  <2>1. PICK i \in queue!WindowSlots : u = shared[i]
    BY <1>2 DEF queue!Window
  <2>2. i \in Int /\ shared_out_start <= i /\ i < shared_out_end /\ queue!size \in Nat
        /\ i - shared_out_start \in 0 .. queue!size - 1 /\ shared_out_start + (i - shared_out_start) = i
    BY <1>2 DEF queue!WindowSlots, queue!size, QueueTypes
  <2>3. PICK w \in Workers : Share(w).begin <= i - shared_out_start /\ i - shared_out_start < Share(w).end
    BY <2>2, RangesCover DEF Share
  <2>4. my[w].i = Share(w).end /\ my[w].todo = {} /\ Share(w).end \in Nat /\ Share(w).begin \in Nat
    BY <1>1, <1>2, ShareFacts DEF TDWorker
  <2>5. i - shared_out_start \in Share(w).begin .. my[w].i - 1
    BY <2>2, <2>3, <2>4
  <2> QED
    BY <1>1, <2>1, <2>2, <2>4, <2>5 DEF TDWorker
<1> QED
  BY <1>2, <1>3, <1>4 DEF queue!Window

(* GoTopDown: main opens TDStep.                                             *)
LEMMA GoTopDownKeeps ==
  ASSUME SearchInv, UNCHANGED args, GoTopDown
  PROVE  SearchInv'
<1>1. /\ pc = "while" /\ ~queue!empty /\ edges_to_check' = edges_to_check - scout_count
      /\ pc' = "TDStep" /\ my' = [w \in Workers |-> NewWorker]
      /\ UNCHANGED <<tree, queue_vars, bitmaps, scout_count, awake_count, old_awake_count, bu_iters, next_index, level>>
  BY DEF GoTopDown, Fork
<1>2. Types /\ QOK /\ QueueTypes /\ TreeOK /\ OlderOK /\ WindowOK /\ level \in Nat
  BY DEF SearchInv, Steady, Types, QOK
<1>3. /\ my' \in [Workers -> WorkerType] /\ Reduce' = 0
      /\ \A w \in Workers : my'[w] = NewWorker
  BY <1>1, ForkMeans
<1>4. \A w \in Workers : copy_start[w] = queue!NotFlushing /\ local_queue[w] = <<>>
  BY <1>1, BuffersAreIdle
<1>5. QOK' /\ queue!Pending' = {} /\ queue!Window' = queue!Window
  BY <1>1, <1>2, QueueFrame, NothingPending
<1>6. Types'
  BY <1>1, <1>2, <1>3 DEF Types, args, tree, bitmaps, Regions
<1>7. \A v \in Visited : v \in Nodes /\ depth[v] \in Nat /\ depth[v] <= level
  BY <1>1, <1>2 DEF Visited, Types, TreeOK
<1>8. TreeOK'
  <2>1. Visited' = Visited /\ \A v : Weight(v)' = Weight(v)
    BY <1>1 DEF Visited, tree, Weight, out_degree, args
  <2> QED
    BY <1>1, <1>2, <1>7, <2>1 DEF TreeOK, tree, bitmaps, args
<1>9. OlderOK' /\ WindowOK'
  <2>1. Visited' = Visited /\ \A k : LevelOf(k)' = LevelOf(k)
    BY <1>1 DEF Visited, LevelOf, tree
  <2>2. OlderOK'
    BY <1>1, <1>2, <2>1 DEF OlderOK, tree, queue_vars
  <2>3. shared_out_start < shared_out_end
    BY <1>1, <1>2 DEF queue!empty, QueueTypes
  <2>4. WindowOK'
    BY <1>1, <1>2, <1>5, <2>1, <2>3 DEF WindowOK, queue_vars
  <2> QED
    BY <2>2, <2>4
<1>10. BuffersMatch'
  BY <1>1, <1>3, <1>4 DEF BuffersMatch, queue_vars, NewWorker
<1>11. InTDStep'
  <2>1. \A w \in Workers : TDWorker(w)' /\ ~Pushing(w)'
    BY <1>3 DEF TDWorker, NewWorker, Pushing
  <2>2. Unpushed' = {} /\ PushesOK'
    BY <2>1 DEF Unpushed, PushesOK
  <2>3. LevelOf(level + 1)' = {}
    BY <1>1, <1>2, <1>7 DEF LevelOf, Visited, tree
  <2>4. SumFunction([v \in LevelOf(level + 1) |-> Weight(v)])' = 0
    <3> DEFINE f == [v \in {} |-> Weight(v)']
    <3>1. SumFunction([v \in LevelOf(level + 1) |-> Weight(v)])' = SumFunction(f)
      BY <2>3
    <3>2. DOMAIN f = {}
      OBVIOUS
    <3> HIDE DEF f
    <3>3. SumFunction(f) = SumFunctionOnSet(f, {})
      BY <3>2 DEF SumFunction
    <3> QED
      BY <3>1, <3>3, SumEmpty
  <2> QED
    BY <1>3, <1>5, <2>1, <2>2, <2>3, <2>4 DEF InTDStep
<1> QED
  BY <1>1, <1>5, <1>6, <1>8, <1>9, <1>10, <1>11 DEF SearchInv, Steady

(* GoBottomUp: main opens QueueToBitmap.                                     *)
LEMMA GoBottomUpKeeps ==
  ASSUME SearchInv, UNCHANGED args, GoBottomUp
  PROVE  SearchInv'
<1>1. /\ pc = "while" /\ ~queue!empty
      /\ pc' = "QueueToBitmap" /\ my' = [w \in Workers |-> NewWorker]
      /\ UNCHANGED <<tree, queue_vars, bitmaps, counters, next_index, level>>
  BY DEF GoBottomUp, Fork
<1>2. Types /\ QOK /\ QueueTypes /\ TreeOK /\ OlderOK /\ WindowOK /\ level \in Nat
  BY DEF SearchInv, Steady, Types, QOK
<1>3. /\ my' \in [Workers -> WorkerType]
      /\ \A w \in Workers : my'[w] = NewWorker
  BY <1>1, ForkMeans
<1>4. \A w \in Workers : copy_start[w] = queue!NotFlushing /\ local_queue[w] = <<>>
  BY <1>1, BuffersAreIdle
<1>5. QOK' /\ queue!Window' = queue!Window
  BY <1>1, <1>2, QueueFrame
<1>6. Types'
  BY <1>1, <1>2, <1>3 DEF Types, args, tree, bitmaps, counters, Regions
<1>7. Visited' = Visited /\ (\A v : Weight(v)' = Weight(v)) /\ \A k : LevelOf(k)' = LevelOf(k)
  BY <1>1 DEF Visited, LevelOf, tree, Weight, out_degree, args
<1>8. TreeOK'
  BY <1>1, <1>2, <1>7 DEF TreeOK, tree, bitmaps, args
<1>9. OlderOK'
  BY <1>1, <1>2, <1>7 DEF OlderOK, tree, queue_vars
<1>10. WindowOK'
  <2>1. shared_out_start < shared_out_end
    BY <1>1, <1>2 DEF queue!empty, QueueTypes
  <2> QED
    BY <1>1, <1>2, <1>5, <1>7, <2>1 DEF WindowOK, queue_vars
<1>11. BuffersMatch'
  BY <1>1, <1>3, <1>4 DEF BuffersMatch, queue_vars, NewWorker
<1>12. InQueueToBitmap'
  BY <1>3 DEF InQueueToBitmap, QBWorker, NewWorker
<1> QED
  BY <1>1, <1>5, <1>6, <1>8, <1>9, <1>10, <1>11, <1>12 DEF SearchInv, Steady

(* GoCleanup: the queue is empty and the search over.                        *)
LEMMA GoCleanupKeeps ==
  ASSUME SearchInv, UNCHANGED args, GoCleanup
  PROVE  SearchInv'
<1>1. /\ pc = "while" /\ queue!empty
      /\ pc' = "Cleanup" /\ my' = [w \in Workers |-> NewWorker]
      /\ UNCHANGED <<tree, queue_vars, bitmaps, counters, next_index, level>>
  BY DEF GoCleanup, Fork
<1>2. Types /\ QOK /\ QueueTypes /\ TreeOK /\ OlderOK /\ WindowOK /\ level \in Nat
  BY DEF SearchInv, Steady, Types, QOK
<1>3. /\ my' \in [Workers -> WorkerType]
      /\ \A w \in Workers : my'[w] = NewWorker
  BY <1>1, ForkMeans
<1>4. \A w \in Workers : copy_start[w] = queue!NotFlushing /\ local_queue[w] = <<>>
  BY <1>1, BuffersAreIdle
<1>5. QOK' /\ queue!Window' = queue!Window
  BY <1>1, <1>2, QueueFrame
<1>6. Types'
  BY <1>1, <1>2, <1>3 DEF Types, args, tree, bitmaps, counters, Regions
<1>7. Visited' = Visited /\ (\A v : Weight(v)' = Weight(v)) /\ \A k : LevelOf(k)' = LevelOf(k)
  BY <1>1 DEF Visited, LevelOf, tree, Weight, out_degree, args
<1>8. TreeOK'
  BY <1>1, <1>2, <1>7 DEF TreeOK, tree, bitmaps, args
<1>9. OlderOK'
  BY <1>1, <1>2, <1>7 DEF OlderOK, tree, queue_vars
<1>10. WindowOK'
  <2>1. queue!Window = {}
    BY <1>1, <1>2 DEF queue!empty, QueueTypes, queue!Window, queue!WindowSlots
  <2> QED
    BY <1>1, <1>2, <1>5, <1>7, <2>1 DEF WindowOK, queue_vars
<1>11. BuffersMatch'
  BY <1>1, <1>3, <1>4 DEF BuffersMatch, queue_vars, NewWorker
<1>12. InCleanup'
  BY <1>3 DEF InCleanup, NewWorker
<1> QED
  BY <1>1, <1>5, <1>6, <1>8, <1>9, <1>10, <1>11, <1>12 DEF SearchInv, Steady

(* Start: the source is the tree and the window.                             *)
LEMMA StartKeeps ==
  ASSUME SearchInv, UNCHANGED args, Start
  PROVE  SearchInv'
<1>1. /\ pc = "InitParent" /\ \A w \in Workers : my[w].pc = "done"
      /\ parent' = [parent EXCEPT ![source] = source] /\ depth' = [depth EXCEPT ![source] = 0]
      /\ queue!push_back_and_slide(source) /\ front' = {} /\ curr' = {}
      /\ edges_to_check' = num_edges_directed /\ scout_count' = out_degree(source) /\ pc' = "while"
      /\ UNCHANGED <<awake_count, old_awake_count, bu_iters, next_index, my, level>>
  BY DEF Start, Joined
<1>2. Types /\ QOK /\ QueueTypes /\ TreeOK /\ InInitParent /\ source \in Nodes
  BY <1>1 DEF SearchInv, Steady, Types, QOK
<1>3. \A w \in Workers : copy_start[w] = queue!NotFlushing /\ local_queue[w] = <<>>
  BY <1>1, BuffersAreIdle
<1>4. /\ QOK' /\ queue!Window' = {source} /\ UNCHANGED <<local_queue, copy_start>>
      /\ shared_in' = 1 /\ shared_out_start' = 0 /\ shared_out_end' = 1 /\ shared'[0] = source
  BY <1>1, <1>2, <1>3, FirstPushKeepsQueue DEF InInitParent, queue!push_back_and_slide, queue!PushAndSlide
<1>5. \A v \in Nodes : depth[v] = -1 /\ parent[v] = -Weight(v) /\ Weight(v)' = Weight(v) /\ Weight(v) \in Nat \ {0}
  <2>1. \A v \in Nodes : parent[v] = -Weight(v)
    BY <1>1, <1>2, RangesPartition DEF InInitParent
  <2> QED
    BY <1>1, <1>2, <2>1, WeightIsPositive DEF TreeOK, Types, Weight, out_degree, args
<1>6. /\ parent'[source] = source /\ depth'[source] = 0 /\ level = 0 /\ 0 # -1
      /\ \A v \in Nodes \ {source} : parent'[v] = -Weight(v) /\ parent'[v] < 0 /\ depth'[v] = -1
  BY <1>1, <1>2, <1>5 DEF Types, TreeOK
<1>7. Types'
  <2>1. edges_to_check' \in Int /\ scout_count' \in Int
    <3> DEFINE f == [n \in Nodes |-> out_degree(n)]
    <3>1. (\A n \in Nodes : out_degree(n) \in Nat) /\ f \in [Nodes -> Int]
      BY <1>2, WeightIsPositive DEF Types
    <3>2. edges_to_check' = SumFunction(f)
      BY <1>1 DEF num_edges_directed
    <3> HIDE DEF f
    <3> QED
      BY <1>1, <1>2, <3>1, <3>2, SumTypes, NodesAreFinite
  <2>2. parent' \in [Nodes -> Int] /\ depth' \in [Nodes -> Nat \cup {-1}]
    BY <1>1, <1>2, NodesAreFinite DEF Types
  <2> QED
    BY <1>1, <1>2, <2>1, <2>2 DEF Types, args
<1>8. TreeOK'
  <2>1. Visited' = {source}
    BY <1>2, <1>6 DEF Visited
  <2> QED
    BY <1>1, <1>2, <1>5, <1>6, <2>1 DEF TreeOK, args
<1>9. OlderOK' /\ WindowOK'
  <2>1. Visited' = {source} /\ LevelOf(level)' = {source}
    BY <1>1, <1>2, <1>6 DEF Visited, LevelOf
  <2> QED
    BY <1>1, <1>4, <1>6, <2>1 DEF OlderOK, WindowOK
<1>10. BuffersMatch'
  BY <1>1, <1>3, <1>4 DEF BuffersMatch
<1> QED
  BY <1>1, <1>4, <1>7, <1>8, <1>9, <1>10 DEF SearchInv, Steady

(* Finish: no weight is left in parent.                                      *)
LEMMA FinishKeeps ==
  ASSUME SearchInv, UNCHANGED args, Finish
  PROVE  SearchInv'
<1>1. /\ pc = "Cleanup" /\ pc' = "done" /\ \A w \in Workers : my[w].pc = "done"
      /\ UNCHANGED <<tree, queue_vars, bitmaps, counters, next_index, my, level>>
  BY DEF Finish, Joined
<1>2. Types /\ QOK /\ QueueTypes /\ TreeOK /\ OlderOK /\ WindowOK /\ InCleanup
  BY <1>1 DEF SearchInv, Steady, Types, QOK
<1>3. \A w \in Workers : copy_start[w] = queue!NotFlushing /\ local_queue[w] = <<>>
  BY <1>1, BuffersAreIdle
<1>4. QOK' /\ queue!Window' = queue!Window
  BY <1>1, <1>2, QueueFrame
<1>5. Types'
  BY <1>1, <1>2 DEF Types, args, tree, bitmaps, counters
<1>6. Visited' = Visited /\ (\A v : Weight(v)' = Weight(v)) /\ \A k : LevelOf(k)' = LevelOf(k)
  BY <1>1 DEF Visited, LevelOf, tree, Weight, out_degree, args
<1>7. TreeOK'
  BY <1>1, <1>2, <1>6 DEF TreeOK, tree, bitmaps, args
<1>8. OlderOK' /\ WindowOK'
  BY <1>1, <1>2, <1>4, <1>6 DEF OlderOK, WindowOK, tree, queue_vars
<1>9. BuffersMatch'
  BY <1>1, <1>3 DEF BuffersMatch, queue_vars
<1>10. \A v \in Nodes : parent'[v] >= -1
  BY <1>1, <1>2, RangesPartition DEF InCleanup, tree
<1> QED
  BY <1>1, <1>4, <1>5, <1>7, <1>8, <1>9, <1>10 DEF SearchInv, Steady

--------------------------------------------------------------------------------
(* InitParent, Cleanup and QueueToBitmap.                                    *)

(* InitParentWorker: the worker's range gets its weights.                    *)
LEMMA InitParentKeeps ==
  ASSUME SearchInv, NEW w \in Workers, UNCHANGED <<args, pc, counters, level>>, InitParentWorker(w)
  PROVE  SearchInv'
<1>1. /\ pc = "InitParent" /\ my[w].pc = "begin"
      /\ parent' = [n \in Nodes |-> IF n \notin Range_(w) THEN parent[n]
                                    ELSE IF out_degree(n) # 0 THEN -out_degree(n) ELSE -1]
      /\ my' = [my EXCEPT ![w].pc = "done"]
      /\ UNCHANGED <<depth, queue_vars, bitmaps, next_index>>
  BY DEF InitParentWorker, At
<1>2. Types /\ QOK /\ TreeOK /\ OlderOK /\ WindowOK /\ BuffersMatch /\ InInitParent /\ my \in [Workers -> WorkerType]
  BY <1>1 DEF SearchInv, Steady, Types, QOK
<1>3. Others(w) /\ my'[w].pc = "done"
  BY <1>1, <1>2 DEF Others, WorkerType, WorkerPCs
<1>4. \A v \in Nodes : out_degree(v) \in Nat /\ Weight(v)' = Weight(v)
  BY <1>2, WeightIsPositive DEF Types, Weight, out_degree, args
<1>5. \A v \in Nodes : parent'[v] = IF v \in Range_(w) THEN -Weight(v) ELSE parent[v]
  BY <1>1 DEF Weight
<1>6. parent' \in [Nodes -> Int]
  BY <1>1, <1>2, <1>4 DEF Types
<1>7. Types'
  BY <1>1, <1>2, <1>3, <1>6 DEF Types, args, counters, bitmaps, Others
<1>8. QOK' /\ queue!Window' = queue!Window
  BY <1>1, <1>2, QueueFrame
<1>9. Visited' = Visited /\ \A k : LevelOf(k)' = LevelOf(k)
  BY <1>1 DEF Visited, LevelOf
<1>10. TreeOK' /\ OlderOK' /\ WindowOK'
  BY <1>1, <1>2, <1>8, <1>9 DEF TreeOK, OlderOK, WindowOK, queue_vars, bitmaps
<1>11. BuffersMatch'
  <2>1. \A x \in Workers : copy_start'[x] = copy_start[x] /\ local_queue'[x] = local_queue[x]
    BY <1>1 DEF queue_vars
  <2>2. copy_start[w] = queue!NotFlushing /\ local_queue[w] = <<>>
    BY <1>1, <1>2 DEF BuffersMatch
  <2> QED
    BY <1>1, <1>2, <1>3, <2>1, <2>2, BufferWorkersStay DEF Others
<1>12. InInitParent'
  <2>1. ASSUME NEW x \in Workers
        PROVE  /\ my'[x].pc \in {"begin", "done"}
               /\ my'[x].pc = "done" => \A v \in Range_(x) : parent'[v] = -Weight(v)'
    <3>1. \A v \in Range_(x) : v \in Nodes /\ (v \in Range_(w) => x = w)
      BY RangesPartition
    <3> QED
      BY <1>2, <1>3, <1>4, <1>5, <3>1 DEF InInitParent, Others
  <2> QED
    BY <1>1, <1>2, <2>1 DEF InInitParent, queue_vars, Range_, StaticRange
<1> QED
  BY <1>1, <1>7, <1>8, <1>10, <1>11, <1>12 DEF SearchInv, Steady

(* CleanupParentWorker: the weights of the range are overwritten.            *)
LEMMA CleanupParentKeeps ==
  ASSUME SearchInv, NEW w \in Workers, UNCHANGED <<args, pc, counters, level>>, CleanupParentWorker(w)
  PROVE  SearchInv'
<1>1. /\ pc = "Cleanup" /\ my[w].pc = "begin"
      /\ parent' = [n \in Nodes |-> IF n \in Range_(w) /\ parent[n] < -1 THEN -1 ELSE parent[n]]
      /\ my' = [my EXCEPT ![w].pc = "done"]
      /\ UNCHANGED <<depth, queue_vars, bitmaps, next_index>>
  BY DEF CleanupParentWorker, At
<1>2. Types /\ QOK /\ TreeOK /\ OlderOK /\ WindowOK /\ BuffersMatch /\ InCleanup /\ my \in [Workers -> WorkerType]
  BY <1>1 DEF SearchInv, Steady, Types, QOK
<1>3. Others(w) /\ my'[w].pc = "done"
  BY <1>1, <1>2 DEF Others, WorkerType, WorkerPCs
<1>4. \A v \in Nodes : parent'[v] = IF v \in Range_(w) /\ parent[v] < -1 THEN -1 ELSE parent[v]
  BY <1>1
<1>5. parent' \in [Nodes -> Int] /\ parent \in [Nodes -> Int] /\ Nodes \subseteq Nat
  BY <1>1, <1>2, NodesAreFinite DEF Types
<1>6. Types'
  BY <1>1, <1>2, <1>3, <1>5 DEF Types, args, counters, bitmaps, Others
<1>7. QOK' /\ queue!Window' = queue!Window
  BY <1>1, <1>2, QueueFrame
<1>8. Visited' = Visited /\ \A k : LevelOf(k)' = LevelOf(k)
  BY <1>1 DEF Visited, LevelOf
<1>9. TreeOK'
  <2>1. ASSUME NEW v \in Nodes
        PROVE  IF depth'[v] = -1 THEN parent'[v] < 0 ELSE parent'[v] \in Nodes
    <3>1. IF depth[v] = -1 THEN parent[v] < 0 ELSE parent[v] \in Nodes
      BY <1>1, <1>2 DEF TreeOK
    <3>2. parent[v] \in Int /\ parent'[v] \in Int
      BY <1>5
    <3> QED
      BY <1>1, <1>4, <1>5, <3>1, <3>2
  <2> QED
    BY <1>1, <1>2, <1>8, <2>1 DEF TreeOK, args, bitmaps
<1>10. OlderOK' /\ WindowOK'
  BY <1>1, <1>2, <1>7, <1>8 DEF OlderOK, WindowOK, queue_vars
<1>11. BuffersMatch'
  <2>1. \A x \in Workers : copy_start'[x] = copy_start[x] /\ local_queue'[x] = local_queue[x]
    BY <1>1 DEF queue_vars
  <2>2. copy_start[w] = queue!NotFlushing /\ local_queue[w] = <<>>
    BY <1>1, <1>2 DEF BuffersMatch
  <2> QED
    BY <1>1, <1>2, <1>3, <2>1, <2>2, BufferWorkersStay DEF Others
<1>12. InCleanup'
  <2>1. ASSUME NEW x \in Workers
        PROVE  /\ my'[x].pc \in {"begin", "done"}
               /\ my'[x].pc = "done" => \A v \in Range_(x) : parent'[v] >= -1
    <3>1. \A v \in Range_(x) : v \in Nodes /\ (v \in Range_(w) => x = w)
      BY RangesPartition
    <3>2. ASSUME NEW v \in Range_(w) PROVE parent'[v] >= -1
      <4>1. v \in Nodes
        BY RangesPartition
      <4>2. parent[v] \in Int /\ parent'[v] = IF parent[v] < -1 THEN -1 ELSE parent[v]
        BY <1>4, <1>5, <4>1
      <4> QED
        BY <4>2
    <3> QED
      BY <1>2, <1>3, <1>4, <3>1, <3>2 DEF InCleanup, Others
  <2> QED
    BY <2>1 DEF InCleanup, Range_, StaticRange
<1> QED
  BY <1>1, <1>6, <1>7, <1>9, <1>10, <1>11, <1>12 DEF SearchInv, Steady

(* A step of a worker of QueueToBitmap: front may get vertices of the        *)
(* window.                                                                   *)
LEMMA QBLocalStep ==
  ASSUME SearchInv, pc = "QueueToBitmap", NEW w \in Workers,
         UNCHANGED <<args, pc, counters, level, tree, queue_vars, curr, next_index>>,
         Others(w), QBWorker(w)', my'[w].pc # "begin",
         front \subseteq front', \A v \in front' : v \in front \/ v \in LevelOf(level)
  PROVE  SearchInv'
<1>1. Types /\ QOK /\ QueueTypes /\ TreeOK /\ OlderOK /\ WindowOK /\ BuffersMatch /\ InQueueToBitmap /\ level \in Nat
  BY DEF SearchInv, Steady, Types, QOK
<1>2. \A v \in LevelOf(level) : v \in Nodes /\ v \in Visited /\ depth[v] = level
  BY <1>1 DEF LevelOf, Visited
<1>3. Types'
  BY <1>1, <1>2 DEF Types, args, counters, tree, Others
<1>4. QOK' /\ queue!Window' = queue!Window
  BY <1>1, QueueFrame
<1>5. Visited' = Visited /\ (\A v : Weight(v)' = Weight(v)) /\ \A k : LevelOf(k)' = LevelOf(k)
  BY DEF Visited, LevelOf, tree, Weight, out_degree, args
<1>6. TreeOK'
  <2>1. \A v \in front' : v \in Visited /\ depth[v] <= level
    BY <1>1, <1>2 DEF TreeOK
  <2> QED
    BY <1>1, <1>5, <2>1 DEF TreeOK, args, tree
<1>7. OlderOK' /\ WindowOK'
  BY <1>1, <1>4, <1>5 DEF OlderOK, WindowOK, queue_vars, tree
<1>8. BuffersMatch'
  <2>1. \A x \in Workers : copy_start'[x] = copy_start[x] /\ local_queue'[x] = local_queue[x]
    BY DEF queue_vars
  <2>2. copy_start[w] = queue!NotFlushing /\ local_queue[w] = <<>>
    BY <1>1 DEF BuffersMatch
  <2> QED
    BY <1>1, <2>1, <2>2, BufferWorkersStay DEF Others
<1>9. ASSUME NEW x \in Workers \ {w} PROVE QBWorker(x)'
  <2>1. QBWorker(x) /\ my'[x] = my[x] /\ Share(x)' = Share(x)
    BY <1>1 DEF InQueueToBitmap, Others, Share, queue!size, queue_vars
  <2> QED
    BY <2>1 DEF QBWorker, queue_vars
<1> QED
  BY <1>3, <1>4, <1>6, <1>7, <1>8, <1>9 DEF SearchInv, Steady, InQueueToBitmap

(* QBBegin: the worker takes its share of the window.                        *)
LEMMA QBBeginKeeps ==
  ASSUME SearchInv, NEW w \in Workers, UNCHANGED <<args, pc, counters, level>>, QBBegin(w)
  PROVE  SearchInv'
<1>1. /\ pc = "QueueToBitmap" /\ my[w].pc = "begin"
      /\ my' = [my EXCEPT ![w].i = Share(w).begin, ![w].end = Share(w).end, ![w].pc = "load"]
      /\ UNCHANGED <<tree, queue_vars, bitmaps, next_index>>
  BY DEF QBBegin, TakeRange, Share, At
<1>2. my \in [Workers -> WorkerType] /\ QueueTypes
  BY DEF SearchInv, Types, Steady, QOK
<1>3. /\ Share(w).begin \in Nat /\ Share(w).end \in Nat /\ Share(w).begin <= Share(w).end
  BY <1>2, ShareFacts
<1>4. Others(w)
  BY <1>1, <1>2, <1>3 DEF Others, WorkerType, WorkerPCs
<1>5. my'[w].pc = "load" /\ my'[w].i = Share(w).begin /\ my'[w].end = Share(w).end
  BY <1>1, <1>2 DEF WorkerType
<1>6. QBWorker(w)'
  <2>1. Share(w)' = Share(w) /\ Share(w).begin .. Share(w).begin - 1 = {}
    BY <1>1, <1>3 DEF Share, queue!size, queue_vars
  <2> QED
    BY <1>3, <1>5, <2>1 DEF QBWorker
<1> QED
  BY <1>1, <1>4, <1>5, <1>6, QBLocalStep DEF bitmaps

(* QBLoad: the worker loads a word of front, or is done.                     *)
LEMMA QBLoadKeeps ==
  ASSUME SearchInv, NEW w \in Workers, UNCHANGED <<args, pc, counters, level>>, QBLoad(w)
  PROVE  SearchInv'
<1> DEFINE u == shared[shared_out_start + my[w].i]
           word == bitmap!LoadWord(front, u)
<1>1. /\ pc = "QueueToBitmap" /\ my[w].pc = "load"
      /\ my' = IF my[w].i = my[w].end THEN [my EXCEPT ![w].pc = "done"]
               ELSE [my EXCEPT ![w].u = u, ![w].word = word, ![w].pc = "cas"]
      /\ UNCHANGED <<tree, queue_vars, bitmaps, next_index>>
  BY DEF QBLoad, At
<1>2. /\ my \in [Workers -> WorkerType] /\ QueueTypes /\ QBWorker(w) /\ front \subseteq Nodes
      /\ Share(w)' = Share(w) /\ my[w].i \in Nat
  BY <1>1 DEF SearchInv, Types, Steady, QOK, InQueueToBitmap, Share, queue!size, queue_vars, WorkerType
<1>3. CASE my[w].i = my[w].end
  <2>1. Others(w) /\ my'[w].pc = "done" /\ my'[w].i = my[w].i /\ my'[w].end = my[w].end
    BY <1>1, <1>2, <1>3 DEF Others, WorkerType, WorkerPCs
  <2>2. QBWorker(w)'
    BY <1>1, <1>2, <1>3, <2>1 DEF QBWorker, queue_vars, bitmaps
  <2> QED
    BY <1>1, <2>1, <2>2, QBLocalStep DEF bitmaps
<1>4. CASE my[w].i # my[w].end
  <2>1. my[w].i < my[w].end /\ Share(w).begin <= my[w].i /\ my[w].end = Share(w).end
    BY <1>1, <1>2, <1>4 DEF QBWorker, WorkerType
  <2>2. u \in Nodes /\ word \subseteq Nodes
    BY <1>2, <2>1, ShareIsInWindow DEF SearchInv, bitmap!LoadWord
  <2> HIDE DEF word
  <2>3. /\ Others(w) /\ my'[w].pc = "cas" /\ my'[w].i = my[w].i /\ my'[w].end = my[w].end /\ my'[w].u = u
    <3> HIDE DEF u
    <3> QED
      BY <1>1, <1>2, <1>4, <2>2 DEF Others, WorkerType, WorkerPCs
  <2>4. QBWorker(w)'
    BY <1>1, <1>2, <2>1, <2>3 DEF QBWorker, queue_vars, bitmaps
  <2> QED
    BY <1>1, <2>3, <2>4, QBLocalStep DEF bitmaps
<1> QED
  BY <1>3, <1>4

(* QBCas: the bit is set, and no bit set by others in between is lost.       *)
LEMMA QBCasKeeps ==
  ASSUME SearchInv, NEW w \in Workers, UNCHANGED <<args, pc, counters, level>>, QBCas(w)
  PROVE  SearchInv'
<1> DEFINE u == my[w].u
<1>1. /\ pc = "QueueToBitmap" /\ my[w].pc = "cas"
      /\ UNCHANGED <<tree, queue_vars, curr, next_index>>
  BY DEF QBCas, At
<1>2. /\ my \in [Workers -> WorkerType] /\ QueueTypes /\ QBWorker(w) /\ my[w].i \in Nat
      /\ Share(w)' = Share(w) /\ queue!Window = LevelOf(level)
      /\ UNCHANGED <<shared, shared_out_start, shared_out_end>>
  BY <1>1 DEF SearchInv, Types, Steady, QOK, WindowOK, InQueueToBitmap, Share, queue!size, queue_vars, WorkerType
<1>3. /\ my[w].i < my[w].end /\ Share(w).begin <= my[w].i /\ my[w].end = Share(w).end
      /\ u = shared[shared_out_start + my[w].i]
      /\ \A j \in Share(w).begin .. my[w].i - 1 : shared[shared_out_start + j] \in front
      /\ Share(w).begin \in Nat /\ Share(w).end \in Nat
  BY <1>1, <1>2, ShareFacts DEF QBWorker
<1>4. u \in LevelOf(level)
  BY <1>2, <1>3, ShareIsInWindow DEF SearchInv
<1>5. CASE bitmap!LoadWord(front, u) # my[w].word
  <2>1. my' = [my EXCEPT ![w].pc = "load"] /\ UNCHANGED front
    BY <1>5 DEF QBCas
  <2>2. Others(w) /\ my'[w].pc = "load" /\ my'[w].i = my[w].i /\ my'[w].end = my[w].end
    BY <1>2, <2>1 DEF Others, WorkerType, WorkerPCs
  <2>3. QBWorker(w)'
    BY <1>2, <1>3, <2>1, <2>2 DEF QBWorker
  <2> QED
    BY <1>1, <2>1, <2>2, <2>3, QBLocalStep
<1>6. CASE bitmap!LoadWord(front, u) = my[w].word
  <2>1. /\ front' = bitmap!SetBitStore(front, u, my[w].word)
        /\ my' = [my EXCEPT ![w].i = @ + 1, ![w].pc = "load", ![w].word = {}]
    BY <1>6 DEF QBCas
  <2>2. front' = front \cup {u}
    BY <1>6, <2>1 DEF bitmap!SetBitStore, bitmap!StoreWord, bitmap!LoadWord
  <2>3. Others(w) /\ my'[w].pc = "load" /\ my'[w].i = my[w].i + 1 /\ my'[w].end = my[w].end
    <3> DEFINE m == [my[w] EXCEPT !.i = my[w].i + 1, !.pc = "load", !.word = {}]
    <3>1. my' = [my EXCEPT ![w] = m]
      BY <1>2, <2>1
    <3>2. {} \in SUBSET Nodes /\ my[w] \in WorkerType /\ my[w].i + 1 \in Nat
      BY <1>2
    <3>3. m \in WorkerType /\ m.pc = "load" /\ m.i = my[w].i + 1 /\ m.end = my[w].end
      BY <3>2 DEF WorkerType, WorkerPCs
    <3> HIDE DEF m
    <3> QED
      BY <3>1, <3>3, WorkerMoves DEF SearchInv
  <2>4. ASSUME NEW j \in Share(w).begin .. my'[w].i - 1 PROVE shared[shared_out_start + j] \in front'
    <3>1. CASE j = my[w].i
      BY <1>3, <2>2, <3>1
    <3>2. CASE j # my[w].i
      BY <1>2, <1>3, <2>2, <2>3, <3>2
    <3> QED
      BY <3>1, <3>2
  <2>5. QBWorker(w)'
    BY <1>2, <1>3, <2>3, <2>4 DEF QBWorker
  <2> QED
    BY <1>1, <1>4, <2>2, <2>3, <2>5, QBLocalStep
<1> QED
  BY <1>5, <1>6

--------------------------------------------------------------------------------
(* BUStep.                                                                   *)

(* The window is in front once all workers have set their share of it.       *)
LEMMA WindowIsInFront ==
  ASSUME SearchInv, Joined("QueueToBitmap")
  PROVE  LevelOf(level) # {} /\ LevelOf(level) \subseteq front
<1>1. pc = "QueueToBitmap" /\ \A w \in Workers : my[w].pc = "done" /\ QBWorker(w) /\ my[w] \in WorkerType
  BY DEF Joined, SearchInv, InQueueToBitmap, Types
<1>2. queue!Window = LevelOf(level) /\ shared_out_start < shared_out_end /\ QueueTypes
  BY <1>1 DEF SearchInv, Steady, QOK, WindowOK
<1>3. shared_out_start \in queue!WindowSlots
  BY <1>2 DEF queue!WindowSlots, QueueTypes
<1>4. ASSUME NEW u \in LevelOf(level) PROVE u \in front
  <2>1. PICK i \in queue!WindowSlots : u = shared[i]
    BY <1>2 DEF queue!Window
  <2>2. i \in Int /\ shared_out_start <= i /\ i < shared_out_end /\ queue!size \in Nat
        /\ i - shared_out_start \in 0 .. queue!size - 1 /\ shared_out_start + (i - shared_out_start) = i
    BY <1>2 DEF queue!WindowSlots, queue!size, QueueTypes
  <2>3. PICK w \in Workers : Share(w).begin <= i - shared_out_start /\ i - shared_out_start < Share(w).end
    BY <2>2, RangesCover DEF Share
  <2>4. my[w].i = Share(w).end /\ Share(w).end \in Nat /\ Share(w).begin \in Nat
    BY <1>1, <1>2, ShareFacts DEF QBWorker
  <2>5. i - shared_out_start \in Share(w).begin .. my[w].i - 1
    BY <2>2, <2>3, <2>4
  <2> QED
    BY <1>1, <2>1, <2>2, <2>4, <2>5 DEF QBWorker
<1> QED
  BY <1>2, <1>3, <1>4 DEF queue!Window

(* Between regions nothing is deeper than the level being expanded.          *)
LEMMA NoNextLevel ==
  ASSUME Types, TreeOK, pc \notin {"InitParent", "TDStep", "BUStep"}
  PROVE  LevelOf(level + 1) = {}
<1>1. \A v \in Visited : depth[v] <= level
  BY DEF TreeOK
<1>2. level \in Nat /\ depth \in [Nodes -> Nat \cup {-1}]
  BY DEF Types
<1>3. ASSUME NEW v \in Nodes, depth[v] = level + 1 PROVE FALSE
  <2>1. v \in Visited
    BY <1>2, <1>3 DEF Visited
  <2> QED
    BY <1>1, <1>2, <1>3, <2>1
<1> QED
  BY <1>3 DEF LevelOf

(* BUStep begins with an empty next.                                         *)
LEMMA BUBegins ==
  ASSUME \A w \in Workers : my'[w] = NewWorker, Reduce' = 0, next_index' = 0, curr' = {},
         LevelOf(level + 1)' = {}, (LevelOf(level) \subseteq front)', old_awake_count' > 0
  PROVE  InBUStep'
<1>1. num_nodes \in Nat /\ kChunk \in Nat \ {0}
  BY DOBFSAssumption
<1>2. next_index' % kChunk = 0
  BY <1>1
<1>3. \A w \in Workers : BUWorker(w)'
  BY <1>1 DEF BUWorker, NewWorker
<1>4. Cardinality(LevelOf(level + 1)') = 0
  BY FS_EmptySet
<1>5. \A v \in Nodes : ~(v < 0)
  BY NodesAreFinite
<1> QED
  BY <1>2, <1>3, <1>4, <1>5 DEF InBUStep, NewWorker

(* EnterBottomUp: front has the window, and the sweep starts.                *)
LEMMA EnterBottomUpKeeps ==
  ASSUME SearchInv, UNCHANGED args, EnterBottomUp
  PROVE  SearchInv'
<1>1. /\ pc = "QueueToBitmap" /\ Joined("QueueToBitmap")
      /\ awake_count' = queue!size /\ old_awake_count' = queue!size
      /\ queue!slide_window /\ bu_iters' = 0 /\ curr' = {} /\ next_index' = 0
      /\ pc' = "BUStep" /\ my' = [w \in Workers |-> NewWorker]
      /\ UNCHANGED <<tree, front, edges_to_check, scout_count, level>>
  BY DEF EnterBottomUp, Joined, Fork
<1>2. Types /\ QOK /\ QueueTypes /\ TreeOK /\ OlderOK /\ WindowOK /\ level \in Nat
  BY DEF SearchInv, Steady, Types, QOK
<1>3. \A w \in Workers : copy_start[w] = queue!NotFlushing /\ local_queue[w] = <<>>
  BY <1>1, BuffersAreIdle
<1>4. queue!size \in Nat /\ queue!size > 0
  BY <1>1, <1>2 DEF queue!size, QueueTypes, WindowOK
<1>5. \A i \in 0 .. shared_out_end - 1 : shared[i] \in Visited /\ depth[shared[i]] <= level'
  BY <1>1, <1>2 DEF OlderOK
<1>6. queue!Pending = {}
  BY <1>1, NothingPending
<1>7. /\ QOK' /\ OlderOK' /\ shared_in' = shared_out_end'
      /\ UNCHANGED <<shared, shared_in, local_queue, copy_start>>
  BY <1>1, <1>2, <1>3, <1>5, <1>6, SlideMeans DEF tree
<1>8. /\ my' \in [Workers -> WorkerType] /\ Reduce' = 0
      /\ \A w \in Workers : my'[w] = NewWorker
  BY <1>1, ForkMeans
<1>9. Types'
  BY <1>1, <1>2, <1>4, <1>8 DEF Types, args, tree, Regions
<1>10. Visited' = Visited /\ (\A v : Weight(v)' = Weight(v)) /\ \A k : LevelOf(k)' = LevelOf(k)
  BY <1>1 DEF Visited, LevelOf, tree, Weight, out_degree, args
<1>11. TreeOK'
  <2>1. \A v \in Visited : depth[v] \in Nat /\ depth[v] <= level
    BY <1>1, <1>2 DEF TreeOK, Visited, Types
  <2> QED
    BY <1>1, <1>2, <1>10, <2>1 DEF TreeOK, args, tree
<1>12. LevelOf(level) # {} /\ LevelOf(level) \subseteq front
  BY <1>1, WindowIsInFront
<1>13. WindowOK'
  BY <1>1, <1>7, <1>10, <1>12 DEF WindowOK
<1>14. BuffersMatch'
  BY <1>1, <1>3, <1>7, <1>8 DEF BuffersMatch, NewWorker
<1>15. InBUStep'
  BY <1>1, <1>2, <1>4, <1>8, <1>10, <1>12, NoNextLevel, BUBegins
<1> QED
  BY <1>1, <1>7, <1>9, <1>11, <1>13, <1>14, <1>15 DEF SearchInv, Steady

(* A step of a worker of BUStep that claims no vertex.                       *)
LEMMA BUFrame ==
  ASSUME SearchInv, pc = "BUStep", NEW w \in Workers,
         UNCHANGED <<args, pc, counters, level, tree, queue_vars, front>>,
         Others(w), curr' \subseteq Nodes, next_index' \in Nat, InBUStep'
  PROVE  SearchInv'
<1>1. Types /\ QOK /\ TreeOK /\ OlderOK /\ WindowOK /\ BuffersMatch
  BY DEF SearchInv, Steady
<1>2. Types'
  BY <1>1 DEF Types, args, counters, tree, Others
<1>3. QOK' /\ queue!Window' = queue!Window
  BY <1>1, QueueFrame
<1>4. Visited' = Visited /\ (\A v : Weight(v)' = Weight(v)) /\ \A k : LevelOf(k)' = LevelOf(k)
  BY DEF Visited, LevelOf, tree, Weight, out_degree, args
<1>5. TreeOK' /\ OlderOK' /\ WindowOK'
  BY <1>1, <1>3, <1>4 DEF TreeOK, OlderOK, WindowOK, args, tree, queue_vars
<1>6. BuffersMatch'
  <2>1. \A x \in Workers : copy_start'[x] = copy_start[x] /\ local_queue'[x] = local_queue[x]
    BY DEF queue_vars
  <2> QED
    BY <1>1, <2>1 DEF BuffersMatch
<1> QED
  BY <1>2, <1>3, <1>5, <1>6 DEF SearchInv, Steady

(* The vertices whose bits are about to be stored.                           *)
Storing == {my[w].i : w \in {x \in Workers : my[x].pc = "store"}}

(* Storing, as a condition.                                                  *)
LEMMA StoringMeans == \A y : y \in Storing <=> \E x \in Workers : my[x].pc = "store" /\ my[x].i = y
  BY DEF Storing

(* BUClaimChunk: the chunk is the worker's alone.                            *)
LEMMA BUClaimChunkKeeps ==
  ASSUME SearchInv, NEW w \in Workers, UNCHANGED <<args, pc, counters, level>>, BUClaimChunk(w)
  PROVE  SearchInv'
<1> DEFINE e == IF next_index + kChunk < num_nodes THEN next_index + kChunk ELSE num_nodes
<1>1. /\ pc = "BUStep" /\ my[w].pc \in {"begin", "vertex"} /\ my[w].i = my[w].end
      /\ next_index' = next_index + kChunk
      /\ my' = IF next_index >= num_nodes THEN [my EXCEPT ![w].pc = "done"]
               ELSE [my EXCEPT ![w].i = next_index, ![w].pc = "vertex", ![w].end = e]
      /\ UNCHANGED <<tree, queue_vars, bitmaps>>
  BY DEF BUClaimChunk
<1>2. /\ Types /\ InBUStep /\ my \in [Workers -> WorkerType] /\ next_index \in Nat
      /\ num_nodes \in Nat \ {0} /\ kChunk \in Nat \ {0}
      /\ \A x \in Workers : BUWorker(x) /\ my[x] \in WorkerType
      /\ next_index % kChunk = 0
  BY <1>1, DOBFSAssumption DEF SearchInv, Types, InBUStep
<1>3. /\ (next_index + kChunk) % kChunk = 0
      /\ \A v \in next_index .. next_index + kChunk - 1 : Chunk(v) = Chunk(next_index)
      /\ \A v \in 0 .. next_index - 1 : Chunk(v) # Chunk(next_index)
  BY <1>2, NextChunk
<1>4. e \in Nat /\ e <= num_nodes /\ e <= next_index + kChunk /\ (next_index < num_nodes => next_index < e)
      /\ \A v \in Nodes : v < next_index + kChunk => v < e
  BY <1>2 DEF Nodes
<1> HIDE DEF e
<1>5. /\ Others(w) /\ my'[w].count = my[w].count
      /\ IF next_index >= num_nodes
         THEN my'[w].pc = "done" /\ my'[w].i = my[w].i /\ my'[w].end = my[w].end
         ELSE my'[w].pc = "vertex" /\ my'[w].i = next_index /\ my'[w].end = e
  <2>1. CASE next_index >= num_nodes
    BY <1>1, <1>2, <2>1 DEF Others, WorkerType, WorkerPCs
  <2>2. CASE ~(next_index >= num_nodes)
    <3> DEFINE m == [my[w] EXCEPT !.i = next_index, !.pc = "vertex", !.end = e]
    <3>1. my' = [my EXCEPT ![w] = m]
      BY <1>1, <1>2, <2>2
    <3>2. /\ m \in WorkerType /\ m.pc = "vertex" /\ m.i = next_index /\ m.end = e
          /\ m.count = my[w].count
      <4>1. my[w] \in WorkerType /\ next_index \in Nat /\ e \in Nat
        BY <1>2, <1>4
      <4> QED
        BY <4>1 DEF WorkerType, WorkerPCs
    <3> HIDE DEF m
    <3> QED
      BY <1>2, <2>2, <3>1, <3>2, WorkerMoves
  <2> QED
    BY <2>1, <2>2
<1>6. ASSUME NEW x \in Workers PROVE BUWorker(x)'
  <2>1. CASE x # w
    <3>1. my'[x] = my[x] /\ BUWorker(x)
      BY <1>2, <1>5, <2>1 DEF Others
    <3>2. /\ my[x].end \in Nat /\ next_index <= next_index' /\ next_index' \in Nat
          /\ UNCHANGED <<depth, level, curr>>
      BY <1>1, <1>2 DEF WorkerType, tree, bitmaps
    <3> QED
      BY <1>2, <3>1, <3>2 DEF BUWorker, bitmap!LoadWord, Chunk
  <2>2. CASE x = w /\ next_index >= num_nodes
    <3>1. my[w].i \in Nat /\ my[w].end \in Nat /\ my[w].i = my[w].end /\ my[w].end <= num_nodes /\ my[w].count \in Nat
      BY <1>1, <1>2 DEF BUWorker, WorkerType
    <3>2. my[w].i .. my[w].end - 1 = {}
      BY <3>1
    <3> QED
      BY <1>1, <1>2, <1>5, <2>2, <3>1, <3>2 DEF BUWorker
  <2>3. CASE x = w /\ ~(next_index >= num_nodes)
    <3>1. my[w].count \in Nat
      BY <1>2 DEF BUWorker
    <3>2. \A v \in next_index .. e - 1 : Chunk(v) = Chunk(next_index)
      BY <1>2, <1>3, <1>4
    <3> QED
      BY <1>1, <1>2, <1>4, <1>5, <2>3, <3>1, <3>2 DEF BUWorker, Chunk
  <2> QED
    BY <2>1, <2>2, <2>3
<1>7. ASSUME NEW x \in Workers, NEW y \in Workers, x # y, my'[x].i < my'[x].end, my'[y].i < my'[y].end
      PROVE  Chunk(my'[x].i) # Chunk(my'[y].i)
  <2>1. ASSUME NEW z \in Workers, z # w, my[z].i < my[z].end PROVE my[z].i \in 0 .. next_index - 1
    BY <1>2, <2>1 DEF BUWorker, WorkerType
  <2>2. my[w].i = my[w].end /\ my[w].i \in Nat
    BY <1>1, <1>2 DEF WorkerType
  <2>3. \A z \in Workers \ {w} : my'[z] = my[z]
    BY <1>5 DEF Others
  <2>4. CASE x # w /\ y # w
    BY <1>2, <1>7, <2>3, <2>4 DEF InBUStep
  <2>5. CASE x = w
    BY <1>3, <1>5, <1>7, <2>1, <2>2, <2>3, <2>5
  <2>6. CASE y = w
    BY <1>3, <1>5, <1>7, <2>1, <2>2, <2>3, <2>6
  <2> QED
    BY <2>4, <2>5, <2>6
<1>8. ASSUME NEW v \in Nodes, v < next_index'
      PROVE  Settled(v)' \/ \E x \in Workers : my'[x].i <= v /\ v < my'[x].end
  <2>1. Settled(v)' <=> Settled(v)
    BY <1>1 DEF Settled, Visited, in_neigh, tree, bitmaps, args
  <2>2. CASE v < next_index
    <3>1. Settled(v) \/ \E x \in Workers : my[x].i <= v /\ v < my[x].end
      BY <1>2, <2>2 DEF InBUStep
    <3>2. ASSUME NEW x \in Workers, my[x].i <= v, v < my[x].end PROVE x # w
      BY <1>1, <1>2, <3>2, NodesAreFinite DEF WorkerType
    <3> QED
      BY <1>5, <2>1, <3>1, <3>2 DEF Others
  <2>3. CASE ~(v < next_index)
    <3>1. v \in Nat /\ v < num_nodes /\ next_index <= v
      BY <1>2, <2>3 DEF Nodes
    <3>2. v < e /\ ~(next_index >= num_nodes)
      BY <1>1, <1>2, <1>4, <1>8, <3>1
    <3> QED
      BY <1>5, <3>1, <3>2
  <2> QED
    BY <2>2, <2>3
<1>9. Storing' = Storing
  BY <1>1, <1>5 DEF Storing, Others
<1>10. InBUStep'
  <2>1. Reduce' = Reduce
    BY <1>5, ReduceDepends DEF Others
  <2>2. \A k : LevelOf(k)' = LevelOf(k)
    BY <1>1 DEF LevelOf, tree
  <2>3. next_index' % kChunk = 0 /\ old_awake_count' > 0
    BY <1>1, <1>2, <1>3 DEF InBUStep, counters
  <2>4. LevelOf(level)' \subseteq front' /\ curr' = LevelOf(level + 1)' \ Storing'
        /\ Reduce' = Cardinality(LevelOf(level + 1)')
    BY <1>1, <1>2, <1>9, <2>1, <2>2 DEF InBUStep, Storing, bitmaps
  <2> QED
    BY <1>6, <1>7, <1>8, <2>3, <2>4 DEF InBUStep, Storing, Chunk
<1> QED
  BY <1>1, <1>2, <1>5, <1>10, BUFrame DEF bitmaps, Types

(* A worker moves on inside its chunk.                                       *)
LEMMA BUMovesOn ==
  ASSUME SearchInv, pc = "BUStep", NEW w \in Workers, UNCHANGED <<args, counters, level, tree, front, next_index>>,
         Others(w), my[w].i < my[w].end, my'[w].i = my[w].i + 1, my'[w].end = my[w].end,
         my'[w].count = my[w].count, my'[w].pc = "vertex", Settled(my[w].i),
         \A x \in Workers \ {w} : my[x].pc = "store" => my[x].word = bitmap!LoadWord(curr', my[x].i),
         curr' = LevelOf(level + 1) \ Storing'
  PROVE  InBUStep'
<1>1. /\ InBUStep /\ \A x \in Workers : BUWorker(x) /\ my[x] \in WorkerType
  BY DEF SearchInv, Types, InBUStep
<1>2. my[w].i \in Nat /\ my[w].end \in Nat /\ my[w].count \in Nat
  BY <1>1 DEF BUWorker, WorkerType
<1>3. \A v \in my[w].i .. my[w].end - 1 : Chunk(v) = Chunk(my[w].i)
  BY <1>1 DEF BUWorker
<1>4. my[w].i + 1 < my[w].end => Chunk(my[w].i + 1) = Chunk(my[w].i)
  BY <1>2, <1>3
<1>5. ASSUME NEW x \in Workers PROVE BUWorker(x)'
  <2>1. CASE x # w
    <3>1. my'[x] = my[x] /\ BUWorker(x) /\ UNCHANGED <<depth, level, next_index>>
      BY <1>1, <2>1 DEF Others, tree
    <3>2. my[x].pc = "store" => my[x].word = bitmap!LoadWord(curr, my[x].i)'
      BY <2>1, <3>1
    <3> QED
      BY <3>1, <3>2 DEF BUWorker, Chunk
  <2>2. CASE x = w
    <3>1. \A v \in my[w].i + 1 .. my[w].end - 1 : Chunk(v) = Chunk(my[w].i + 1)
      BY <1>2, <1>3, <1>4
    <3> QED
      BY <1>1, <1>2, <2>2, <3>1 DEF BUWorker, Chunk
  <2> QED
    BY <2>1, <2>2
<1>6. ASSUME NEW x \in Workers, NEW y \in Workers, x # y, my'[x].i < my'[x].end, my'[y].i < my'[y].end
      PROVE  Chunk(my'[x].i) # Chunk(my'[y].i)
  <2>1. \A z \in Workers \ {w} : my'[z] = my[z]
    BY DEF Others
  <2>2. \A z \in Workers : my'[z].i < my'[z].end => my[z].i < my[z].end /\ Chunk(my'[z].i) = Chunk(my[z].i)
    BY <1>4, <2>1
  <2> QED
    BY <1>1, <1>6, <2>2 DEF InBUStep
<1>7. ASSUME NEW v \in Nodes, v < next_index'
      PROVE  Settled(v)' \/ \E x \in Workers : my'[x].i <= v /\ v < my'[x].end
  <2>1. \A n : Settled(n)' <=> Settled(n)
    BY DEF Settled, Visited, in_neigh, tree, args
  <2>2. Settled(v) \/ \E x \in Workers : my[x].i <= v /\ v < my[x].end
    BY <1>1, <1>7 DEF InBUStep
  <2>3. v \in Nat
    BY NodesAreFinite
  <2>4. my[w].i <= v /\ v # my[w].i => my[w].i + 1 <= v
    BY <1>2, <2>3
  <2> QED
    BY <2>1, <2>2, <2>4 DEF Others
<1>8. Reduce' = Reduce
  BY ReduceDepends DEF Others
<1>9. \A k : LevelOf(k)' = LevelOf(k)
  BY DEF LevelOf, tree
<1>10. /\ next_index' % kChunk = 0 /\ old_awake_count' > 0
       /\ LevelOf(level)' \subseteq front' /\ curr' = LevelOf(level + 1)' \ Storing'
       /\ Reduce' = Cardinality(LevelOf(level + 1)')
  BY <1>1, <1>8, <1>9 DEF InBUStep, counters
<1> QED
  BY <1>5, <1>6, <1>7, <1>10 DEF InBUStep, Storing, Chunk

(* BUSkip: the vertex is settled as it is.                                   *)
LEMMA BUSkipKeeps ==
  ASSUME SearchInv, NEW w \in Workers, UNCHANGED <<args, pc, counters, level>>, BUSkip(w)
  PROVE  SearchInv'
<1>1. /\ pc = "BUStep" /\ my[w].pc = "vertex" /\ my[w].i < my[w].end /\ Awakening(my[w].i) = {}
      /\ my' = [my EXCEPT ![w].i = @ + 1] /\ UNCHANGED <<tree, queue_vars, bitmaps, next_index>>
  BY DEF BUSkip, At
<1>2. /\ Types /\ InBUStep /\ BUWorker(w) /\ my \in [Workers -> WorkerType] /\ num_nodes \in Nat
      /\ front \subseteq Nodes /\ curr \subseteq Nodes /\ next_index \in Nat
  BY <1>1, DOBFSAssumption DEF SearchInv, Types, InBUStep
<1>3. /\ Others(w) /\ my'[w].i = my[w].i + 1 /\ my'[w].end = my[w].end
      /\ my'[w].count = my[w].count /\ my'[w].pc = "vertex"
  BY <1>1, <1>2 DEF Others, WorkerType
<1>4. Settled(my[w].i)
  <2>1. my[w].i \in Nodes
    BY <1>1, <1>2 DEF BUWorker, WorkerType, Nodes
  <2>2. my[w].i \notin Visited => parent[my[w].i] < 0
    BY <1>1, <2>1, ParentTells DEF SearchInv
  <2> QED
    BY <1>1, <2>2 DEF Settled, Awakening, bitmap!get_bit
<1>5. Storing' = Storing
  BY <1>1, <1>3 DEF Storing, Others
<1>6. curr' = LevelOf(level + 1) \ Storing'
  BY <1>1, <1>2, <1>5 DEF InBUStep, Storing, bitmaps
<1>7. \A x \in Workers \ {w} : my[x].pc = "store" => my[x].word = bitmap!LoadWord(curr', my[x].i)
  BY <1>1, <1>2 DEF InBUStep, BUWorker, bitmaps
<1>8. InBUStep'
  BY <1>1, <1>3, <1>4, <1>6, <1>7, BUMovesOn DEF bitmaps
<1> QED
  BY <1>1, <1>2, <1>3, <1>8, BUFrame DEF bitmaps

(* BUSetBit: the bit is set, and the chunk being the worker's alone no other *)
(* bit of the word is lost.                                                  *)
LEMMA BUSetBitKeeps ==
  ASSUME SearchInv, NEW w \in Workers, UNCHANGED <<args, pc, counters, level>>, BUSetBit(w)
  PROVE  SearchInv'
<1> DEFINE u == my[w].i
<1>1. /\ pc = "BUStep" /\ my[w].pc = "store"
      /\ curr' = bitmap!SetBitStore(curr, u, my[w].word)
      /\ my' = [my EXCEPT ![w].i = @ + 1, ![w].pc = "vertex", ![w].word = {}]
      /\ UNCHANGED <<tree, queue_vars, front, next_index>>
  BY DEF BUSetBit, At
<1>2. /\ Types /\ InBUStep /\ my \in [Workers -> WorkerType] /\ num_nodes \in Nat
      /\ front \subseteq Nodes /\ curr \subseteq Nodes /\ next_index \in Nat
      /\ \A x \in Workers : BUWorker(x) /\ my[x] \in WorkerType
  BY <1>1, DOBFSAssumption DEF SearchInv, Types, InBUStep
<1>3. /\ u < my[w].end /\ u \in Nodes /\ depth[u] = level + 1 /\ my[w].word = bitmap!LoadWord(curr, u)
      /\ u \in Nat
  BY <1>1, <1>2 DEF BUWorker, WorkerType, Nodes
<1>4. /\ Others(w) /\ my'[w].i = my[w].i + 1 /\ my'[w].end = my[w].end
      /\ my'[w].count = my[w].count /\ my'[w].pc = "vertex"
  <2> DEFINE m == [my[w] EXCEPT !.i = my[w].i + 1, !.pc = "vertex", !.word = {}]
  <2>1. my' = [my EXCEPT ![w] = m]
    BY <1>1, <1>2
  <2>2. {} \in SUBSET Nodes /\ my[w] \in WorkerType /\ my[w].i + 1 \in Nat
    BY <1>2, <1>3
  <2>3. m \in WorkerType /\ m.pc = "vertex" /\ m.i = my[w].i + 1 /\ m.end = my[w].end /\ m.count = my[w].count
    BY <2>2 DEF WorkerType, WorkerPCs
  <2> HIDE DEF m
  <2> QED
    BY <1>2, <2>1, <2>3, WorkerMoves
<1>5. curr' = curr \cup {u}
  BY <1>1, <1>3 DEF bitmap!SetBitStore, bitmap!StoreWord, bitmap!LoadWord
<1>6. ASSUME NEW x \in Workers \ {w}, my[x].pc = "store"
      PROVE  my[x].i \in Nat /\ bitmap!word_offset(my[x].i) # bitmap!word_offset(u)
  <2>1. my[x].i \in Nat /\ my[x].i < my[x].end
    BY <1>2, <1>6 DEF BUWorker, WorkerType
  <2>2. Chunk(my[x].i) # Chunk(u)
    BY <1>2, <1>3, <2>1 DEF InBUStep
  <2> QED
    BY <1>3, <2>1, <2>2, WordsNestInChunks
<1>7. ASSUME NEW x \in Workers \ {w}, my[x].pc = "store"
      PROVE  my[x].word = bitmap!LoadWord(curr', my[x].i)
  <2>1. my[x].word = bitmap!LoadWord(curr, my[x].i)
    BY <1>2, <1>7 DEF BUWorker
  <2> QED
    BY <1>5, <1>6, <1>7, <2>1 DEF bitmap!LoadWord
<1>8. curr' = LevelOf(level + 1) \ Storing'
  <2>1. ASSUME NEW y PROVE y \in Storing' <=> y \in Storing /\ y # u
    <3>1. \A z : z \in Storing <=> \E x \in Workers : my[x].pc = "store" /\ my[x].i = z
      BY StoringMeans
    <3>2. \A z : z \in Storing' <=> \E x \in Workers : my'[x].pc = "store" /\ my'[x].i = z
      BY DEF Storing
    <3>3. \A x \in Workers \ {w} : my'[x] = my[x] /\ (my[x].pc = "store" => my[x].i # u)
      BY <1>4, <1>6 DEF Others
    <3>4. ASSUME y \in Storing, y # u PROVE y \in Storing'
      <4>1. PICK x \in Workers : my[x].pc = "store" /\ my[x].i = y
        BY <3>1, <3>4
      <4>2. x # w
        BY <3>4, <4>1
      <4> QED
        BY <3>2, <3>3, <4>1, <4>2
    <3>5. ASSUME y \in Storing' PROVE y \in Storing /\ y # u
      <4>1. PICK x \in Workers : my'[x].pc = "store" /\ my'[x].i = y
        BY <3>2, <3>5
      <4>2. x # w
        BY <1>4, <4>1
      <4> QED
        BY <3>1, <3>3, <4>1, <4>2
    <3> QED
      BY <3>4, <3>5
  <2>2. curr = LevelOf(level + 1) \ Storing /\ u \in Storing
    BY <1>1, <1>2 DEF InBUStep, Storing
  <2>3. u \in LevelOf(level + 1)
    BY <1>3 DEF LevelOf
  <2> QED
    BY <1>5, <2>1, <2>2, <2>3
<1>9. Settled(u)
  <2>1. u \in Visited
    BY <1>2, <1>3 DEF Visited, Types
  <2> QED
    BY <2>1 DEF Settled
<1>10. InBUStep'
  BY <1>1, <1>3, <1>4, <1>7, <1>8, <1>9, BUMovesOn
<1> QED
  BY <1>1, <1>2, <1>3, <1>4, <1>5, <1>10, BUFrame

(* The levels that are over have no open edge.                               *)
EdgesSettled == \A u \in Visited : depth[u] < level => out_neigh[u] \subseteq Visited

(* What a claim from below does.                                             *)
LEMMA BUAwakeTells ==
  ASSUME SearchInv, EdgesSettled, NEW w \in Workers, BUAwake(w)
  PROVE  /\ pc = "BUStep" /\ my[w].pc = "vertex" /\ my[w].i < my[w].end
         /\ my[w].i \in Nodes \ Visited
         /\ \E v \in LevelOf(level) : /\ my[w].i \in out_neigh[v]
                                      /\ parent' = [parent EXCEPT ![my[w].i] = v]
                                      /\ depth' = [depth EXCEPT ![my[w].i] = level + 1]
         /\ my' = [my EXCEPT ![w] = [my[w] EXCEPT !.count = my[w].count + 1,
                                                  !.word = bitmap!LoadWord(curr, my[w].i), !.pc = "store"]]
         /\ UNCHANGED <<queue_vars, bitmaps, next_index>>
<1> DEFINE u == my[w].i
<1>1. /\ pc = "BUStep" /\ my[w].pc = "vertex" /\ u < my[w].end
      /\ \E v \in Awakening(u) : parent' = [parent EXCEPT ![u] = v] /\ depth' = [depth EXCEPT ![u] = depth[v] + 1]
      /\ my' = [my EXCEPT ![w].count = @ + 1, ![w].word = bitmap!LoadWord(curr, u), ![w].pc = "store"]
      /\ UNCHANGED <<queue_vars, bitmaps, next_index>>
  BY DEF BUAwake, At
<1>2. /\ Types /\ TreeOK /\ my \in [Workers -> WorkerType] /\ BUWorker(w) /\ num_nodes \in Nat
  BY <1>1, DOBFSAssumption DEF SearchInv, Types, Steady, InBUStep
<1>3. u \in Nodes
  BY <1>1, <1>2 DEF BUWorker, WorkerType, Nodes
<1>4. PICK v \in Awakening(u) : parent' = [parent EXCEPT ![u] = v] /\ depth' = [depth EXCEPT ![u] = depth[v] + 1]
  BY <1>1
<1>5. parent[u] < 0 /\ v \in in_neigh(u) /\ v \in front
  BY <1>4 DEF Awakening, bitmap!get_bit
<1>6. u \notin Visited
  BY <1>1, <1>3, <1>5, ParentTells DEF SearchInv
<1>7. v \in Nodes /\ u \in out_neigh[v]
  BY <1>5 DEF in_neigh
<1>8. v \in Visited /\ depth[v] <= level /\ depth[v] \in Nat /\ level \in Nat
  BY <1>1, <1>2, <1>5 DEF TreeOK, Visited, Types
<1>9. depth[v] = level
  BY <1>6, <1>7, <1>8 DEF EdgesSettled
<1>10. v \in LevelOf(level)
  BY <1>7, <1>9 DEF LevelOf
<1>11. my' = [my EXCEPT ![w] = [my[w] EXCEPT !.count = my[w].count + 1,
                                             !.word = bitmap!LoadWord(curr, my[w].i), !.pc = "store"]]
  BY <1>1, <1>2
<1> QED
  BY <1>1, <1>3, <1>4, <1>6, <1>7, <1>9, <1>10, <1>11

(* BUAwake: the vertex is of the next level; its bit is about to be stored.  *)
LEMMA BUAwakeKeeps ==
  ASSUME SearchInv, EdgesSettled, NEW w \in Workers, UNCHANGED <<args, pc, counters, level>>, BUAwake(w)
  PROVE  SearchInv'
<1> DEFINE u == my[w].i
           word == bitmap!LoadWord(curr, u)
           m == [my[w] EXCEPT !.count = my[w].count + 1, !.word = word, !.pc = "store"]
<1>1. /\ pc = "BUStep" /\ my[w].pc = "vertex" /\ u < my[w].end /\ u \in Nodes \ Visited
      /\ my' = [my EXCEPT ![w] = m] /\ UNCHANGED <<queue_vars, bitmaps, next_index>>
  BY BUAwakeTells
<1>2. PICK v \in LevelOf(level) : parent' = [parent EXCEPT ![u] = v] /\ depth' = [depth EXCEPT ![u] = level + 1]
  BY BUAwakeTells
<1>3. /\ Types /\ Steady /\ BuffersMatch /\ InBUStep /\ curr \subseteq Nodes /\ front \subseteq Nodes
      /\ \A x \in Workers : BUWorker(x) /\ my[x] \in WorkerType
      /\ v \in Nodes
  BY <1>1 DEF SearchInv, Types, InBUStep, LevelOf
<1>4. /\ m \in WorkerType /\ m.pc = "store" /\ m.count = my[w].count + 1
      /\ m.i = u /\ m.end = my[w].end /\ m.word = word
  <2>1. word \subseteq Nodes /\ my[w] \in WorkerType /\ my[w].count \in Int
    BY <1>3 DEF bitmap!LoadWord, WorkerType
  <2> DEFINE c == my[w].count + 1
  <2>2. c \in Int
    BY <2>1
  <2> HIDE DEF word, c
  <2>3. m = [my[w] EXCEPT !.count = c, !.word = word, !.pc = "store"]
    BY DEF c
  <2>4. /\ m \in WorkerType /\ m.pc = "store" /\ m.count = c
        /\ m.i = u /\ m.end = my[w].end /\ m.word = word
    BY <2>1, <2>2, <2>3 DEF WorkerType, WorkerPCs
  <2> QED
    BY <2>4 DEF c
<1> HIDE DEF word, m
<1>5. Others(w) /\ my'[w] = m
  BY <1>1, <1>3, <1>4, WorkerMoves
<1>6. /\ Steady'
      /\ Visited' = Visited \cup {u} /\ \A x \in Visited : depth'[x] = depth[x]
      /\ LevelOf(level)' = LevelOf(level)
      /\ u \notin LevelOf(level + 1) /\ LevelOf(level + 1)' = LevelOf(level + 1) \cup {u}
      /\ parent' \in [Nodes -> Int] /\ depth' \in [Nodes -> Nat \cup {-1}]
  <2> HIDE DEF u
  <2> QED
    BY <1>1, <1>2, <1>3, ClaimKeepsSteady DEF args
<1>7. Types'
  BY <1>1, <1>3, <1>5, <1>6 DEF Types, args, counters, bitmaps, Others
<1>8. BuffersMatch'
  <2>1. \A x \in Workers : copy_start'[x] = copy_start[x] /\ local_queue'[x] = local_queue[x]
    BY <1>1 DEF queue_vars
  <2> QED
    BY <1>1, <1>3, <2>1 DEF BuffersMatch
<1>9. depth'[u] = level + 1
  BY <1>1, <1>2, <1>3 DEF Types
<1>10. ASSUME NEW x \in Workers PROVE BUWorker(x)'
  <2>1. CASE x # w
    <3>1. my'[x] = my[x] /\ BUWorker(x) /\ UNCHANGED <<level, next_index, curr>>
      BY <1>1, <1>3, <1>5, <2>1 DEF Others, bitmaps
    <3>2. my[x].pc = "store" => depth'[my[x].i] = level + 1
      <4> SUFFICES ASSUME my[x].pc = "store" PROVE depth'[my[x].i] = level + 1
        OBVIOUS
      <4>1. depth[my[x].i] = level + 1 /\ my[x].i < my[x].end /\ my[x].end <= num_nodes /\ my[x].i \in Nat
            /\ my[x].end \in Nat /\ level \in Nat
        BY <1>3 DEF BUWorker, WorkerType, Types
      <4>2. my[x].i \in Visited
        BY <4>1, DOBFSAssumption DEF Visited, Nodes
      <4> QED
        BY <1>6, <4>1, <4>2
    <3> QED
      BY <3>1, <3>2 DEF BUWorker, Chunk, bitmap!LoadWord
  <2>2. CASE x = w
    <3>1. BUWorker(w) /\ UNCHANGED <<level, next_index, curr>> /\ my[w].count + 1 \in Nat
      BY <1>1, <1>3 DEF BUWorker, bitmaps
    <3>2. m.word = bitmap!LoadWord(curr, u)
      BY <1>4 DEF word
    <3> QED
      BY <1>1, <1>4, <1>5, <1>9, <2>2, <3>1, <3>2 DEF BUWorker, Chunk
  <2> QED
    BY <2>1, <2>2
<1>11. \A x \in Workers : my'[x].i = my[x].i /\ my'[x].end = my[x].end
  BY <1>4, <1>5 DEF Others
<1>12. Reduce' = Reduce + 1
  <2>1. my'[w].count = my[w].count + 1 /\ \A x \in Workers \ {w} : my'[x].count = my[x].count
    BY <1>4, <1>5 DEF Others
  <2> QED
    BY <1>3, <1>5, <2>1, ReduceAdds DEF Others
<1>13. Cardinality(LevelOf(level + 1)') = Cardinality(LevelOf(level + 1)) + 1
  <2>1. IsFiniteSet(LevelOf(level + 1))
    BY NodesAreFinite, FS_Subset DEF LevelOf
  <2> QED
    BY <1>6, <2>1, FS_AddElement
<1>14. curr' = LevelOf(level + 1)' \ Storing'
  <2>1. ASSUME NEW y PROVE y \in Storing' <=> y \in Storing \/ y = u
    <3>1. \A z : z \in Storing' <=> \E x \in Workers : my'[x].pc = "store" /\ my'[x].i = z
      BY DEF Storing
    <3>2. my'[w].pc = "store" /\ my[w].pc # "store" /\ \A x \in Workers \ {w} : my'[x] = my[x]
      BY <1>1, <1>4, <1>5 DEF Others
    <3> QED
      BY <1>11, <3>1, <3>2, StoringMeans
  <2>2. curr = LevelOf(level + 1) \ Storing /\ curr' = curr
    BY <1>1, <1>3 DEF InBUStep, Storing, bitmaps
  <2> QED
    BY <1>6, <2>1, <2>2
<1>15. ASSUME NEW n \in Nodes, n < next_index'
       PROVE  Settled(n)' \/ \E x \in Workers : my'[x].i <= n /\ n < my'[x].end
  <2>1. Settled(n) => Settled(n)'
    BY <1>1, <1>6 DEF Settled, in_neigh, bitmaps, args
  <2> QED
    BY <1>1, <1>3, <1>11, <1>15, <2>1 DEF InBUStep
<1>16. InBUStep'
  <2>1. next_index' % kChunk = 0 /\ old_awake_count' > 0 /\ LevelOf(level)' \subseteq front'
        /\ Reduce' = Cardinality(LevelOf(level + 1)')
    BY <1>1, <1>3, <1>6, <1>12, <1>13 DEF InBUStep, counters, bitmaps
  <2>2. \A x, y \in Workers : x # y /\ my'[x].i < my'[x].end /\ my'[y].i < my'[y].end
                                => Chunk(my'[x].i) # Chunk(my'[y].i)
    BY <1>3, <1>11 DEF InBUStep
  <2> QED
    BY <1>10, <1>14, <1>15, <2>1, <2>2 DEF InBUStep, Storing, Chunk
<1> QED
  BY <1>1, <1>6, <1>7, <1>8, <1>16 DEF SearchInv

(* BUStep is over when every vertex is settled.                              *)
LEMMA BULevelIsOver ==
  ASSUME SearchInv, Joined("BUStep")
  PROVE  /\ LevelOf(level) # {} /\ \A u \in LevelOf(level) : out_neigh[u] \subseteq Visited
         /\ curr = LevelOf(level + 1) /\ Reduce = Cardinality(LevelOf(level + 1))
         /\ old_awake_count > 0 /\ Reduce \in Nat /\ (Reduce > 0 => LevelOf(level + 1) # {})
<1>1. /\ pc = "BUStep" /\ Types /\ InBUStep /\ WindowOK
      /\ \A w \in Workers : my[w].pc = "done" /\ BUWorker(w) /\ my[w] \in WorkerType
  BY DEF Joined, SearchInv, InBUStep, Types, Steady
<1>2. 0 \in Workers /\ num_nodes \in Nat /\ next_index \in Nat
  BY <1>1, WorkersAreFinite, DOBFSAssumption DEF Types
<1>3. next_index >= num_nodes
  BY <1>1, <1>2 DEF BUWorker
<1>4. ASSUME NEW v \in Nodes PROVE Settled(v)
  <2>1. v < next_index /\ v \in Nat
    BY <1>2, <1>3 DEF Nodes
  <2>2. \A w \in Workers : ~(my[w].i <= v /\ v < my[w].end)
    BY <1>1, <2>1 DEF BUWorker, WorkerType
  <2> QED
    BY <1>1, <2>1, <2>2 DEF InBUStep
<1>5. ASSUME NEW u \in LevelOf(level), NEW v \in out_neigh[u] PROVE v \in Visited
  <2>1. u \in Nodes /\ v \in Nodes /\ u \in front
    BY <1>1 DEF LevelOf, Types, InBUStep
  <2>2. u \in in_neigh(v)
    BY <2>1 DEF in_neigh
  <2> QED
    BY <1>4, <2>1, <2>2 DEF Settled
<1>6. curr = LevelOf(level + 1)
  <2>1. Storing = {}
    BY <1>1 DEF Storing
  <2> QED
    BY <1>1, <2>1 DEF InBUStep, Storing
<1>7. Reduce = Cardinality(LevelOf(level + 1)) /\ old_awake_count > 0
  BY <1>1 DEF InBUStep
<1>8. Reduce \in Nat /\ (LevelOf(level + 1) = {} => Reduce = 0)
  <2>1. IsFiniteSet(LevelOf(level + 1))
    BY NodesAreFinite, FS_Subset DEF LevelOf
  <2> QED
    BY <1>7, <2>1, FS_CardinalityType, FS_EmptySet
<1> QED
  BY <1>1, <1>5, <1>6, <1>7, <1>8 DEF WindowOK

--------------------------------------------------------------------------------
(* BitmapToQueue, and the bottom-up phases.                                  *)

(* NextBottomUp: next is the front of the next iteration.                    *)
LEMMA NextBottomUpKeeps ==
  ASSUME SearchInv, UNCHANGED args, NextBottomUp
  PROVE  SearchInv'
<1>1. /\ Joined("BUStep") /\ KeepsGoing(Reduce, bu_iters + 1)
      /\ awake_count' = Reduce /\ old_awake_count' = Reduce /\ bu_iters' = bu_iters + 1
      /\ front' = curr /\ curr' = {} /\ next_index' = 0 /\ level' = level + 1
      /\ pc' = "BUStep" /\ my' = [w \in Workers |-> NewWorker]
      /\ UNCHANGED <<tree, queue_vars, edges_to_check, scout_count>>
  BY DEF NextBottomUp, Fork
<1>2. /\ Types /\ QOK /\ QueueTypes /\ TreeOK /\ OlderOK /\ WindowOK /\ pc = "BUStep"
      /\ level \in Nat /\ num_nodes \in Nat /\ beta \in Nat \ {0} /\ bu_iters \in Nat /\ old_awake_count \in Nat
  BY <1>1, DOBFSAssumption DEF SearchInv, Steady, Types, QOK, Joined
<1>3. /\ curr = LevelOf(level + 1) /\ old_awake_count > 0 /\ Reduce \in Nat
      /\ (Reduce > 0 => LevelOf(level + 1) # {})
  BY <1>1, BULevelIsOver
<1>4. Reduce > 0
  <2>1. Reduce >= old_awake_count \/ Reduce > num_nodes \div beta
    BY <1>1 DEF KeepsGoing
  <2>2. num_nodes \div beta \in Nat
    BY <1>2, DivisionFacts
  <2> QED
    BY <1>2, <1>3, <2>1, <2>2
<1>5. /\ my' \in [Workers -> WorkerType] /\ Reduce' = 0 /\ \A w \in Workers : my'[w] = NewWorker
  BY <1>1, ForkMeans
<1>6. \A w \in Workers : copy_start[w] = queue!NotFlushing /\ local_queue[w] = <<>>
  BY <1>2, BuffersAreIdle
<1>7. QOK' /\ queue!Window' = queue!Window
  BY <1>1, <1>2, QueueFrame
<1>8. Types'
  BY <1>1, <1>2, <1>3, <1>5 DEF Types, args, tree, Regions
<1>9. Visited' = Visited /\ (\A v : Weight(v)' = Weight(v)) /\ UNCHANGED depth
  BY <1>1 DEF Visited, tree, Weight, out_degree, args
<1>10. \A v \in Visited : v \in Nodes /\ depth[v] \in Nat /\ depth[v] <= level + 1
  BY <1>2 DEF TreeOK, Visited, Types
<1>11. TreeOK'
  <2>1. \A v \in front' : v \in Visited /\ depth[v] = level + 1
    BY <1>1, <1>2, <1>3 DEF LevelOf, Visited
  <2> QED
    BY <1>1, <1>2, <1>9, <1>10, <2>1 DEF TreeOK, args, tree
<1>12. OlderOK'
  BY <1>1, <1>2, <1>9, <1>10 DEF OlderOK, queue_vars
<1>13. LevelOf(level)' = LevelOf(level + 1) /\ LevelOf(level + 1)' = {}
  <2>1. LevelOf(level)' = LevelOf(level + 1)
    BY <1>1, <1>9 DEF LevelOf
  <2>2. \A v \in Nodes : depth[v] # level + 1 + 1
    BY <1>2, <1>10 DEF Visited
  <2> QED
    BY <1>1, <1>9, <2>1, <2>2 DEF LevelOf
<1>14. WindowOK'
  BY <1>1, <1>2, <1>3, <1>4, <1>13 DEF WindowOK, queue_vars
<1>15. BuffersMatch'
  BY <1>1, <1>5, <1>6 DEF BuffersMatch, NewWorker, queue_vars
<1>16. InBUStep'
  BY <1>1, <1>2, <1>3, <1>4, <1>5, <1>13, BUBegins
<1> QED
  BY <1>1, <1>7, <1>8, <1>11, <1>12, <1>14, <1>15, <1>16 DEF SearchInv, Steady

(* LeaveBottomUp: the last front goes back to the queue.                     *)
LEMMA LeaveBottomUpKeeps ==
  ASSUME SearchInv, UNCHANGED args, LeaveBottomUp
  PROVE  SearchInv'
<1>1. /\ Joined("BUStep") /\ awake_count' = Reduce /\ bu_iters' = bu_iters + 1
      /\ front' = curr /\ curr' = front /\ level' = level + 1
      /\ pc' = "BitmapToQueue" /\ my' = [w \in Workers |-> NewWorker]
      /\ UNCHANGED <<tree, queue_vars, edges_to_check, scout_count, old_awake_count, next_index>>
  BY DEF LeaveBottomUp, Fork
<1>2. /\ Types /\ QOK /\ QueueTypes /\ TreeOK /\ OlderOK /\ WindowOK /\ pc = "BUStep"
      /\ level \in Nat /\ bu_iters \in Nat
  BY <1>1 DEF SearchInv, Steady, Types, QOK, Joined
<1>3. curr = LevelOf(level + 1) /\ Reduce \in Nat
  BY <1>1, BULevelIsOver
<1>4. /\ my' \in [Workers -> WorkerType] /\ Reduce' = 0 /\ \A w \in Workers : my'[w] = NewWorker
  BY <1>1, ForkMeans
<1>5. \A w \in Workers : copy_start[w] = queue!NotFlushing /\ local_queue[w] = <<>>
  BY <1>2, BuffersAreIdle
<1>6. QOK' /\ queue!Window' = queue!Window /\ queue!Pending' = {}
  BY <1>1, <1>2, QueueFrame, NothingPending
<1>7. Types'
  BY <1>1, <1>2, <1>3, <1>4 DEF Types, args, tree, Regions
<1>8. Visited' = Visited /\ (\A v : Weight(v)' = Weight(v)) /\ UNCHANGED depth
  BY <1>1 DEF Visited, tree, Weight, out_degree, args
<1>9. \A v \in Visited : v \in Nodes /\ depth[v] \in Nat /\ depth[v] <= level + 1
  BY <1>2 DEF TreeOK, Visited, Types
<1>10. TreeOK'
  <2>1. \A v \in front' : v \in Visited /\ depth[v] = level + 1
    BY <1>1, <1>2, <1>3 DEF LevelOf, Visited
  <2> QED
    BY <1>1, <1>2, <1>8, <1>9, <2>1 DEF TreeOK, args, tree
<1>11. OlderOK'
  <2>1. \A v \in Visited : depth[v] <= level => depth[v] < level + 1
    BY <1>2, <1>9
  <2> QED
    BY <1>1, <1>2, <1>8, <2>1 DEF OlderOK, queue_vars
<1>12. WindowOK'
  BY <1>1 DEF WindowOK
<1>13. BuffersMatch'
  BY <1>1, <1>4, <1>5 DEF BuffersMatch, NewWorker, queue_vars
<1>14. InBitmapToQueue'
  <2>1. LevelOf(level)' = LevelOf(level + 1)
    BY <1>1, <1>8 DEF LevelOf
  <2>2. \A w \in Workers : ~Pushing(w)' /\ my'[w].pc = "begin"
    BY <1>4 DEF Pushing, NewWorker
  <2>3. Unpushed' = {} /\ PushesOK'
    BY <2>2 DEF Unpushed, PushesOK
  <2>4. \A w \in Workers : BQWorker(w)'
    BY <1>6, <2>2, <2>3 DEF BQWorker, Scanned
  <2> QED
    BY <1>1, <1>3, <2>1, <2>3, <2>4 DEF InBitmapToQueue
<1> QED
  BY <1>1, <1>6, <1>7, <1>10, <1>11, <1>12, <1>13, <1>14 DEF SearchInv, Steady

(* What BitmapToQueue has pushed when its workers are done.                  *)
LEMMA BQPushedAll ==
  ASSUME SearchInv, Joined("BitmapToQueue")
  PROVE  queue!Pending = LevelOf(level)
<1>1. /\ pc = "BitmapToQueue" /\ front = LevelOf(level)
      /\ \A w \in Workers : my[w].pc = "done" /\ BQWorker(w) /\ my[w] \in WorkerType
  BY DEF Joined, SearchInv, InBitmapToQueue, Types
<1>2. Unpushed = {}
  BY <1>1, NobodyIsPushing DEF Pushing
<1>3. QueueTypes /\ QOK
  BY DEF SearchInv, Steady, QOK
<1>4. queue!Pending \subseteq Nodes
  <2>1. \A t \in Workers : \A k \in 1 .. Len(local_queue[t]) : local_queue[t][k] \in Nodes
    BY <1>3, BufferFacts
  <2>2. \A i \in queue!Written : shared[i] \in Nodes
    BY <1>3 DEF QOK, OnePlaceEach
  <2> QED
    BY <1>3, <2>1, <2>2, PendingMeans DEF PendingParts
<1>5. ASSUME NEW v \in Nodes PROVE v \in queue!Pending <=> v \in front
  <2>1. PICK w \in Workers : v \in Range_(w)
    BY RangesPartition
  <2>2. v \in Int /\ StaticRange(num_nodes, w).begin <= v /\ v < StaticRange(num_nodes, w).end
    BY <2>1, RangeMeans
  <2>3. v \in queue!Pending \cup Unpushed <=> v \in front /\ Scanned(w, v)
    BY <1>1, <2>1 DEF BQWorker
  <2>4. Scanned(w, v)
    BY <1>1, <2>2 DEF BQWorker, Scanned
  <2> QED
    BY <1>2, <2>3, <2>4
<1>6. front \subseteq Nodes
  BY DEF SearchInv, Types
<1> QED
  BY <1>1, <1>4, <1>5, <1>6

(* EndBottomUp: the front is the window.                                     *)
LEMMA EndBottomUpKeeps ==
  ASSUME SearchInv, UNCHANGED args, EndBottomUp
  PROVE  SearchInv'
<1>1. /\ Joined("BitmapToQueue") /\ queue!slide_window /\ scout_count' = 1 /\ pc' = "while"
      /\ UNCHANGED <<tree, bitmaps, edges_to_check, awake_count, old_awake_count, bu_iters, next_index, my, level>>
  BY DEF EndBottomUp
<1>2. /\ Types /\ QOK /\ TreeOK /\ OlderOK /\ level \in Nat
      /\ pc = "BitmapToQueue" /\ \A w \in Workers : my[w].pc = "done"
  BY <1>1 DEF SearchInv, Steady, Types, Joined
<1>3. \A w \in Workers : copy_start[w] = queue!NotFlushing /\ local_queue[w] = <<>>
  BY <1>2, BuffersAreIdle
<1>4. queue!Pending = LevelOf(level)
  BY <1>1, BQPushedAll
<1>5. \A y \in queue!Pending : y \in Visited /\ depth[y] <= level'
  BY <1>1, <1>2, <1>4 DEF LevelOf, Visited
<1>6. \A i \in 0 .. shared_out_end - 1 : shared[i] \in Visited /\ depth[shared[i]] <= level'
  <2>1. \A v \in Visited : depth[v] \in Nat
    BY <1>2 DEF Visited, Types
  <2> QED
    BY <1>1, <1>2, <2>1 DEF OlderOK
<1>7. /\ QOK' /\ OlderOK' /\ queue!Window' = queue!Pending /\ shared_in' = shared_out_end'
      /\ UNCHANGED <<shared, shared_in, local_queue, copy_start>>
  BY <1>1, <1>2, <1>3, <1>5, <1>6, SlideMeans DEF tree
<1>8. Types'
  BY <1>1, <1>2 DEF Types, args, tree, bitmaps
<1>9. TreeOK'
  <2>1. Visited' = Visited /\ \A v : Weight(v)' = Weight(v)
    BY <1>1 DEF Visited, tree, Weight, out_degree, args
  <2> QED
    BY <1>1, <1>2, <2>1 DEF TreeOK, tree, bitmaps, args
<1>10. WindowOK'
  BY <1>1, <1>4, <1>7 DEF WindowOK, LevelOf, tree
<1>11. BuffersMatch'
  BY <1>1, <1>2, <1>3, <1>7 DEF BuffersMatch
<1> QED
  BY <1>1, <1>7, <1>8, <1>9, <1>10, <1>11 DEF SearchInv, Steady

(* A worker goes on to another label.                                        *)
LEMMA WorkerTurns ==
  ASSUME Types, NEW w \in Workers, NEW label \in WorkerPCs, my' = [my EXCEPT ![w].pc = label]
  PROVE  /\ Others(w) /\ my'[w].pc = label
         /\ my'[w].i = my[w].i /\ my'[w].end = my[w].end /\ my'[w].v = my[w].v
  BY DEF Types, Others, WorkerType

(* A step of a worker of BitmapToQueue, which comes to push the vertices     *)
(* new.                                                                      *)
LEMMA BQStep ==
  ASSUME SearchInv, pc = "BitmapToQueue", NEW w \in Workers,
         UNCHANGED <<args, pc, counters, level, tree, bitmaps, next_index>>,
         UNCHANGED <<shared_out_start, shared_out_end>>,
         \A i \in 0 .. shared_out_end - 1 : shared'[i] = shared[i],
         \A x \in Workers \ {w} : copy_start'[x] = copy_start[x] /\ local_queue'[x] = local_queue[x],
         Others(w), BQWorker(w)',
         copy_start'[w] # queue!NotFlushing <=> my'[w].pc \in {"copy", "lastcopy"},
         my'[w].pc = "done" => local_queue'[w] = <<>>, my'[w].pc # "begin",
         QOK', PushesOK', NEW new, new \subseteq Range_(w),
         (queue!Pending \cup Unpushed)' = (queue!Pending \cup Unpushed) \cup new
  PROVE  SearchInv'
<1> USE DEF SearchInv
<1>1. Types'
  BY DEF Types, args, counters, tree, bitmaps, Others
<1>2. Steady'
  BY QueueSteady DEF args
<1>3. BuffersMatch'
  BY BufferWorkersStay DEF Others
<1>4. front' = front /\ LevelOf(level)' = LevelOf(level)
  BY DEF LevelOf, tree, bitmaps
<1>5. ASSUME NEW x \in Workers \ {w} PROVE BQWorker(x)'
  <2>1. BQWorker(x) /\ my'[x] = my[x]
    BY DEF InBitmapToQueue, Others
  <2>2. \A v \in Range_(x) : v \notin new
    BY RangesPartition
  <2> QED
    BY <1>4, <2>1, <2>2 DEF BQWorker, Scanned, StaticRange, Range_
<1>6. InBitmapToQueue'
  BY <1>4, <1>5 DEF InBitmapToQueue
<1> QED
  BY <1>1, <1>2, <1>3, <1>6

(* What lies in the range of a worker that has begun.                        *)
LEMMA BQWorkerFacts ==
  ASSUME SearchInv, pc = "BitmapToQueue", NEW w \in Workers
  PROVE  /\ BQWorker(w) /\ QOK /\ QueueTypes /\ PushesOK /\ Types /\ BuffersMatch /\ front = LevelOf(level)
         /\ my[w].i \in Nat /\ my[w].end \in Nat /\ my[w].v \in Nodes /\ my[w] \in WorkerType
         /\ Range_(w)' = Range_(w) /\ StaticRange(num_nodes, w)' = StaticRange(num_nodes, w)
         /\ StaticRange(num_nodes, w).begin \in Nat /\ StaticRange(num_nodes, w).end \in Nat
         /\ StaticRange(num_nodes, w).begin <= StaticRange(num_nodes, w).end
<1>1. num_nodes \in Nat
  BY DOBFSAssumption
<1>2. /\ StaticRange(num_nodes, w).begin \in Nat /\ StaticRange(num_nodes, w).end \in Nat
      /\ StaticRange(num_nodes, w).begin <= StaticRange(num_nodes, w).end
  BY <1>1, RangeBounds
<1>3. /\ BQWorker(w) /\ QOK /\ QueueTypes /\ PushesOK /\ Types /\ BuffersMatch /\ front = LevelOf(level)
  BY DEF SearchInv, Steady, QOK, InBitmapToQueue
<1>4. my[w] \in WorkerType
  BY <1>3 DEF Types
<1>5. my[w].i \in Nat /\ my[w].end \in Nat /\ my[w].v \in Nodes
  BY <1>4 DEF WorkerType
<1>6. Range_(w)' = Range_(w) /\ StaticRange(num_nodes, w)' = StaticRange(num_nodes, w)
  BY DEF Range_, StaticRange
<1> QED
  BY <1>2, <1>3, <1>4, <1>5, <1>6

(* A worker of BitmapToQueue goes on at another place.                       *)
LEMMA BQWorkerTurns ==
  ASSUME SearchInv, pc = "BitmapToQueue", NEW w \in Workers, UNCHANGED front,
         NEW label \in {"scan", "push", "copy", "lastcopy", "done"},
         my' = [my EXCEPT ![w].pc = label], my[w].pc # "begin",
         label \in {"lastcopy", "done"} => my[w].i = my[w].end,
         (queue!Pending \cup Unpushed)' = queue!Pending \cup Unpushed
  PROVE  BQWorker(w)'
<1>1. /\ BQWorker(w) /\ Types /\ StaticRange(num_nodes, w)' = StaticRange(num_nodes, w) /\ Range_(w)' = Range_(w)
  BY BQWorkerFacts
<1>2. label \in WorkerPCs
  BY DEF WorkerPCs
<1>3. my'[w].pc = label /\ my'[w].i = my[w].i /\ my'[w].end = my[w].end
  BY <1>1, <1>2, WorkerTurns
<1> QED
  BY <1>1, <1>3 DEF BQWorker, Scanned

(* BQBegin: the worker takes its range of the vertices.                      *)
LEMMA BQBeginKeeps ==
  ASSUME SearchInv, NEW w \in Workers, UNCHANGED <<args, pc, counters, level>>, BQBegin(w)
  PROVE  SearchInv'
<1> DEFINE r == StaticRange(num_nodes, w)
           m == [my[w] EXCEPT !.i = r.begin, !.end = r.end, !.pc = "scan"]
<1>1. /\ pc = "BitmapToQueue" /\ my[w].pc = "begin"
      /\ my' = [my EXCEPT ![w].i = r.begin, ![w].end = r.end, ![w].pc = "scan"]
      /\ UNCHANGED <<tree, queue_vars, bitmaps, next_index>>
  BY DEF BQBegin, TakeRange, At
<1>2. /\ BQWorker(w) /\ QOK /\ PushesOK /\ Types /\ BuffersMatch /\ my[w] \in WorkerType
      /\ Range_(w)' = Range_(w) /\ r' = r /\ r.begin \in Nat /\ r.end \in Nat /\ r.begin <= r.end
  BY <1>1, BQWorkerFacts
<1>3. m \in WorkerType /\ m.pc = "scan" /\ m.i = r.begin /\ m.end = r.end
  <2> HIDE DEF r
  <2> QED
    BY <1>2 DEF WorkerType, WorkerPCs
<1>4. my' = [my EXCEPT ![w] = m]
  BY <1>1, <1>2 DEF Types
<1>5. Others(w) /\ my'[w] = m
  <2> HIDE DEF m
  <2> QED BY <1>2, <1>3, <1>4, WorkerMoves
<1> HIDE DEF m
<1>6. QOK' /\ queue!Pending' = queue!Pending
  BY <1>1, <1>2, QueueFrame
<1>7. Unpushed' = Unpushed /\ PushesOK'
  BY <1>1, <1>2, <1>3, <1>5, <1>6, NobodyPushes DEF Pushing, Others
<1>8. BQWorker(w)'
  <2>1. \A v \in Range_(w) : ~(v < r.begin)
    BY <1>2, RangeMeans
  <2>2. ASSUME NEW v \in Range_(w)
        PROVE  v \in (queue!Pending \cup Unpushed)' <=> v \in front' /\ Scanned(w, v)'
    <3>1. ~Scanned(w, v) /\ ~Scanned(w, v)'
      BY <1>1, <1>3, <1>5, <2>1 DEF Scanned
    <3>2. v \notin queue!Pending \cup Unpushed
      BY <1>2, <3>1 DEF BQWorker
    <3> QED
      BY <1>6, <1>7, <3>1, <3>2
  <2>3. /\ my'[w].pc = "scan" /\ r.begin <= my'[w].i /\ my'[w].i <= my'[w].end /\ my'[w].end = r.end
    BY <1>2, <1>3, <1>5
  <2> QED
    BY <1>2, <2>2, <2>3 DEF BQWorker
<1>9. copy_start'[w] = queue!NotFlushing /\ my'[w].pc = "scan"
  BY <1>1, <1>2, <1>3, <1>5 DEF BuffersMatch, queue_vars
<1> DEFINE none == {}
<1>10. (queue!Pending \cup Unpushed)' = (queue!Pending \cup Unpushed) \cup none /\ none \subseteq Range_(w)
  BY <1>6, <1>7
<1> HIDE DEF none
<1> QED
  BY <1>1, <1>5, <1>6, <1>7, <1>8, <1>9, <1>10, BQStep DEF queue_vars

(* BQScan: a vertex of the front is to be pushed.                            *)
LEMMA BQScanKeeps ==
  ASSUME SearchInv, NEW w \in Workers, UNCHANGED <<args, pc, counters, level>>, BQScan(w)
  PROVE  SearchInv'
<1> DEFINE i == my[w].i
           r == StaticRange(num_nodes, w)
           label == IF i \in front THEN "push" ELSE "scan"
           m == [my[w] EXCEPT !.v = i, !.i = i + 1, !.pc = label]
           new == IF i \in front THEN {i} ELSE {}
<1>1. /\ pc = "BitmapToQueue" /\ my[w].pc = "scan" /\ i < my[w].end
      /\ my' = [my EXCEPT ![w].v = i, ![w].i = @ + 1, ![w].pc = label]
      /\ UNCHANGED <<tree, queue_vars, bitmaps, next_index>>
  BY DEF BQScan, At, bitmap!get_bit
<1>2. /\ BQWorker(w) /\ QOK /\ PushesOK /\ Types /\ BuffersMatch /\ my[w] \in WorkerType
      /\ Range_(w)' = Range_(w) /\ r' = r /\ r.begin \in Nat /\ r.end \in Nat /\ i \in Nat
      /\ r.begin <= i /\ i < r.end /\ my[w].end = r.end
  BY <1>1, BQWorkerFacts DEF BQWorker
<1>3. i \in Range_(w) /\ i \in Nodes
  BY <1>2, RangeMeans, RangesPartition
<1>4. m \in WorkerType /\ m.pc = label /\ m.i = i + 1 /\ m.end = my[w].end /\ m.v = i
  <2>1. label \in WorkerPCs /\ i + 1 \in Nat
    BY <1>2 DEF WorkerPCs
  <2> HIDE DEF label
  <2> QED
    BY <1>2, <1>3, <2>1 DEF WorkerType
<1>5. my' = [my EXCEPT ![w] = m]
  BY <1>1, <1>2 DEF Types
<1>6. Others(w) /\ my'[w] = m
  <2> HIDE DEF m
  <2> QED BY <1>2, <1>4, <1>5, WorkerMoves
<1> HIDE DEF m, r
<1>7. QOK' /\ queue!Pending' = queue!Pending
  BY <1>1, <1>2, QueueFrame
<1>8. i \notin queue!Pending /\ i \notin Unpushed
  BY <1>2, <1>3 DEF BQWorker, Scanned
<1>9. PushesOK' /\ Unpushed' = Unpushed \cup new
  <2>1. CASE i \in front
    BY <1>1, <1>2, <1>4, <1>6, <1>7, <1>8, <2>1, PushBegins DEF Pushing
  <2>2. CASE i \notin front
    BY <1>1, <1>2, <1>4, <1>6, <1>7, <2>2, NobodyPushes DEF Pushing, Others
  <2> QED
    BY <2>1, <2>2
<1>10. BQWorker(w)'
  <2>1. ASSUME NEW v \in Range_(w)
        PROVE  v \in (queue!Pending \cup Unpushed)' <=> v \in front' /\ Scanned(w, v)'
    <3>1. v \in Int
      BY RangeMeans
    <3>2. v \in queue!Pending \cup Unpushed <=> v \in front /\ Scanned(w, v)
      BY <1>2 DEF BQWorker
    <3>3. Scanned(w, v)' <=> Scanned(w, v) \/ v = i
      BY <1>1, <1>2, <1>4, <1>6, <3>1 DEF Scanned
    <3> QED
      BY <1>1, <1>7, <1>9, <3>2, <3>3 DEF bitmaps
  <2> QED
    BY <1>2, <1>4, <1>6, <2>1 DEF BQWorker, r
<1>11. copy_start'[w] = queue!NotFlushing /\ my'[w].pc \in {"scan", "push"}
  BY <1>1, <1>2, <1>4, <1>6 DEF BuffersMatch, queue_vars
<1>12. (queue!Pending \cup Unpushed)' = (queue!Pending \cup Unpushed) \cup new /\ new \subseteq Range_(w)
  BY <1>3, <1>7, <1>9
<1> HIDE DEF new
<1> QED
  BY <1>1, <1>6, <1>7, <1>9, <1>10, <1>11, <1>12, BQStep DEF queue_vars

(* What a worker of BitmapToQueue is about to push is nowhere in the queue.  *)
LEMMA BQPushIsNew ==
  ASSUME SearchInv, pc = "BitmapToQueue", NEW w \in Workers, my[w].pc = "push"
  PROVE  /\ my[w].v \in Nodes /\ my[w].v \notin queue!Pending
         /\ \A i \in 0 .. shared_out_end - 1 : shared[i] # my[w].v
<1> DEFINE v == my[w].v
<1>1. PushesOK /\ Types /\ v \in Nodes /\ front = LevelOf(level)
  BY BQWorkerFacts
<1>2. v \in Unpushed /\ v \notin queue!Pending
  BY <1>1 DEF Unpushed, PushesOK, Pushing
<1>3. PICK x \in Workers : v \in Range_(x)
  BY <1>1, RangesPartition
<1>4. v \in front
  BY <1>2, <1>3, BQWorkerFacts DEF BQWorker
<1>5. depth[v] = level /\ level \in Nat
  BY <1>1, <1>4 DEF LevelOf, Types
<1> QED
  BY <1>1, <1>2, <1>5 DEF SearchInv, Steady, OlderOK

(* BQPush: it goes to the buffer, or the full buffer gets its slots first.   *)
LEMMA BQPushKeeps ==
  ASSUME SearchInv, NEW w \in Workers, UNCHANGED <<args, pc, counters, level>>, BQPush(w)
  PROVE  SearchInv'
<1> DEFINE v == my[w].v
           none == {}
<1>1. /\ pc = "BitmapToQueue" /\ my[w].pc = "push" /\ Push(w, "scan") /\ UNCHANGED <<tree, bitmaps, next_index>>
  BY DEF BQPush, At
<1>2. /\ BQWorker(w) /\ QOK /\ QueueTypes /\ PushesOK /\ Types /\ BuffersMatch /\ v \in Nodes
      /\ front = LevelOf(level)
  BY <1>1, BQWorkerFacts
<1>3. v \notin queue!Pending /\ \A i \in 0 .. shared_out_end - 1 : shared[i] # v
  BY <1>1, BQPushIsNew
<1>4. CASE queue!LocalPush(w, v) /\ my' = [my EXCEPT ![w].pc = "scan"]
  <2>1. /\ local_queue' = [local_queue EXCEPT ![w] = Append(@, v)]
        /\ UNCHANGED <<shared, shared_in, shared_out_start, shared_out_end, copy_start>>
    BY <1>4 DEF queue!LocalPush
  <2>2. QOK' /\ queue!Pending' = queue!Pending \cup {v}
    BY <1>2, <1>3, <1>4, PushKeepsQueue
  <2>3. Others(w) /\ my'[w].pc = "scan"
    BY <1>2, <1>4, WorkerTurns DEF WorkerPCs
  <2>4. PushesOK' /\ (queue!Pending \cup Unpushed)' = queue!Pending \cup Unpushed
    BY <1>1, <1>2, <2>2, <2>3, PushEnds DEF Pushing
  <2>5. BQWorker(w)'
    BY <1>1, <1>4, <2>4, BQWorkerTurns DEF bitmaps
  <2>6. \A x \in Workers \ {w} : copy_start'[x] = copy_start[x] /\ local_queue'[x] = local_queue[x]
    BY <1>2, <2>1 DEF QueueTypes
  <2>7. copy_start'[w] # queue!NotFlushing <=> my'[w].pc \in {"copy", "lastcopy"}
    BY <1>1, <1>2, <2>1, <2>3 DEF BuffersMatch
  <2>8. none \subseteq Range_(w) /\ (queue!Pending \cup Unpushed)' = (queue!Pending \cup Unpushed) \cup none
    BY <2>4
  <2> HIDE DEF none
  <2> QED
    BY <1>1, <2>1, <2>2, <2>3, <2>4, <2>5, <2>6, <2>7, <2>8, BQStep
<1>5. CASE queue!Reserve(w) /\ my' = [my EXCEPT ![w].pc = "copy"]
  <2>1. /\ copy_start' = [copy_start EXCEPT ![w] = shared_in]
        /\ UNCHANGED <<shared, shared_out_start, shared_out_end, local_queue>>
    BY <1>5 DEF queue!Reserve
  <2>2. QOK' /\ queue!Pending' = queue!Pending
    BY <1>2, <1>5, ReserveKeepsQueue
  <2>3. Others(w) /\ my'[w].pc = "copy" /\ my'[w].v = v
    BY <1>2, <1>5, WorkerTurns DEF WorkerPCs
  <2>4. Unpushed' = Unpushed /\ PushesOK'
    BY <1>1, <1>2, <2>2, <2>3, NobodyPushes DEF Pushing, Others
  <2>5. BQWorker(w)'
    BY <1>1, <1>5, <2>2, <2>4, BQWorkerTurns DEF bitmaps
  <2>6. \A x \in Workers \ {w} : copy_start'[x] = copy_start[x] /\ local_queue'[x] = local_queue[x]
    BY <1>2, <2>1 DEF QueueTypes
  <2>7. copy_start'[w] # queue!NotFlushing /\ my'[w].pc \in {"copy", "lastcopy"}
    BY <1>2, <2>1, <2>3 DEF QueueTypes, queue!NotFlushing
  <2>8. none \subseteq Range_(w) /\ (queue!Pending \cup Unpushed)' = (queue!Pending \cup Unpushed) \cup none
    BY <2>2, <2>4
  <2> HIDE DEF none
  <2> QED
    BY <1>1, <2>1, <2>2, <2>3, <2>4, <2>5, <2>6, <2>7, <2>8, BQStep
<1> QED
  BY <1>1, <1>4, <1>5 DEF Push

(* BQFlush: the last flush gets its slots.                                   *)
LEMMA BQFlushKeeps ==
  ASSUME SearchInv, NEW w \in Workers, UNCHANGED <<args, pc, counters, level>>, BQFlush(w)
  PROVE  SearchInv'
<1> DEFINE none == {}
<1>1. /\ pc = "BitmapToQueue" /\ my[w].pc = "scan" /\ my[w].i = my[w].end
      /\ queue!Reserve(w) /\ my' = [my EXCEPT ![w].pc = "lastcopy"] /\ UNCHANGED <<tree, bitmaps, next_index>>
  BY DEF BQFlush, At
<1>2. QOK /\ QueueTypes /\ PushesOK /\ Types
  BY <1>1, BQWorkerFacts
<1>3. /\ copy_start' = [copy_start EXCEPT ![w] = shared_in]
      /\ UNCHANGED <<shared, shared_out_start, shared_out_end, local_queue>>
  BY <1>1 DEF queue!Reserve
<1>4. QOK' /\ queue!Pending' = queue!Pending
  BY <1>1, <1>2, ReserveKeepsQueue
<1>5. Others(w) /\ my'[w].pc = "lastcopy"
  BY <1>1, <1>2, WorkerTurns DEF WorkerPCs
<1>6. Unpushed' = Unpushed /\ PushesOK'
  BY <1>1, <1>2, <1>4, <1>5, NobodyPushes DEF Pushing, Others
<1>7. BQWorker(w)'
  BY <1>1, <1>4, <1>6, BQWorkerTurns DEF bitmaps
<1>8. \A x \in Workers \ {w} : copy_start'[x] = copy_start[x] /\ local_queue'[x] = local_queue[x]
  BY <1>2, <1>3 DEF QueueTypes
<1>9. copy_start'[w] # queue!NotFlushing /\ my'[w].pc \in {"copy", "lastcopy"}
  BY <1>2, <1>3, <1>5 DEF QueueTypes, queue!NotFlushing
<1>10. none \subseteq Range_(w) /\ (queue!Pending \cup Unpushed)' = (queue!Pending \cup Unpushed) \cup none
  BY <1>4, <1>6
<1> HIDE DEF none
<1> QED
  BY <1>1, <1>3, <1>4, <1>5, <1>6, <1>7, <1>8, <1>9, <1>10, BQStep

(* FlushCopies in BitmapToQueue.                                             *)
LEMMA BQCopyKeeps ==
  ASSUME SearchInv, pc = "BitmapToQueue", NEW w \in Workers, UNCHANGED <<args, pc, counters, level>>,
         FlushCopies(w)
  PROVE  SearchInv'
<1> DEFINE none == {}
           label == IF my[w].pc = "copy" THEN "push" ELSE "done"
<1>1. /\ my[w].pc \in {"copy", "lastcopy"} /\ queue!CopyOut(w)
      /\ my' = [my EXCEPT ![w].pc = IF @ = "copy" THEN "push" ELSE "done"]
      /\ UNCHANGED <<tree, bitmaps, next_index>>
  BY DEF FlushCopies, Copied
<1>2. QOK /\ QueueTypes /\ PushesOK /\ BQWorker(w) /\ Types /\ my \in [Workers -> WorkerType]
  BY BQWorkerFacts DEF Types
<1>3. /\ local_queue' = [local_queue EXCEPT ![w] = <<>>]
      /\ copy_start' = [copy_start EXCEPT ![w] = queue!NotFlushing]
      /\ UNCHANGED <<shared_in, shared_out_start, shared_out_end>>
  BY <1>1 DEF queue!CopyOut
<1>4. QOK' /\ queue!Pending' = queue!Pending /\ \A i \in 0 .. shared_out_end - 1 : shared'[i] = shared[i]
  BY <1>1, <1>2, CopyKeepsQueue
<1>5. my' = [my EXCEPT ![w].pc = label]
  BY <1>1, <1>2
<1>6. label \in {"scan", "push", "copy", "lastcopy", "done"} /\ (label = "push" <=> my[w].pc = "copy")
      /\ label \in {"push", "done"} /\ (label = "done" => my[w].i = my[w].end) /\ label \in WorkerPCs
  BY <1>1, <1>2 DEF BQWorker, WorkerPCs
<1> HIDE DEF label
<1>7. Others(w) /\ my'[w].pc = label /\ my'[w].v = my[w].v
  BY <1>2, <1>5, <1>6, WorkerTurns
<1>8. Unpushed' = Unpushed /\ PushesOK'
  BY <1>1, <1>2, <1>4, <1>6, <1>7, NobodyPushes DEF Pushing, Others
<1>9. BQWorker(w)'
  BY <1>1, <1>4, <1>5, <1>6, <1>8, BQWorkerTurns DEF bitmaps
<1>10. \A x \in Workers \ {w} : copy_start'[x] = copy_start[x] /\ local_queue'[x] = local_queue[x]
  BY <1>2, <1>3 DEF QueueTypes
<1>11. copy_start'[w] = queue!NotFlushing /\ my'[w].pc \in {"push", "done"} /\ local_queue'[w] = <<>>
  BY <1>2, <1>3, <1>6, <1>7 DEF QueueTypes
<1>12. none \subseteq Range_(w) /\ (queue!Pending \cup Unpushed)' = (queue!Pending \cup Unpushed) \cup none
  BY <1>4, <1>8
<1> HIDE DEF none
<1> QED
  BY <1>1, <1>3, <1>4, <1>7, <1>8, <1>9, <1>10, <1>11, <1>12, BQStep

--------------------------------------------------------------------------------
(* The invariant, step by step.                                              *)

(* The search starts with it ...                                             *)
LEMMA InitSearchInv == ASSUME Init PROVE SearchInv
<1>1. /\ out_neigh \in [Nodes -> SUBSET Nodes] /\ source \in Nodes
      /\ alpha \in Nat \ {0} /\ beta \in Nat \ {0} /\ max_bu_iters \in Nat
  BY DOBFSAssumption DEF Init
<1>2. /\ pc = "InitParent" /\ parent = [n \in Nodes |-> 0] /\ queue!Init /\ front = {} /\ curr = {}
      /\ edges_to_check = 0 /\ scout_count = 0 /\ awake_count = 0 /\ old_awake_count = 0 /\ bu_iters = 0
      /\ next_index = 0 /\ my = [w \in Workers |-> NewWorker]
      /\ depth = [n \in Nodes |-> -1] /\ level = 0
  BY DEF Init
<1>3. NewWorker \in WorkerType /\ NewWorker.pc = "begin"
  BY NodesAreFinite DEF NewWorker, WorkerType, WorkerPCs
<1>4. my \in [Workers -> WorkerType] /\ \A w \in Workers : my[w] = NewWorker
  BY <1>2, <1>3
<1>5. Types
  BY <1>1, <1>2, <1>4 DEF Types, Regions
<1>6. QueueTypes
  <2>1. \A w \in Workers : <<>> \in Seq(Nodes)
    OBVIOUS
  <2> QED
    BY <1>2, <2>1 DEF queue!Init, QueueTypes
<1>7. \A t \in Workers : Len(local_queue[t]) = 0 /\ copy_start[t] = queue!NotFlushing /\ local_queue[t] = <<>>
  BY <1>2 DEF queue!Init
<1>8. queue!Written = {} /\ \A t \in Workers : queue!Reserved(t) = {}
  BY <1>2, <1>7 DEF queue!Init, queue!Written, queue!Reserved
<1>9. QOK
  BY <1>6, <1>7, <1>8 DEF QOK, OnePlaceEach, queue!FlushesAreDisjoint
<1>10. TreeOK
  BY <1>2 DEF TreeOK
<1>11. OlderOK /\ WindowOK
  BY <1>2 DEF OlderOK, WindowOK, queue!Init
<1>12. BuffersMatch
  BY <1>2, <1>7 DEF BuffersMatch
<1>13. InInitParent
  BY <1>2, <1>3, <1>4 DEF InInitParent, queue!Init
<1> QED
  BY <1>2, <1>5, <1>9, <1>10, <1>11, <1>12, <1>13 DEF SearchInv, Steady

(* ... keeps it while nothing happens ...                                    *)
LEMMA StutterSearchInv ==
  ASSUME SearchInv, UNCHANGED vars
  PROVE  SearchInv'
<1>0. UNCHANGED <<out_neigh, source, alpha, beta, max_bu_iters, pc, parent, depth, front, curr,
                  edges_to_check, scout_count, awake_count, old_awake_count, bu_iters, next_index, my, level>>
      /\ UNCHANGED queue_vars
  BY DEF vars, args, tree, bitmaps, counters
<1>1. Types'
  BY <1>0 DEF SearchInv, Types
<1>2. Steady' /\ queue!Pending' = queue!Pending
  BY <1>0, SteadyFrame DEF SearchInv, tree, bitmaps
<1>3. BuffersMatch'
  BY <1>0 DEF SearchInv, BuffersMatch, queue_vars
<1>4. Visited' = Visited /\ (\A k : LevelOf(k)' = LevelOf(k)) /\ (\A v : Weight(v)' = Weight(v)) /\ Unpushed' = Unpushed
      /\ (\A w : Pushing(w)' = Pushing(w)) /\ (\A w : Share(w)' = Share(w)) /\ (\A w : Range_(w)' = Range_(w))
      /\ (\A v : Settled(v)' = Settled(v)) /\ Reduce' = Reduce
  BY <1>0 DEF Visited, LevelOf, Weight, out_degree, Unpushed, Pushing, Share, queue!size, queue_vars, Range_, StaticRange,
              Settled, in_neigh, Reduce
<1>5. (pc = "InitParent" => InInitParent)'
  BY <1>0, <1>4 DEF SearchInv, InInitParent, queue_vars
<1>6. (pc = "TDStep" => InTDStep)'
  <2> SUFFICES ASSUME pc = "TDStep" PROVE InTDStep'
    BY <1>0
  <2>1. \A w \in Workers : TDWorker(w)'
    BY <1>0, <1>4 DEF SearchInv, InTDStep, TDWorker, queue_vars
  <2>2. PushesOK'
    BY <1>0, <1>2, <1>4, NobodyPushes DEF SearchInv, InTDStep
  <2>3. SumFunction([v \in LevelOf(level + 1) |-> Weight(v)])' = SumFunction([v \in LevelOf(level + 1) |-> Weight(v)])
    BY <1>0, <1>4
  <2> QED
    BY <1>0, <1>2, <1>4, <2>1, <2>2, <2>3 DEF SearchInv, InTDStep
<1>7. (pc = "QueueToBitmap" => InQueueToBitmap)'
  BY <1>0, <1>4 DEF SearchInv, InQueueToBitmap, QBWorker, queue_vars
<1>8. (pc = "BUStep" => InBUStep)'
  <2> SUFFICES ASSUME pc = "BUStep" PROVE InBUStep'
    BY <1>0
  <2>1. \A w \in Workers : BUWorker(w)'
    BY <1>0 DEF SearchInv, InBUStep, BUWorker, bitmap!LoadWord, Chunk
  <2> QED
    BY <1>0, <1>4, <2>1 DEF SearchInv, InBUStep, Chunk
<1>9. (pc = "BitmapToQueue" => InBitmapToQueue)'
  <2> SUFFICES ASSUME pc = "BitmapToQueue" PROVE InBitmapToQueue'
    BY <1>0
  <2>1. PushesOK'
    BY <1>0, <1>2, <1>4, NobodyPushes DEF SearchInv, InBitmapToQueue
  <2>2. \A w \in Workers : BQWorker(w)'
    BY <1>0, <1>2, <1>4 DEF SearchInv, InBitmapToQueue, BQWorker, Scanned, StaticRange
  <2> QED
    BY <1>0, <1>4, <2>1, <2>2 DEF SearchInv, InBitmapToQueue
<1>10. (pc = "Cleanup" => InCleanup)' /\ (pc = "done" => \A v \in Nodes : parent[v] >= -1)'
  BY <1>0, <1>4 DEF SearchInv, InCleanup
<1> QED
  BY <1>1, <1>2, <1>3, <1>5, <1>6, <1>7, <1>8, <1>9, <1>10 DEF SearchInv

(* ... through every step of a worker ...                                    *)
LEMMA WorkerSearchInv ==
  ASSUME SearchInv, EdgesSettled, NEW w \in Workers, WorkerStep(w)
  PROVE  SearchInv'
<1>1. UNCHANGED <<args, pc, counters, level>>
  BY DEF WorkerStep
<1>2. CASE InitParentWorker(w)
  BY <1>1, <1>2, InitParentKeeps
<1>3. CASE CleanupParentWorker(w)
  BY <1>1, <1>3, CleanupParentKeeps
<1>4. CASE TDBegin(w)
  BY <1>1, <1>4, TDBeginKeeps DEF TDBegin, At
<1>5. CASE TDNextVertex(w)
  BY <1>1, <1>5, TDNextVertexKeeps DEF TDNextVertex, At
<1>6. CASE TDReadParent(w)
  BY <1>1, <1>6, TDReadParentKeeps DEF TDReadParent, At
<1>7. CASE TDClaim(w)
  BY <1>1, <1>7, TDClaimFails, TDClaimSucceeds DEF TDClaim, At
<1>8. CASE TDPush(w)
  BY <1>1, <1>8, TDPushKeeps DEF TDPush, At
<1>9. CASE TDFlush(w)
  BY <1>1, <1>9, TDFlushKeeps DEF TDFlush, At
<1>10. CASE FlushCopies(w)
  BY <1>1, <1>10, TDCopyKeeps, BQCopyKeeps DEF FlushCopies
<1>11. CASE QBBegin(w)
  BY <1>1, <1>11, QBBeginKeeps
<1>12. CASE QBLoad(w)
  BY <1>1, <1>12, QBLoadKeeps
<1>13. CASE QBCas(w)
  BY <1>1, <1>13, QBCasKeeps
<1>14. CASE BUClaimChunk(w)
  BY <1>1, <1>14, BUClaimChunkKeeps
<1>15. CASE BUSkip(w)
  BY <1>1, <1>15, BUSkipKeeps
<1>16. CASE BUAwake(w)
  BY <1>1, <1>16, BUAwakeKeeps
<1>17. CASE BUSetBit(w)
  BY <1>1, <1>17, BUSetBitKeeps
<1>18. CASE BQBegin(w)
  BY <1>1, <1>18, BQBeginKeeps
<1>19. CASE BQScan(w)
  BY <1>1, <1>19, BQScanKeeps
<1>20. CASE BQPush(w)
  BY <1>1, <1>20, BQPushKeeps
<1>21. CASE BQFlush(w)
  BY <1>1, <1>21, BQFlushKeeps
<1> QED
  BY <1>2, <1>3, <1>4, <1>5, <1>6, <1>7, <1>8, <1>9, <1>10, <1>11, <1>12, <1>13, <1>14, <1>15,
     <1>16, <1>17, <1>18, <1>19, <1>20, <1>21 DEF WorkerStep

(* ... and of main.                                                          *)
LEMMA MainSearchInv ==
  ASSUME SearchInv, MainStep
  PROVE  SearchInv'
  BY StartKeeps, GoBottomUpKeeps, GoTopDownKeeps, EndTopDownKeeps, EnterBottomUpKeeps, NextBottomUpKeeps,
     LeaveBottomUpKeeps, EndBottomUpKeeps, GoCleanupKeeps, FinishKeeps DEF MainStep

--------------------------------------------------------------------------------
(* A search by levels, seen through LevelBFS with this search's tree, ends   *)
(* with a breadth-first tree.  None of it uses how this search takes its     *)
(* steps: only the actions of LevelBFS.                                      *)

(* The inductive invariant: the tree so far, and the edges of the levels     *)
(* that are over.                                                            *)
LevelsInv == BFS!TypeOK /\ BFS!TreeByLevels /\ BFS!NoEdgeMissed

LEMMA InitLevels == BFS!Init => LevelsInv
<1> SUFFICES ASSUME BFS!Init PROVE LevelsInv
  OBVIOUS
<1>1. BFS!TypeOK
  BY DEF BFS!Init, BFS!TypeOK
<1>2. /\ source \in Nodes /\ source # BFS!Nobody
      /\ TreeParent[source] = source /\ TreeDepth[source] = 0 /\ level = 0
      /\ \A v \in Nodes \ {source} : TreeParent[v] = BFS!Nobody /\ TreeDepth[v] = BFS!Nobody
  BY DEF BFS!Init
<1>3. BFS!Nobody \notin Nat /\ BFS!Nobody # 0
  BY DEF BFS!Nobody
<1>4. BFS!Visited = {source}
  BY <1>2, <1>3 DEF BFS!Visited
<1>5. BFS!TreeByLevels
  BY <1>2, <1>3, <1>4 DEF BFS!TreeByLevels
<1>6. BFS!NoEdgeMissed
  <2>1. ~(TreeDepth[source] < level)
    BY <1>2
  <2> QED
    BY <1>4, <2>1 DEF BFS!NoEdgeMissed
<1> QED
  BY <1>1, <1>5, <1>6 DEF LevelsInv

(* A vertex of the frontier's neighbourhood is claimed.                      *)
LEMMA VisitLevels ==
  ASSUME LevelsInv, NEW v \in Nodes, BFS!Visit(v)
  PROVE  LevelsInv'
<1> USE DEF LevelsInv, BFS!TypeOK, BFS!Nobody
<1>1. PICK u \in BFS!Frontier : v \in out_neigh[u] /\ TreeParent' = [TreeParent EXCEPT ![v] = u]
  BY DEF BFS!Visit
<1>2. /\ u \in Nodes /\ TreeDepth[u] = level /\ u \in BFS!Visited /\ u # v
      /\ TreeDepth[v] = BFS!Nobody /\ v # source
  BY <1>1 DEF BFS!Frontier, BFS!Visited, BFS!Visit, BFS!TreeByLevels
<1>3. TreeDepth' = [TreeDepth EXCEPT ![v] = level + 1] /\ UNCHANGED <<out_neigh, source, level>>
  BY DEF BFS!Visit
<1>4. BFS!Visited' = BFS!Visited \cup {v}
  BY <1>3 DEF BFS!Visited
<1>5. BFS!TypeOK'
  BY <1>1, <1>2, <1>3
<1>6. BFS!TreeByLevels'
  <2>1. TreeDepth'[source'] = 0 /\ TreeParent'[source'] = source'
    BY <1>1, <1>2, <1>3 DEF BFS!TreeByLevels
  <2>2. \A w \in Nodes : TreeParent'[w] = BFS!Nobody <=> TreeDepth'[w] = BFS!Nobody
    BY <1>1, <1>2, <1>3 DEF BFS!TreeByLevels
  <2>3. ASSUME NEW w \in BFS!Visited' \ {source'}
        PROVE  /\ TreeParent'[w] \in BFS!Visited'
               /\ w \in out_neigh'[TreeParent'[w]]
               /\ TreeDepth'[w] = TreeDepth'[TreeParent'[w]] + 1
               /\ TreeDepth'[w] <= level' + 1
    <3>1. CASE w = v
      BY <3>1, <1>1, <1>2, <1>3, <1>4
    <3>2. CASE w # v
      <4>1. w \in BFS!Visited \ {source} /\ w \in Nodes
        BY <3>2, <1>3, <1>4 DEF BFS!Visited
      <4>2. /\ TreeParent[w] \in BFS!Visited /\ w \in out_neigh[TreeParent[w]]
            /\ TreeDepth[w] = TreeDepth[TreeParent[w]] + 1 /\ TreeDepth[w] <= level + 1
        BY <4>1 DEF BFS!TreeByLevels
      <4>3. TreeParent'[w] = TreeParent[w] /\ TreeDepth'[w] = TreeDepth[w]
        BY <3>2, <4>1, <1>1, <1>3
      <4>4. TreeParent[w] # v /\ TreeParent[w] \in Nodes
        BY <4>2, <1>2 DEF BFS!Visited
      <4> QED
        BY <4>2, <4>3, <4>4, <1>3, <1>4
    <3> QED
      BY <3>1, <3>2
  <2> QED
    BY <2>1, <2>2, <2>3 DEF BFS!TreeByLevels
<1>7. BFS!NoEdgeMissed'
  <2> SUFFICES ASSUME NEW x \in BFS!Visited', TreeDepth'[x] < level',
                      NEW y \in out_neigh'[x]
               PROVE  y \in BFS!Visited' /\ TreeDepth'[y] <= TreeDepth'[x] + 1
    BY DEF BFS!NoEdgeMissed
  <2>1. x # v /\ x \in BFS!Visited /\ x \in Nodes /\ TreeDepth'[x] = TreeDepth[x]
    BY <1>2, <1>3, <1>4 DEF BFS!Visited
  <2>2. y \in BFS!Visited /\ TreeDepth[y] <= TreeDepth[x] + 1
    BY <2>1, <1>3 DEF BFS!NoEdgeMissed
  <2>3. y # v /\ y \in Nodes /\ TreeDepth'[y] = TreeDepth[y]
    BY <2>2, <1>2, <1>3 DEF BFS!Visited
  <2> QED
    BY <2>1, <2>2, <2>3, <1>4
<1> QED
  BY <1>5, <1>6, <1>7

(* The level is over: its edges are settled.                                 *)
LEMMA AdvanceLevels ==
  ASSUME LevelsInv, BFS!Advance
  PROVE  LevelsInv'
<1> USE DEF LevelsInv, BFS!TypeOK, BFS!Nobody, BFS!Advance
<1>1. BFS!Visited' = BFS!Visited
  BY DEF BFS!Visited
<1>2. BFS!TypeOK'
  OBVIOUS
<1>3. BFS!TreeByLevels'
  <2>1. \A v \in BFS!Visited : v \in Nodes /\ TreeDepth[v] \in Nat
    BY DEF BFS!Visited
  <2> QED
    BY <1>1, <2>1 DEF BFS!TreeByLevels
<1>4. BFS!NoEdgeMissed'
  <2> SUFFICES ASSUME NEW x \in BFS!Visited, TreeDepth[x] < level + 1, NEW y \in out_neigh[x]
               PROVE  y \in BFS!Visited /\ TreeDepth[y] <= TreeDepth[x] + 1
    BY <1>1 DEF BFS!NoEdgeMissed
  <2>1. x \in Nodes /\ TreeDepth[x] \in Nat
    BY DEF BFS!Visited
  <2>2. CASE TreeDepth[x] < level
    BY <2>2 DEF BFS!NoEdgeMissed
  <2>3. CASE TreeDepth[x] = level
    <3>1. y \in BFS!Visited
      BY <2>1, <2>3 DEF BFS!Frontier
    <3>2. TreeDepth[y] <= level + 1
      BY <3>1 DEF BFS!TreeByLevels
    <3> QED
      BY <3>1, <3>2, <2>3
  <2> QED
    BY <2>1, <2>2, <2>3
<1> QED
  BY <1>2, <1>3, <1>4

(* No step of the search by levels breaks its invariant, nor does standing   *)
(* still.                                                                    *)
LEMMA LevelsAreKept ==
  ASSUME LevelsInv, [BFS!Next]_BFS!vars
  PROVE  LevelsInv'
<1>1. CASE UNCHANGED BFS!vars
  BY <1>1 DEF BFS!vars, LevelsInv, BFS!TypeOK, BFS!TreeByLevels, BFS!NoEdgeMissed, BFS!Visited
<1>2. CASE BFS!Advance
  BY <1>2, AdvanceLevels
<1>3. CASE \E v \in Nodes : BFS!Visit(v)
  BY <1>3, VisitLevels
<1> QED
  BY <1>1, <1>2, <1>3 DEF BFS!Next

(* bfs.cc:186-190: in a search by levels the tree goes level by level and no *)
(* edge of a level that is over is missed, at every step.                    *)
THEOREM LevelsInvariant == BFS!Spec => []LevelsInv
<1>1. BFS!Init => LevelsInv
  BY InitLevels
<1>2. LevelsInv /\ [BFS!Next]_BFS!vars => LevelsInv'
  BY LevelsAreKept
<1> QED
  BY <1>1, <1>2, PTL DEF BFS!Spec

(* Every vertex below an empty level is already settled.                     *)
LEMMA EmptyLevelIsLast ==
  ASSUME LevelsInv, BFS!Done, NEW v \in BFS!Visited
  PROVE  TreeDepth[v] < level
<1> USE DEF LevelsInv, BFS!TypeOK, BFS!Nobody
<1>1. v \in Nodes /\ TreeDepth[v] \in Nat /\ TreeDepth[v] # level
  BY DEF BFS!Visited, BFS!Done, BFS!Frontier
<1>2. CASE v = source
  BY <1>1, <1>2 DEF BFS!TreeByLevels
<1>3. CASE v # source
  <2>1. TreeParent[v] \in Nodes /\ TreeDepth[TreeParent[v]] # level /\ TreeDepth[TreeParent[v]] \in Nat
    BY <1>3 DEF BFS!TreeByLevels, BFS!Visited, BFS!Done, BFS!Frontier
  <2> QED
    BY <1>1, <1>3, <2>1 DEF BFS!TreeByLevels
<1> QED
  BY <1>2, <1>3

(* bfs.cc:186-190: when the frontier is empty the parents form a             *)
(* breadth-first tree of everything the source reaches.                      *)
THEOREM LevelsAreCorrect == BFS!Spec => []BFS!CorrectWhenDone
<1>1. LevelsInv => BFS!CorrectWhenDone
  BY EmptyLevelIsLast DEF BFS!CorrectWhenDone, BFS!Certificate, BFS!NoEdgeMissed, LevelsInv
<1> QED
  BY <1>1, LevelsInvariant, PTL

--------------------------------------------------------------------------------
(* The search as LevelBFS sees it.                                           *)

(* After InitParent, LevelBFS sees the arrays as they are, weights as        *)
(* Nobody.                                                                   *)
LEMMA TreeWhenStarted ==
  ASSUME Types, pc # "InitParent"
  PROVE  /\ TreeDepth = depth /\ TreeParent = [v \in Nodes |-> IF parent[v] < 0 THEN -1 ELSE parent[v]]
         /\ BFS!Visited = Visited /\ BFS!Frontier = LevelOf(level)
  BY DEF TreeDepth, TreeParent, BFS!Visited, BFS!Frontier, BFS!Nobody, Visited, LevelOf

(* The same of the next state.                                               *)
LEMMA TreeWhenStartedNext ==
  ASSUME pc' # "InitParent"
  PROVE  TreeDepth' = depth' /\ TreeParent' = [v \in Nodes |-> IF parent'[v] < 0 THEN -1 ELSE parent'[v]]
  BY DEF TreeDepth, TreeParent

(* A level that is over has no open edge: LevelBFS's NoEdgeMissed.           *)
LEMMA EdgesAreSettled ==
  ASSUME Types, LevelsInv, pc # "InitParent"
  PROVE  EdgesSettled
<1>1. BFS!NoEdgeMissed
  BY DEF LevelsInv
<1> QED
  BY <1>1, TreeWhenStarted DEF BFS!NoEdgeMissed, EdgesSettled

(* Both directions claim as LevelBFS does.                                   *)
LEMMA ClaimIsVisit ==
  ASSUME Types, TreeOK, pc \in {"TDStep", "BUStep"}, pc' = pc, NEW v \in Nodes \ Visited, NEW u \in LevelOf(level),
         v \in out_neigh[u], parent' = [parent EXCEPT ![v] = u], depth' = [depth EXCEPT ![v] = level + 1],
         UNCHANGED <<out_neigh, source, level>>
  PROVE  BFS!Visit(v)
<1>1. /\ TreeDepth = depth /\ TreeParent = [n \in Nodes |-> IF parent[n] < 0 THEN -1 ELSE parent[n]]
      /\ BFS!Visited = Visited /\ BFS!Frontier = LevelOf(level)
  BY TreeWhenStarted
<1>2. TreeDepth' = depth' /\ TreeParent' = [n \in Nodes |-> IF parent'[n] < 0 THEN -1 ELSE parent'[n]]
  BY TreeWhenStartedNext
<1>3. u \in Nodes /\ u \in Int /\ ~(u < 0) /\ parent \in [Nodes -> Int]
  BY NodesAreFinite DEF LevelOf, Types
<1>4. TreeParent' = [TreeParent EXCEPT ![v] = u]
  BY <1>1, <1>2, <1>3
<1>5. TreeDepth' = [TreeDepth EXCEPT ![v] = level + 1]
  BY <1>1, <1>2
<1> QED
  BY <1>1, <1>4, <1>5 DEF BFS!Visit

(* Leaving a level with no open edge is LevelBFS's Advance.                  *)
LEMMA OverIsAdvance ==
  ASSUME Types, pc # "InitParent", pc' # "InitParent", LevelOf(level) # {},
         \A u \in LevelOf(level) : out_neigh[u] \subseteq Visited, level' = level + 1,
         UNCHANGED <<out_neigh, source, parent, depth>>
  PROVE  BFS!Advance
<1>1. UNCHANGED <<TreeParent, TreeDepth>>
  BY DEF TreeParent, TreeDepth
<1> QED
  BY <1>1, TreeWhenStarted DEF BFS!Advance

(* A step that leaves the tree alone is none of LevelBFS's.                  *)
LEMMA TreeStays ==
  ASSUME pc = "InitParent" <=> pc' = "InitParent", UNCHANGED <<out_neigh, source, level, parent, depth>>
  PROVE  UNCHANGED BFS!vars
  BY DEF BFS!vars, TreeParent, TreeDepth

(* The array is initialized, and the root is where LevelBFS has it.          *)
LEMMA StartStutters ==
  ASSUME SearchInv, UNCHANGED args, Start
  PROVE  UNCHANGED BFS!vars
<1>1. /\ pc = "InitParent" /\ \A w \in Workers : my[w].pc = "done"
  BY DEF Start, Joined
<1>2. /\ parent' = [parent EXCEPT ![source] = source] /\ depth' = [depth EXCEPT ![source] = 0]
      /\ pc' = "while" /\ level' = level
  BY DEF Start
<1>3. Types /\ TreeOK /\ InInitParent /\ source \in Nodes
  BY <1>1 DEF SearchInv, Steady, Types
<1>4. \A v \in Nodes : depth[v] = -1 /\ parent[v] < 0 /\ ~(v < 0)
  <2>1. \A v \in Nodes : parent[v] = -Weight(v)
    BY <1>1, <1>3, RangesPartition DEF InInitParent
  <2>2. \A v \in Nodes : Weight(v) \in Nat \ {0}
    BY <1>3, WeightIsPositive DEF Types
  <2> QED
    BY <1>1, <1>3, <2>1, <2>2, NodesAreFinite DEF TreeOK
<1>5. TreeDepth = [v \in Nodes |-> IF v = source THEN 0 ELSE -1] /\ TreeParent = [v \in Nodes |-> IF v = source THEN v ELSE -1]
  BY <1>1 DEF TreeDepth, TreeParent
<1>6. TreeDepth' = depth' /\ TreeParent' = [v \in Nodes |-> IF parent'[v] < 0 THEN -1 ELSE parent'[v]]
  BY <1>2, TreeWhenStartedNext
<1>7. \A v \in Nodes : depth'[v] = IF v = source THEN 0 ELSE -1
  BY <1>2, <1>3, <1>4 DEF Types
<1>8. depth' \in [Nodes -> Nat \cup {-1}] /\ DOMAIN depth' = Nodes
  BY <1>2, <1>3 DEF Types
<1>9. TreeDepth' = TreeDepth
  BY <1>5, <1>6, <1>7, <1>8
<1>10. \A v \in Nodes : parent'[v] = IF v = source THEN v ELSE parent[v]
  BY <1>2, <1>3 DEF Types
<1>11. TreeParent' = TreeParent
  BY <1>3, <1>4, <1>5, <1>6, <1>10
<1> QED
  BY <1>2, <1>9, <1>11 DEF BFS!vars, args

(* Overwriting a weight changes nothing LevelBFS sees.                       *)
LEMMA CleanupStutters ==
  ASSUME SearchInv, NEW w \in Workers, UNCHANGED <<args, pc, counters, level>>, CleanupParentWorker(w)
  PROVE  UNCHANGED BFS!vars
<1>1. /\ pc = "Cleanup" /\ UNCHANGED depth
      /\ parent' = [n \in Nodes |-> IF n \in Range_(w) /\ parent[n] < -1 THEN -1 ELSE parent[n]]
  BY DEF CleanupParentWorker, At
<1>2. parent \in [Nodes -> Int]
  BY DEF SearchInv, Types
<1>3. ASSUME NEW n \in Nodes
      PROVE  (IF parent'[n] < 0 THEN -1 ELSE parent'[n]) = (IF parent[n] < 0 THEN -1 ELSE parent[n])
  BY <1>1, <1>2
<1>4. /\ TreeDepth = depth /\ TreeParent = [v \in Nodes |-> IF parent[v] < 0 THEN -1 ELSE parent[v]]
      /\ TreeDepth' = depth' /\ TreeParent' = [v \in Nodes |-> IF parent'[v] < 0 THEN -1 ELSE parent'[v]]
  BY <1>1, TreeWhenStarted, TreeWhenStartedNext DEF SearchInv
<1>5. TreeParent' = TreeParent /\ TreeDepth' = TreeDepth
  BY <1>1, <1>3, <1>4
<1> QED
  BY <1>5 DEF BFS!vars, args

(* Neither does writing the weights before the search.                       *)
LEMMA InitParentStutters ==
  ASSUME NEW w \in Workers, UNCHANGED <<args, pc, counters, level>>, InitParentWorker(w)
  PROVE  UNCHANGED BFS!vars
<1>1. pc = "InitParent" /\ UNCHANGED <<out_neigh, source>>
  BY DEF InitParentWorker, At, args
<1>2. UNCHANGED <<TreeParent, TreeDepth>>
  BY <1>1 DEF TreeParent, TreeDepth
<1> QED
  BY <1>1, <1>2 DEF BFS!vars

(* A worker's step is a visit, or nothing, to LevelBFS.                      *)
LEMMA WorkerRefines ==
  ASSUME SearchInv, EdgesSettled, NEW w \in Workers, WorkerStep(w)
  PROVE  UNCHANGED BFS!vars \/ \E v \in Nodes : BFS!Visit(v)
<1>1. UNCHANGED <<args, pc, counters, level>> /\ UNCHANGED <<out_neigh, source, level>>
  BY DEF WorkerStep, args
<1>2. CASE InitParentWorker(w)
  BY <1>1, <1>2, InitParentStutters
<1>3. CASE CleanupParentWorker(w)
  BY <1>1, <1>3, CleanupStutters
<1>4. CASE TDClaim(w) /\ parent[my[w].v] = my[w].curr_val
  <2>1. pc = "TDStep" /\ Types /\ TreeOK
    BY <1>4 DEF TDClaim, At, SearchInv, Steady
  <2>2. /\ my[w].v \in Nodes \ Visited /\ my[w].u \in LevelOf(level) /\ my[w].v \in out_neigh[my[w].u]
        /\ parent' = [parent EXCEPT ![my[w].v] = my[w].u] /\ depth' = [depth EXCEPT ![my[w].v] = level + 1]
    BY <1>4, <2>1, TDClaimTells DEF LevelOf
  <2>3. BFS!Visit(my[w].v)
    BY <1>1, <2>1, <2>2, ClaimIsVisit
  <2> QED
    BY <2>2, <2>3
<1>5. CASE BUAwake(w)
  <2>1. pc = "BUStep" /\ Types /\ TreeOK /\ my[w].i \in Nodes \ Visited
    BY <1>5, BUAwakeTells DEF SearchInv, Steady
  <2>2. PICK u \in LevelOf(level) : /\ my[w].i \in out_neigh[u] /\ parent' = [parent EXCEPT ![my[w].i] = u]
                                    /\ depth' = [depth EXCEPT ![my[w].i] = level + 1]
    BY <1>5, BUAwakeTells
  <2>3. BFS!Visit(my[w].i)
    BY <1>1, <2>1, <2>2, ClaimIsVisit
  <2> QED
    BY <2>1, <2>3
<1>6. CASE UNCHANGED tree
  BY <1>1, <1>6, TreeStays DEF tree
<1>7. TDClaim(w) /\ parent[my[w].v] # my[w].curr_val => UNCHANGED tree
  BY DEF TDClaim
<1>8. TDBegin(w) \/ TDNextVertex(w) \/ TDReadParent(w) \/ TDPush(w) \/ TDFlush(w) \/ FlushCopies(w) => UNCHANGED tree
  BY DEF TDBegin, TDNextVertex, TDReadParent, TDPush, TDFlush, FlushCopies
<1>9. QBBegin(w) \/ QBLoad(w) \/ QBCas(w) \/ BUClaimChunk(w) \/ BUSkip(w) \/ BUSetBit(w) => UNCHANGED tree
  BY DEF QBBegin, QBLoad, QBCas, BUClaimChunk, BUSkip, BUSetBit
<1>10. BQBegin(w) \/ BQScan(w) \/ BQPush(w) \/ BQFlush(w) => UNCHANGED tree
  BY DEF BQBegin, BQScan, BQPush, BQFlush
<1> QED
  BY <1>2, <1>3, <1>4, <1>5, <1>6, <1>7, <1>8, <1>9, <1>10 DEF WorkerStep

(* A step of main is an advance, or nothing.                                 *)
LEMMA MainRefines ==
  ASSUME SearchInv, MainStep
  PROVE  UNCHANGED BFS!vars \/ BFS!Advance
<1>1. UNCHANGED args /\ UNCHANGED <<out_neigh, source>> /\ Types
  BY DEF MainStep, args, SearchInv
<1>2. CASE Start
  BY <1>1, <1>2, StartStutters
<1>3. CASE EndTopDown
  <2>1. Joined("TDStep") /\ pc = "TDStep" /\ pc' = "while" /\ level' = level + 1 /\ UNCHANGED <<parent, depth>>
    BY <1>3 DEF EndTopDown, Joined, tree
  <2> QED
    BY <1>1, <2>1, TDLevelIsOver, OverIsAdvance
<1>4. CASE NextBottomUp \/ LeaveBottomUp
  <2>1. Joined("BUStep") /\ pc = "BUStep" /\ pc' \in {"BUStep", "BitmapToQueue"} /\ level' = level + 1 /\ UNCHANGED <<parent, depth>>
    BY <1>4 DEF NextBottomUp, LeaveBottomUp, Fork, Joined, tree
  <2> QED
    BY <1>1, <2>1, BULevelIsOver, OverIsAdvance
<1>5. ASSUME GoBottomUp \/ GoTopDown \/ EnterBottomUp \/ EndBottomUp \/ GoCleanup \/ Finish
      PROVE  pc # "InitParent" /\ pc' # "InitParent" /\ UNCHANGED <<level, parent, depth>>
  BY <1>5 DEF GoBottomUp, GoTopDown, EnterBottomUp, EndBottomUp, GoCleanup, Finish, Fork, Joined, tree
<1> QED
  BY <1>1, <1>2, <1>3, <1>4, <1>5, TreeStays DEF MainStep

--------------------------------------------------------------------------------
(* The theorems.                                                             *)

(* The inductive invariant: what the search keeps and what the tree keeps.   *)
IInv == SearchInv /\ LevelsInv

(* The edges of the levels that are over are settled throughout.             *)
LEMMA NothingToSettle ==
  ASSUME IInv
  PROVE  EdgesSettled
<1>1. CASE pc = "InitParent"
  <2>1. Visited = {}
    BY <1>1 DEF IInv, SearchInv, Steady, TreeOK, Visited
  <2> QED
    BY <2>1 DEF EdgesSettled
<1>2. CASE pc # "InitParent"
  BY <1>2, EdgesAreSettled DEF IInv, SearchInv
<1> QED
  BY <1>1, <1>2

(* The search starts with LevelBFS's tree.                                   *)
LEMMA InitTree == ASSUME Init PROVE BFS!Init
<1>1. /\ out_neigh \in [Nodes -> SUBSET Nodes] /\ source \in Nodes /\ pc = "InitParent" /\ level = 0
  BY DOBFSAssumption DEF Init
<1>2. -1 \notin Nodes
  BY NodesAreFinite
<1> QED
  BY <1>1, <1>2 DEF BFS!Init, BFS!Nobody, TreeParent, TreeDepth

(* Every step of the search is one of LevelBFS, or nothing to it.            *)
LEMMA StepRefines ==
  ASSUME IInv, [Next]_vars
  PROVE  [BFS!Next]_BFS!vars
<1>1. SearchInv /\ EdgesSettled
  BY NothingToSettle DEF IInv
<1>2. CASE UNCHANGED vars
  BY <1>2, TreeStays DEF vars, args, tree
<1>3. CASE MainStep
  BY <1>1, <1>3, MainRefines DEF BFS!Next
<1>4. CASE \E w \in Workers : WorkerStep(w)
  BY <1>1, <1>4, WorkerRefines DEF BFS!Next
<1> QED
  BY <1>2, <1>3, <1>4 DEF Next

(* The inductive invariant is inductive.                                     *)
LEMMA StepKeepsIInv ==
  ASSUME IInv, [Next]_vars
  PROVE  IInv'
<1>1. SearchInv /\ EdgesSettled
  BY NothingToSettle DEF IInv
<1>2. SearchInv'
  BY <1>1, StutterSearchInv, MainSearchInv, WorkerSearchInv DEF Next
<1>3. LevelsInv'
  BY StepRefines, LevelsAreKept DEF IInv
<1> QED
  BY <1>2, <1>3 DEF IInv

(* bfs_pthread.cc:502-584: the inductive invariant holds throughout every    *)
(* search, for every graph, team, chunk and buffer size and all tuning       *)
(* parameters.                                                               *)
THEOREM SearchKeepsIInv == Spec => []IInv
<1>1. Init => IInv
  BY InitSearchInv, InitTree, InitLevels DEF IInv
<1>2. IInv /\ [Next]_vars => IInv'
  BY StepKeepsIInv
<1> QED
  BY <1>1, <1>2, PTL DEF Spec

(* bfs_pthread.cc:381-385,390 and sliding_queue.h:105-106: no vertex is      *)
(* queued twice, so num_nodes slots suffice, and overlapping flushes have    *)
(* slots of their own.                                                       *)
THEOREM EveryVertexIsQueuedOnce == Spec => []NoVertexQueuedTwice
<1>1. IInv => NoVertexQueuedTwice
  <2> SUFFICES ASSUME IInv PROVE NoVertexQueuedTwice
    OBVIOUS
  <2>1. QOK /\ QueueTypes /\ OnePlaceEach /\ queue!FlushesAreDisjoint
    BY DEF IInv, SearchInv, Steady, QOK
  <2>2. queue!NoItemTwice
    BY <2>1, OnePlaceEachIsNoItemTwice
  <2>3. queue!NeverOverflows
    BY <2>1, SlotsSuffice, SharedSize DEF queue!NeverOverflows
  <2> QED
    BY <2>1, <2>2, <2>3 DEF NoVertexQueuedTwice
<1> QED
  BY <1>1, SearchKeepsIInv, PTL

(* bfs_pthread.cc:528,534: bits that an earlier bottom-up phase left in      *)
(* front have no unvisited out-neighbour, and the whole level is in front.   *)
THEOREM StaleBitsOfferNoParent == Spec => []StaleFrontIsHarmless
<1>1. IInv => StaleFrontIsHarmless
  <2> SUFFICES ASSUME IInv, pc = "BUStep" 
               PROVE  /\ LevelOf(level) \subseteq front
                      /\ \A v \in front \ LevelOf(level) : out_neigh[v] \subseteq Visited
    BY DEF StaleFrontIsHarmless
  <2>1. EdgesSettled /\ TreeOK /\ InBUStep /\ Types
    BY NothingToSettle DEF IInv, SearchInv, Steady
  <2>2. \A v \in front : v \in Visited /\ depth[v] <= level /\ v \in Nodes /\ depth[v] \in Nat \cup {-1} /\ level \in Nat
    BY <2>1 DEF TreeOK, Types
  <2>3. \A v \in front \ LevelOf(level) : depth[v] < level
    BY <2>2 DEF LevelOf
  <2> QED
    BY <2>1, <2>2, <2>3 DEF EdgesSettled, InBUStep
<1> QED
  BY <1>1, SearchKeepsIInv, PTL

(* bfs_pthread.cc:325-327,385: at the end of a region next and the reduced   *)
(* counts are exactly the claimed vertices, their number or their degrees.   *)
THEOREM MainTakesWhatWorkersDid == Spec => []RegionsReportExactly
<1>1. IInv => RegionsReportExactly
  <2> SUFFICES ASSUME IInv PROVE RegionsReportExactly
    OBVIOUS
  <2>1. Types /\ EdgesSettled /\ SearchInv
    BY NothingToSettle DEF IInv, SearchInv
  <2>2. ASSUME Joined("BUStep")
        PROVE  curr = LevelOf(level + 1) /\ Reduce = Cardinality(LevelOf(level + 1))
    <3>1. InBUStep /\ \A x \in Workers : my[x].pc = "done"
      BY <2>1, <2>2 DEF SearchInv, Joined
    <3>2. {my[w].i : w \in {x \in Workers : my[x].pc = "store"}} = {}
      BY <3>1
    <3> QED
      BY <3>1, <3>2 DEF InBUStep
  <2>3. ASSUME Joined("TDStep")
        PROVE  Reduce = SumFunction([v \in LevelOf(level + 1) |-> IF out_degree(v) = 0 THEN 1 ELSE out_degree(v)])
    <3>1. Reduce = SumFunction([v \in LevelOf(level + 1) |-> Weight(v)])
      BY <2>1, <2>3 DEF SearchInv, Joined, InTDStep
    <3>2. [v \in LevelOf(level + 1) |-> Weight(v)] = [v \in LevelOf(level + 1) |-> IF out_degree(v) = 0 THEN 1 ELSE out_degree(v)]
      BY DEF Weight
    <3> QED
      BY <3>1, <3>2
  <2> QED
    BY <2>2, <2>3 DEF RegionsReportExactly
<1> QED
  BY <1>1, SearchKeepsIInv, PTL

(* bfs_pthread.cc:502-584: the search, in any mix of directions, is a search *)
(* by levels.                                                                *)
THEOREM BothDirectionsSearchByLevels == Spec => ImplementsLevelBFS
<1>1. Init => BFS!Init
  BY InitTree
<1>2. IInv /\ [Next]_vars => [BFS!Next]_BFS!vars
  BY StepRefines
<1> QED
  BY <1>1, <1>2, SearchKeepsIInv, PTL DEF Spec, BFS!Spec, ImplementsLevelBFS

--------------------------------------------------------------------------------
(* The queue as LevelQueue sees it.                                          *)

(* A step that does not touch the queue is none of LevelQueue's.             *)
LEMMA QueueIsLeftAlone ==
  ASSUME SearchInv, UNCHANGED <<source, queue_vars>>, pc = "InitParent" <=> pc' = "InitParent"
  PROVE  UNCHANGED LQ!vars
<1>1. QOK
  BY DEF SearchInv, Steady
<1>2. queue!Pending' = queue!Pending /\ queue!Window' = queue!Window
  BY <1>1, QueueFrame
<1> QED
  BY <1>2 DEF LQ!vars

(* Writes behind the window do not change it.                                *)
LEMMA WindowStays ==
  ASSUME SearchInv, UNCHANGED <<source, pc, shared_out_start, shared_out_end>>,
         \A i \in 0 .. shared_out_end - 1 : shared'[i] = shared[i]
  PROVE  UNCHANGED (IF pc = "InitParent" THEN {source} ELSE queue!Window)
<1>1. \A i \in queue!WindowSlots : i \in 0 .. shared_out_end - 1
  BY DEF SearchInv, Steady, QOK, QueueTypes, queue!WindowSlots
<1>2. queue!Window' = queue!Window
  BY <1>1 DEF queue!Window, queue!WindowSlots
<1> QED
  BY <1>2

(* slide_window is LevelQueue's Slide: every buffer has been flushed.        *)
LEMMA SlideIsSlide ==
  ASSUME SearchInv, pc # "InitParent", pc' # "InitParent", queue!slide_window,
         pc \notin {"TDStep", "BitmapToQueue"} \/ \A w \in Workers : my[w].pc = "done"
  PROVE  LQ!Slide
<1>1. QOK /\ \A w \in Workers : copy_start[w] = queue!NotFlushing /\ local_queue[w] = <<>>
  BY BuffersAreIdle DEF SearchInv, Steady
<1>2. queue!Pending' = {} /\ queue!Window' = queue!Pending
  BY <1>1, SlideKeepsQueue
<1> QED
  BY <1>2 DEF LQ!Slide

(* push_back on a buffer is LevelQueue's Push, unless it flushes first.      *)
LEMMA PushIsPush ==
  ASSUME SearchInv, UNCHANGED <<source, pc>>, NEW w \in Workers, my[w].pc = "push", NEW label, Push(w, label),
         pc \in {"TDStep", "BitmapToQueue"}
  PROVE  [LQ!Next]_LQ!vars
<1> DEFINE v == my[w].v
<1>1. QOK /\ v \in Nodes /\ v \notin queue!Pending /\ \A i \in 0 .. shared_out_end - 1 : shared[i] # v
  BY TDPushIsNew, BQPushIsNew DEF SearchInv, Steady
<1>2. CASE queue!LocalPush(w, v)
  <2>1. queue!Pending' = queue!Pending \cup {v}
    BY <1>1, <1>2, PushKeepsQueue
  <2>2. UNCHANGED (IF pc = "InitParent" THEN {source} ELSE queue!Window)
    BY <1>2, WindowStays DEF queue!LocalPush
  <2>3. LQ!Push(v)
    BY <2>1, <2>2 DEF LQ!Push
  <2> QED
    BY <1>1, <2>3 DEF LQ!Next
<1>3. CASE queue!Reserve(w)
  <2>1. queue!Pending' = queue!Pending
    BY <1>1, <1>3, ReserveKeepsQueue
  <2>2. UNCHANGED (IF pc = "InitParent" THEN {source} ELSE queue!Window)
    BY <1>3, WindowStays DEF queue!Reserve
  <2> QED
    BY <2>1, <2>2 DEF LQ!vars
<1> QED
  BY <1>2, <1>3 DEF Push

(* Neither half of a flush changes what was pushed.                          *)
LEMMA FlushStutters ==
  ASSUME SearchInv, UNCHANGED <<source, pc>>, NEW w \in Workers, queue!Reserve(w) \/ queue!CopyOut(w)
  PROVE  UNCHANGED LQ!vars
<1>1. QOK
  BY DEF SearchInv, Steady
<1>2. CASE queue!Reserve(w)
  <2>1. queue!Pending' = queue!Pending
    BY <1>1, <1>2, ReserveKeepsQueue
  <2>2. UNCHANGED (IF pc = "InitParent" THEN {source} ELSE queue!Window)
    BY <1>2, WindowStays DEF queue!Reserve
  <2> QED
    BY <2>1, <2>2 DEF LQ!vars
<1>3. CASE queue!CopyOut(w)
  <2>1. queue!Pending' = queue!Pending /\ \A i \in 0 .. shared_out_end - 1 : shared'[i] = shared[i]
    BY <1>1, <1>3, CopyKeepsQueue
  <2>2. UNCHANGED (IF pc = "InitParent" THEN {source} ELSE queue!Window)
    BY <1>3, <2>1, WindowStays DEF queue!CopyOut
  <2> QED
    BY <2>1, <2>2 DEF LQ!vars
<1> QED
  BY <1>2, <1>3

(* The first window is the source.                                           *)
LEMMA FirstWindow ==
  ASSUME SearchInv, UNCHANGED args, Start
  PROVE  UNCHANGED LQ!vars
<1>1. pc = "InitParent" /\ pc' = "while" /\ queue!push_back_and_slide(source) /\ source' = source
  BY DEF Start, Joined, args
<1>2. QOK /\ shared_in = 0 /\ source \in Nodes /\ queue!Pending = {}
      /\ \A w \in Workers : copy_start[w] = queue!NotFlushing /\ local_queue[w] = <<>>
  BY <1>1, NothingPending, BuffersAreIdle DEF SearchInv, Steady, InInitParent, Types
<1>3. queue!Pending' = {} /\ queue!Window' = {source}
  BY <1>1, <1>2, FirstPushKeepsQueue
<1> QED
  BY <1>1, <1>2, <1>3 DEF LQ!vars

(* A worker's step is a push, or nothing, to LevelQueue.                     *)
LEMMA WorkerUsesQueue ==
  ASSUME SearchInv, NEW w \in Workers, WorkerStep(w)
  PROVE  [LQ!Next]_LQ!vars
<1>1. UNCHANGED <<source, pc>>
  BY DEF WorkerStep, args
<1>2. CASE TDPush(w) \/ BQPush(w)
  BY <1>1, <1>2, PushIsPush DEF TDPush, BQPush, At
<1>3. CASE TDFlush(w) \/ BQFlush(w) \/ FlushCopies(w)
  BY <1>1, <1>3, FlushStutters DEF TDFlush, BQFlush, FlushCopies, Copied
<1>4. CASE UNCHANGED queue_vars
  BY <1>1, <1>4, QueueIsLeftAlone
<1>5. InitParentWorker(w) \/ CleanupParentWorker(w) \/ TDBegin(w) \/ TDNextVertex(w) \/ TDReadParent(w) \/ TDClaim(w)
      => UNCHANGED queue_vars
  BY DEF InitParentWorker, CleanupParentWorker, TDBegin, TDNextVertex, TDReadParent, TDClaim
<1>6. QBBegin(w) \/ QBLoad(w) \/ QBCas(w) \/ BUClaimChunk(w) \/ BUSkip(w) \/ BUAwake(w) \/ BUSetBit(w) \/ BQBegin(w) \/ BQScan(w)
      => UNCHANGED queue_vars
  BY DEF QBBegin, QBLoad, QBCas, BUClaimChunk, BUSkip, BUAwake, BUSetBit, BQBegin, BQScan
<1> QED
  BY <1>2, <1>3, <1>4, <1>5, <1>6 DEF WorkerStep

(* A step of main is a slide, or nothing.                                    *)
LEMMA MainUsesQueue ==
  ASSUME SearchInv, MainStep
  PROVE  [LQ!Next]_LQ!vars
<1>1. UNCHANGED args /\ source' = source
  BY DEF MainStep, args
<1>2. CASE Start
  BY <1>1, <1>2, FirstWindow
<1>3. CASE EndTopDown \/ EndBottomUp \/ EnterBottomUp
  <2>1. /\ pc # "InitParent" /\ pc' # "InitParent" /\ queue!slide_window
        /\ pc \notin {"TDStep", "BitmapToQueue"} \/ \A w \in Workers : my[w].pc = "done"
    BY <1>3 DEF EndTopDown, EndBottomUp, EnterBottomUp, Joined, Fork
  <2> QED
    BY <2>1, SlideIsSlide DEF LQ!Next
<1>4. GoBottomUp \/ GoTopDown \/ NextBottomUp \/ LeaveBottomUp \/ GoCleanup \/ Finish
      => UNCHANGED queue_vars /\ pc # "InitParent" /\ pc' # "InitParent"
  BY DEF GoBottomUp, GoTopDown, NextBottomUp, LeaveBottomUp, GoCleanup, Finish, Joined, Fork
<1>5. CASE UNCHANGED queue_vars /\ pc # "InitParent" /\ pc' # "InitParent"
  BY <1>1, <1>5, QueueIsLeftAlone
<1> QED
  BY <1>2, <1>3, <1>4, <1>5 DEF MainStep

(* sliding_queue.h:17: what is pushed during a level, and nothing else, is   *)
(* the window of the next; and no window changes under its readers.          *)
THEOREM QueueKeepsLevels == Spec => ImplementsLevelQueue
<1>1. Init => LQ!Init
  <2> SUFFICES ASSUME Init PROVE LQ!Init
    OBVIOUS
  <2>1. SearchInv /\ pc = "InitParent" /\ source \in Nodes
    BY InitSearchInv DEF Init
  <2> QED
    BY <2>1, NothingPending DEF LQ!Init
<1>2. IInv /\ [Next]_vars => [LQ!Next]_LQ!vars
  <2> SUFFICES ASSUME IInv, [Next]_vars PROVE [LQ!Next]_LQ!vars
    OBVIOUS
  <2>1. CASE UNCHANGED vars
    BY <2>1, QueueIsLeftAlone DEF vars, args, IInv
  <2> QED
    BY <2>1, WorkerUsesQueue, MainUsesQueue DEF Next, IInv
<1> QED
  BY <1>1, <1>2, SearchKeepsIInv, PTL DEF Spec, LQ!Spec, ImplementsLevelQueue

--------------------------------------------------------------------------------
(* The tree as BFSVerifier sees it.                                          *)

(* One step of the serial search of BFSVerifier, and Ball as an equation.    *)
Wider(s) == s \cup UNION {out_neigh[u] : u \in s}

IsBall(n, f) == f = [k \in 0 .. n |-> IF k = 0 THEN {source} ELSE Wider(f[k - 1])]

(* Some function satisfies Ball's equation.                                  *)
LEMMA BallExists ==
  ASSUME NEW n \in Nat
  PROVE  \E f : IsBall(n, f)
<1> SUFFICES ASSUME ~\E f : IsBall(n, f) PROVE FALSE
  OBVIOUS
<1> DEFINE F == {m \in Nat : ~\E f : IsBall(m, f)}
<1>1. PICK m \in F : \A l \in F : m <= l
  <2>1. F \subseteq Nat /\ F # {}
    OBVIOUS
  <2> HIDE DEF F
  <2> QED
    BY <2>1, SmallestNumber
<1>2. CASE m = 0
  <2>1. IsBall(0, [k \in 0 .. 0 |-> {source}])
    BY DEF IsBall
  <2> QED
    BY <1>1, <1>2, <2>1
<1>3. CASE m # 0
  <2>1. m \in Nat /\ m - 1 \in Nat /\ m - 1 \notin F
    BY <1>1, <1>3
  <2>2. PICK f : IsBall(m - 1, f)
    BY <2>1
  <2> DEFINE g == [k \in 0 .. m |-> IF k < m THEN f[k] ELSE Wider(f[m - 1])]
  <2>3. ASSUME NEW k \in 0 .. m
        PROVE  g[k] = IF k = 0 THEN {source} ELSE Wider(g[k - 1])
    <3>1. CASE k = m
      <4>1. g[k - 1] = f[m - 1]
        BY <2>1, <3>1
      <4> HIDE DEF Wider
      <4> QED
        BY <1>3, <3>1, <4>1
    <3>2. CASE k # m
      <4>1. k \in 0 .. m - 1 /\ k < m
        BY <2>1, <3>2
      <4>2. f[k] = IF k = 0 THEN {source} ELSE Wider(f[k - 1])
        BY <2>2, <4>1 DEF IsBall
      <4>3. k # 0 => g[k - 1] = f[k - 1]
        BY <2>1, <4>1
      <4> QED
        BY <4>1, <4>2, <4>3
    <3> QED
      BY <3>1, <3>2
  <2>4. g = [k \in 0 .. m |-> g[k]]
    OBVIOUS
  <2> HIDE DEF g
  <2>5. g = [k \in 0 .. m |-> IF k = 0 THEN {source} ELSE Wider(g[k - 1])]
    BY <2>3, <2>4
  <2>6. IsBall(m, g)
    BY <2>5 DEF IsBall
  <2> QED
    BY <1>1, <2>6
<1> QED
  BY <1>2, <1>3

(* Ball does.                                                                *)
LEMMA BallGrows == IsBall(num_nodes, Ball)
<1>1. num_nodes \in Nat
  BY DOBFSAssumption
<1>2. PICK f : IsBall(num_nodes, f)
  BY <1>1, BallExists
<1>3. \E f_1 : f_1 = [k \in 0 .. num_nodes |->
              IF k = 0 THEN {source} ELSE f_1[k - 1] \cup UNION {out_neigh[u] : u \in f_1[k - 1]}]
  BY <1>2 DEF IsBall, Wider
<1>4. Ball = [k \in 0 .. num_nodes |->
              IF k = 0 THEN {source} ELSE Ball[k - 1] \cup UNION {out_neigh[u] : u \in Ball[k - 1]}]
  BY <1>3 DEF Ball
<1> QED
  BY <1>4 DEF IsBall, Wider

(* A breadth-first tree, and nothing else is marked as reached.              *)
BreadthFirst ==
  /\ depth[source] = 0 /\ parent[source] = source
  /\ \A v \in Visited \ {source} : /\ parent[v] \in Visited /\ v \in out_neigh[parent[v]]
                                   /\ depth[v] = depth[parent[v]] + 1
  /\ \A u \in Visited : \A v \in out_neigh[u] : v \in Visited /\ depth[v] <= depth[u] + 1

(* There is a vertex at every depth above a vertex.                          *)
LEMMA LevelsAreInhabited ==
  ASSUME Types, BreadthFirst, NEW v \in Visited, NEW d \in 0 .. depth[v]
  PROVE  \E u \in Visited : depth[u] = d
<1> SUFFICES ASSUME ~\E u \in Visited : depth[u] = d PROVE FALSE
  OBVIOUS
<1> DEFINE F == {e \in Nat : e > d /\ \E u \in Visited : depth[u] = e}
<1>1. \A u \in Visited : u \in Nodes /\ depth[u] \in Nat
  BY DEF Types, Visited
<1>2. PICK m \in F : \A e \in F : m <= e
  <2>1. depth[v] \in F /\ F \subseteq Nat
    BY <1>1
  <2> HIDE DEF F
  <2> QED
    BY <2>1, SmallestNumber
<1>3. PICK u \in Visited : depth[u] = m
  BY <1>2
<1>4. u # source
  BY <1>2, <1>3 DEF BreadthFirst
<1>5. parent[u] \in Visited /\ m = depth[parent[u]] + 1 /\ depth[parent[u]] \in Nat
  BY <1>1, <1>3, <1>4 DEF BreadthFirst
<1>6. depth[parent[u]] # d /\ m > d
  BY <1>2, <1>5
<1>7. depth[parent[u]] \in F
  BY <1>5, <1>6
<1> QED
  BY <1>2, <1>5, <1>7

(* So no vertex is as deep as there are vertices.                            *)
LEMMA DepthsAreBounded ==
  ASSUME Types, BreadthFirst, NEW v \in Visited
  PROVE  depth[v] < num_nodes
<1> DEFINE f == [d \in 0 .. depth[v] |-> CHOOSE u \in Visited : depth[u] = d]
<1>1. depth[v] \in Nat /\ num_nodes \in Nat
  BY DOBFSAssumption DEF Types, Visited
<1>2. ASSUME NEW d \in 0 .. depth[v] PROVE f[d] \in Visited /\ f[d] \in Nodes /\ depth[f[d]] = d
  BY LevelsAreInhabited DEF Visited
<1>3. f \in Injection(0 .. depth[v], Nodes)
  <2>1. f \in [0 .. depth[v] -> Nodes]
    <3>1. f = [d \in 0 .. depth[v] |-> f[d]]
      OBVIOUS
    <3> HIDE DEF f
    <3> QED
      BY <1>2, <3>1
  <2>2. \A d, e \in 0 .. depth[v] : f[d] = f[e] => d = e
    <3> HIDE DEF f
    <3> QED
      BY <1>2
  <2> HIDE DEF f
  <2> QED
    BY <2>1, <2>2 DEF Injection, IsInjective
<1> HIDE DEF f
<1>4. ASSUME NEW n \in Nat PROVE IsFiniteSet(0 .. n) /\ Cardinality(0 .. n) = n + 1
  BY FS_Interval
<1>5. Cardinality(Nodes) = num_nodes /\ IsFiniteSet(Nodes)
  <2>1. num_nodes - 1 \in Nat /\ (num_nodes - 1) + 1 = num_nodes
    BY DOBFSAssumption
  <2> QED
    BY <1>4, <2>1 DEF Nodes
<1> QED
  BY <1>1, <1>3, <1>4, <1>5, FS_Injection

(* In a breadth-first tree the vertices within k edges are those of depth at *)
(* most k.                                                                   *)
LEMMA BallsAreLevels ==
  ASSUME Types, BreadthFirst, NEW k \in 0 .. num_nodes
  PROVE  Ball[k] = {v \in Visited : depth[v] <= k}
<1> DEFINE Near(j) == {v \in Visited : depth[v] <= j}
           F == {j \in 0 .. num_nodes : Ball[j] # Near(j)}
<1> SUFFICES ASSUME F # {} PROVE FALSE
  OBVIOUS
<1>1. \A u \in Visited : u \in Nodes /\ depth[u] \in Nat
  BY DEF Types, Visited
<1>2. num_nodes \in Nat /\ source \in Visited
  BY DOBFSAssumption DEF Types, Visited, BreadthFirst
<1>3. PICK m \in F : \A j \in F : m <= j
  <2>1. F \subseteq Nat
    BY <1>2
  <2> HIDE DEF F
  <2> QED
    BY <2>1, SmallestNumber
<1>4. m \in 0 .. num_nodes /\ Ball[m] # Near(m)
  BY <1>3
<1>5. Ball[m] = IF m = 0 THEN {source} ELSE Wider(Ball[m - 1])
  <2> HIDE DEF F, Near
  <2> QED
    BY <1>4, BallGrows DEF IsBall
<1>6. CASE m = 0
  <2>1. \A v \in Visited : depth[v] <= 0 => v = source
    BY <1>1 DEF BreadthFirst
  <2>2. Near(m) = {source}
    BY <1>2, <1>6, <2>1 DEF BreadthFirst
  <2> QED
    BY <1>4, <1>5, <1>6, <2>2
<1>7. CASE m # 0
  <2>1. m - 1 \in 0 .. num_nodes /\ m - 1 \notin F
    BY <1>2, <1>3, <1>4, <1>7
  <2>2. Ball[m - 1] = Near(m - 1)
    BY <2>1
  <2>3. ASSUME NEW v \in Wider(Near(m - 1)) PROVE v \in Near(m)
    <3>1. CASE v \in Near(m - 1)
      BY <1>1, <1>4, <3>1
    <3>2. CASE \E u \in Near(m - 1) : v \in out_neigh[u]
      <4>1. PICK u \in Near(m - 1) : v \in out_neigh[u]
        BY <3>2
      <4>2. v \in Visited /\ depth[v] <= depth[u] + 1 /\ depth[u] <= m - 1 /\ depth[u] \in Nat /\ depth[v] \in Nat
        BY <1>1, <4>1 DEF BreadthFirst
      <4> QED
        BY <1>4, <4>2
    <3> QED
      BY <2>3, <3>1, <3>2 DEF Wider
  <2>4. ASSUME NEW v \in Near(m) PROVE v \in Wider(Near(m - 1))
    <3>1. v \in Visited /\ depth[v] <= m /\ depth[v] \in Nat
      BY <1>1
    <3>2. CASE depth[v] <= m - 1
      BY <3>1, <3>2 DEF Wider
    <3>3. CASE ~(depth[v] <= m - 1)
      <4>1. depth[v] = m /\ v # source
        BY <1>4, <1>7, <3>1, <3>3 DEF BreadthFirst
      <4>2. parent[v] \in Visited /\ v \in out_neigh[parent[v]] /\ depth[v] = depth[parent[v]] + 1 /\ depth[parent[v]] \in Nat
        BY <1>1, <3>1, <4>1 DEF BreadthFirst
      <4>3. parent[v] \in Near(m - 1)
        BY <1>4, <4>1, <4>2
      <4> HIDE DEF Near
      <4> QED
        BY <4>2, <4>3 DEF Wider
    <3> QED
      BY <3>2, <3>3
  <2>5. Wider(Near(m - 1)) = Near(m)
    <3> HIDE DEF Near
    <3> QED
      BY <2>3, <2>4
  <2> QED
    BY <1>4, <1>5, <1>7, <2>2, <2>5
<1> QED
  BY <1>6, <1>7

(* The verifier's distances are the depths.                                  *)
LEMMA DistanceIsDepth ==
  ASSUME Types, BreadthFirst, NEW v \in Nodes
  PROVE  Distance(v) = depth[v]
<1>1. num_nodes \in Nat /\ num_nodes \in 0 .. num_nodes
  BY DOBFSAssumption
<1>2. ASSUME NEW k \in 0 .. num_nodes PROVE v \in Ball[k] <=> v \in Visited /\ depth[v] <= k
  BY BallsAreLevels
<1>3. CASE v \notin Visited
  <2>1. v \notin Ball[num_nodes] /\ depth[v] = -1
    BY <1>1, <1>2, <1>3 DEF Visited
  <2> QED
    BY <2>1 DEF Distance
<1>4. CASE v \in Visited
  <2> DEFINE D == depth[v]
             Least(k) == v \in Ball[k] /\ (k = 0 \/ v \notin Ball[k - 1])
  <2>1. D \in Nat /\ D < num_nodes /\ D \in 0 .. num_nodes
    BY <1>1, <1>4, DepthsAreBounded DEF Types, Visited
  <2>2. v \in Ball[num_nodes]
    BY <1>1, <1>2, <1>4, <2>1
  <2>3. Least(D)
    <3>1. v \in Ball[D]
      BY <1>2, <1>4, <2>1
    <3>2. D # 0 => v \notin Ball[D - 1]
      <4>1. ASSUME NEW n \in 0 .. num_nodes, n # 0
            PROVE  n - 1 \in 0 .. num_nodes /\ ~(n <= n - 1)
        BY <1>1, <4>1
      <4> QED
        BY <1>2, <2>1, <4>1
    <3> QED
      BY <3>1, <3>2
  <2>4. ASSUME NEW k \in 0 .. num_nodes, Least(k) PROVE k = D
    <3>1. D <= k
      BY <1>2, <2>4
    <3>2. k # 0 => ~(D <= k - 1)
      <4>1. k # 0 => k - 1 \in 0 .. num_nodes
        BY <1>1
      <4> QED
        BY <1>2, <1>4, <2>4, <4>1
    <3> QED
      BY <2>1, <3>1, <3>2
  <2>5. (CHOOSE k \in 0 .. num_nodes : Least(k)) = D
    <3> HIDE DEF Least, D
    <3> QED
      BY <2>1, <2>3, <2>4
  <2> QED
    BY <2>2, <2>5 DEF Distance
<1> QED
  BY <1>3, <1>4

(* When the search is over its tree is breadth-first.                        *)
LEMMA TreeIsBreadthFirst ==
  ASSUME IInv, pc = "done"
  PROVE  BreadthFirst
<1>1. Types /\ TreeOK /\ LevelOf(level) = {} /\ LevelsInv
  BY DEF IInv, SearchInv, Steady, WindowOK
<1>2. /\ TreeDepth = depth /\ TreeParent = [v \in Nodes |-> IF parent[v] < 0 THEN -1 ELSE parent[v]]
      /\ BFS!Visited = Visited /\ BFS!Frontier = LevelOf(level)
  BY <1>1, TreeWhenStarted
<1>3. BFS!Done
  BY <1>1, <1>2 DEF BFS!Done
<1>4. \A u \in Visited : depth[u] < level
  BY <1>1, <1>2, <1>3, EmptyLevelIsLast
<1>5. \A u \in Visited : \A v \in out_neigh[u] : v \in Visited /\ depth[v] <= depth[u] + 1
  BY <1>1, <1>2, <1>4 DEF LevelsInv, BFS!NoEdgeMissed
<1>6. \A v \in Visited : v \in Nodes /\ parent[v] \in Nodes /\ TreeParent[v] = parent[v]
  <2>1. \A n \in Nodes : n \in Int /\ ~(n < 0)
    BY NodesAreFinite
  <2>2. \A v \in Visited : v \in Nodes /\ parent[v] \in Nodes
    BY <1>1 DEF TreeOK, Visited
  <2> QED
    BY <1>2, <2>1, <2>2
<1>7. source \in Visited
  BY <1>1 DEF TreeOK, Visited, Types
<1>8. BFS!TreeByLevels
  BY <1>1 DEF LevelsInv
<1>9. depth[source] = 0 /\ parent[source] = source
  BY <1>2, <1>6, <1>7, <1>8 DEF BFS!TreeByLevels
<1>10. \A v \in Visited \ {source} : parent[v] \in Visited /\ v \in out_neigh[parent[v]] /\ depth[v] = depth[parent[v]] + 1
  BY <1>2, <1>6, <1>8 DEF BFS!TreeByLevels
<1> QED
  BY <1>5, <1>9, <1>10 DEF BreadthFirst

(* bfs_pthread.cc:586-632: BFSVerifier accepts the parents of every run,     *)
(* whatever the graph, the interleaving and the switches of direction.       *)
THEOREM VerifierAcceptsEveryTree == Spec => []ResultVerifies
<1>1. IInv => ResultVerifies
  <2> SUFFICES ASSUME IInv, pc = "done", NEW u \in Nodes PROVE VerifierAccepts(u)
    BY DEF ResultVerifies
  <2>1. Types /\ TreeOK /\ parent[u] >= -1 /\ BreadthFirst
    BY TreeIsBreadthFirst DEF IInv, SearchInv, Steady
  <2>2. \A v \in Nodes : Distance(v) = depth[v]
    BY <2>1, DistanceIsDepth
  <2>3. CASE depth[u] = -1
    <3>1. parent[u] = -1
      BY <2>1, <2>3 DEF TreeOK, Types
    <3> QED
      BY <2>2, <2>3, <3>1 DEF VerifierAccepts
  <2>4. CASE depth[u] # -1
    <3>1. u \in Visited /\ depth[u] \in Nat /\ parent[u] # -1
      BY <2>1, <2>4, NodesAreFinite DEF Visited, Types, TreeOK
    <3>2. CASE u = source
      BY <2>1, <2>2, <2>4, <3>1, <3>2 DEF BreadthFirst, VerifierAccepts
    <3>3. CASE u # source
      <4>1. parent[u] \in Visited /\ parent[u] \in Nodes /\ u \in out_neigh[parent[u]]
            /\ depth[u] = depth[parent[u]] + 1 /\ depth[parent[u]] \in Nat
        BY <2>1, <3>1, <3>3 DEF BreadthFirst, Visited, Types
      <4>2. parent[u] \in in_neigh(u) /\ Distance(parent[u]) = Distance(u) - 1
        BY <2>2, <4>1 DEF in_neigh
      <4> QED
        BY <2>2, <2>4, <3>1, <3>3, <4>2 DEF VerifierAccepts
    <3> QED
      BY <3>2, <3>3
  <2> QED
    BY <2>3, <2>4
<1> QED
  BY <1>1, SearchKeepsIInv, PTL

================================================================================
