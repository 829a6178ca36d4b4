--------------------------------- MODULE DOBFS ---------------------------------
(***************************************************************************)
(* The direction-optimizing BFS: DOBFS of src/src/bfs_pthread.cc with its     *)
(* six parallel regions.  src/src/bfs.cc (OpenMP) and src/bfs.cc (Caladan)    *)
(* run the same regions on another runtime.                                  *)
(*                                                                          *)
(* A region is a fork and a join of all workers (ForkJoin, which ThreadPool  *)
(* implements).  Inside a region every access to memory that another worker  *)
(* may write is a step; main works alone between regions, so its steps there *)
(* are merged with the join before and the fork after them.                  *)
(*                                                                          *)
(* The order of an adjacency list is abstracted: a worker takes the          *)
(* neighbours of a vertex in any order.                                      *)
(***************************************************************************)
EXTENDS Integers, Sequences, FiniteSets, Functions

CONSTANTS
  num_nodes,
  NumThreads,
  Graphs,           \* the graphs: functions from a vertex to its out-neighbours
  Alphas, Betas, MaxBuIters,        \* the tuning parameters (GAPBS_BFS_*)
  kChunk,           \* vertices per dynamic chunk of BUStep, 1024 in the code
  kBitsPerWord,     \* bits per word of a Bitmap, 64 in the code
  local_size,       \* capacity of a QueueBuffer, 16384 in the code
  Garbage

Nodes == 0 .. num_nodes - 1
Workers == 0 .. NumThreads - 1

ASSUME DOBFSAssumption ==
  /\ num_nodes \in Nat \ {0} /\ NumThreads \in Nat \ {0}
  /\ Graphs \subseteq [Nodes -> SUBSET Nodes]
  /\ Alphas \subseteq Nat \ {0} /\ Betas \subseteq Nat \ {0} /\ MaxBuIters \subseteq Nat
  /\ kChunk \in Nat \ {0} /\ local_size \in Nat \ {0}
  /\ Garbage \notin Nodes

(* 1024 and 64: a chunk of BUStep is made of whole words of the bitmap.      *)
ASSUME ChunkAssumption == kBitsPerWord \in Nat \ {0} /\ kChunk % kBitsPerWord = 0

VARIABLES
  out_neigh, source, alpha, beta, max_bu_iters,     \* the arguments
  pc,               \* the region main is in, "while" at the loop test, "done"
  parent,
  shared, shared_in, shared_out_start, shared_out_end, local_queue, copy_start,
  front, curr,      \* the two bitmaps
  edges_to_check, scout_count, awake_count, old_awake_count, bu_iters,
  next_index,       \* of the dynamic schedule of BUStep
  my,               \* the local variables of every worker
  depth, level      \* auxiliary: the level a vertex was claimed at, and the
                    \* level being expanded; never read by the code

args == <<out_neigh, source, alpha, beta, max_bu_iters>>
queue_vars == <<shared, shared_in, shared_out_start, shared_out_end, local_queue, copy_start>>
bitmaps == <<front, curr>>
tree == <<parent, depth>>
counters == <<edges_to_check, scout_count, awake_count, old_awake_count, bu_iters>>
vars == <<args, pc, tree, queue_vars, bitmaps, counters, next_index, my, level>>

queue == INSTANCE SlidingQueue WITH Items <- Nodes, Threads <- Workers
bitmap == INSTANCE Bitmap

out_degree(n) == Cardinality(out_neigh[n])
in_neigh(n) == {m \in Nodes : n \in out_neigh[m]}
num_edges_directed == SumFunction([n \in Nodes |-> out_degree(n)])

(* GOMP's static schedule.                                                   *)
StaticRange(n, tid) ==
  LET q == n \div NumThreads
      r == n % NumThreads
  IN  IF tid < r THEN [begin |-> (q + 1) * tid, end |-> (q + 1) * tid + q + 1]
                 ELSE [begin |-> q * tid + r, end |-> q * tid + r + q]

NewWorker == [pc |-> "begin", i |-> 0, end |-> 0, u |-> 0, todo |-> {}, v |-> 0,
              curr_val |-> 0, word |-> {}, count |-> 0]

Init ==
  /\ out_neigh \in Graphs /\ source \in Nodes
  /\ alpha \in Alphas /\ beta \in Betas /\ max_bu_iters \in MaxBuIters
  /\ pc = "InitParent"
  /\ parent = [n \in Nodes |-> 0]       \* uninitialized: looks like a claim
  /\ queue!Init
  /\ front = {} /\ curr = {}
  /\ edges_to_check = 0 /\ scout_count = 0
  /\ awake_count = 0 /\ old_awake_count = 0 /\ bu_iters = 0
  /\ next_index = 0
  /\ my = [w \in Workers |-> NewWorker]
  /\ depth = [n \in Nodes |-> -1] /\ level = 0

--------------------------------------------------------------------------------
(* The runtime.                                                              *)

Fork(region) == pc' = region /\ my' = [w \in Workers |-> NewWorker]

Joined(region) == pc = region /\ \A w \in Workers : my[w].pc = "done"

At(region, w, label) == pc = region /\ my[w].pc = label

(* The reduction over the workers' partial counts.                           *)
Reduce == SumFunction([w \in Workers |-> my[w].count])

(* A worker records its range of a static schedule over n iterations.        *)
TakeRange(w, n, label) ==
  my' = [my EXCEPT ![w].i = StaticRange(n, w).begin,
                   ![w].end = StaticRange(n, w).end, ![w].pc = label]

Range_(w) == StaticRange(num_nodes, w).begin .. StaticRange(num_nodes, w).end - 1

--------------------------------------------------------------------------------
(* InitParent and the cleanup.  The ranges of the workers are disjoint and   *)
(* nobody reads another's, so a worker's writes are one step.                *)

InitParentWorker(w) ==
  /\ At("InitParent", w, "begin")
  /\ parent' = [n \in Nodes |->
                  IF n \notin Range_(w) THEN parent[n]
                  ELSE IF out_degree(n) # 0 THEN -out_degree(n) ELSE -1]
  /\ my' = [my EXCEPT ![w].pc = "done"]
  /\ UNCHANGED <<depth, queue_vars, bitmaps, next_index>>

CleanupParentWorker(w) ==
  /\ At("Cleanup", w, "begin")
  /\ parent' = [n \in Nodes |-> IF n \in Range_(w) /\ parent[n] < -1 THEN -1 ELSE parent[n]]
  /\ my' = [my EXCEPT ![w].pc = "done"]
  /\ UNCHANGED <<depth, queue_vars, bitmaps, next_index>>

--------------------------------------------------------------------------------
(* TDStepWorker: every worker expands its share of the queue's window.       *)

TDBegin(w) ==
  /\ At("TDStep", w, "begin")
  /\ TakeRange(w, queue!size, "edges")
  /\ UNCHANGED <<tree, queue_vars, bitmaps, next_index>>

TDNextVertex(w) ==
  /\ At("TDStep", w, "edges")
  /\ my[w].todo = {} /\ my[w].i < my[w].end
  /\ LET u == shared[shared_out_start + my[w].i] IN
       my' = [my EXCEPT ![w].u = u, ![w].todo = out_neigh[u], ![w].i = @ + 1]
  /\ UNCHANGED <<tree, queue_vars, bitmaps, next_index>>

(* parent[v] is read; only a vertex that looks unvisited is tried.           *)
TDReadParent(w) ==
  /\ At("TDStep", w, "edges")
  /\ \E v \in my[w].todo :
       my' = IF parent[v] < 0
             THEN [my EXCEPT ![w].todo = @ \ {v}, ![w].v = v,
                             ![w].curr_val = parent[v], ![w].pc = "cas"]
             ELSE [my EXCEPT ![w].todo = @ \ {v}]
  /\ UNCHANGED <<tree, queue_vars, bitmaps, next_index>>

(* Faulty variant of TDClaim: the parent is stored without comparing.        *)
TDStoreUncompared(w) ==
  /\ At("TDStep", w, "cas")
  /\ parent' = [parent EXCEPT ![my[w].v] = my[w].u]
  /\ depth' = [depth EXCEPT ![my[w].v] = depth[my[w].u] + 1]
  /\ my' = [my EXCEPT ![w].pc = "push", ![w].count = @ - my[w].curr_val]
  /\ UNCHANGED <<queue_vars, bitmaps, next_index>>

TDClaim(w) ==
  /\ At("TDStep", w, "cas")
  /\ LET v == my[w].v IN
       IF parent[v] = my[w].curr_val
       THEN /\ parent' = [parent EXCEPT ![v] = my[w].u]
            /\ depth' = [depth EXCEPT ![v] = depth[my[w].u] + 1]
            /\ my' = [my EXCEPT ![w].pc = "push", ![w].count = @ - my[w].curr_val]
       ELSE my' = [my EXCEPT ![w].pc = "edges"] /\ UNCHANGED tree
  /\ UNCHANGED <<queue_vars, bitmaps, next_index>>

(* lqueue.push_back(v), which flushes a full buffer first.                   *)
Push(w, label) ==
  \/ /\ ~queue!Full(w)
     /\ queue!LocalPush(w, my[w].v)
     /\ my' = [my EXCEPT ![w].pc = label]
  \/ /\ queue!Full(w)
     /\ queue!Reserve(w)
     /\ my' = [my EXCEPT ![w].pc = "copy"]

Copied(w) ==
  /\ queue!CopyOut(w)
  /\ my' = [my EXCEPT ![w].pc = IF @ = "copy" THEN "push" ELSE "done"]

TDPush(w) ==
  /\ At("TDStep", w, "push")
  /\ Push(w, "edges")
  /\ UNCHANGED <<tree, bitmaps, next_index>>

TDFlush(w) ==
  /\ At("TDStep", w, "edges")
  /\ my[w].todo = {} /\ my[w].i = my[w].end
  /\ queue!Reserve(w)
  /\ my' = [my EXCEPT ![w].pc = "lastcopy"]
  /\ UNCHANGED <<tree, bitmaps, next_index>>

(* The copy that ends a flush; after the last one the worker's count is      *)
(* stored for main and the worker is done.                                   *)
FlushCopies(w) ==
  /\ pc \in {"TDStep", "BitmapToQueue"}
  /\ my[w].pc \in {"copy", "lastcopy"}
  /\ Copied(w)
  /\ UNCHANGED <<tree, bitmaps, next_index>>

--------------------------------------------------------------------------------
(* QueueToBitmapWorker: the window's vertices are set in front.              *)

QBBegin(w) ==
  /\ At("QueueToBitmap", w, "begin")
  /\ TakeRange(w, queue!size, "load")
  /\ UNCHANGED <<tree, queue_vars, bitmaps, next_index>>

(* set_bit_atomic loads the word ...                                         *)
QBLoad(w) ==
  /\ At("QueueToBitmap", w, "load")
  /\ IF my[w].i = my[w].end
     THEN my' = [my EXCEPT ![w].pc = "done"]
     ELSE LET u == shared[shared_out_start + my[w].i] IN
            my' = [my EXCEPT ![w].u = u, ![w].word = bitmap!LoadWord(front, u),
                             ![w].pc = "cas"]
  /\ UNCHANGED <<tree, queue_vars, bitmaps, next_index>>

(* Faulty variant of QBCas: set_bit instead of set_bit_atomic.               *)
QBStore(w) ==
  /\ At("QueueToBitmap", w, "cas")
  /\ front' = bitmap!SetBitStore(front, my[w].u, my[w].word)
  /\ my' = [my EXCEPT ![w].i = @ + 1, ![w].pc = "load", ![w].word = {}]
  /\ UNCHANGED <<tree, queue_vars, curr, next_index>>

(* ... and stores it if it is still the same, or tries again.                *)
QBCas(w) ==
  /\ At("QueueToBitmap", w, "cas")
  /\ LET u == my[w].u IN
       IF bitmap!LoadWord(front, u) = my[w].word
       THEN /\ front' = bitmap!SetBitStore(front, u, my[w].word)
            /\ my' = [my EXCEPT ![w].i = @ + 1, ![w].pc = "load", ![w].word = {}]
       ELSE my' = [my EXCEPT ![w].pc = "load"] /\ UNCHANGED front
  /\ UNCHANGED <<tree, queue_vars, curr, next_index>>

--------------------------------------------------------------------------------
(* BUStepWorker: every worker takes chunks of all vertices.                  *)

(* Faulty variant of BUClaimChunk: a chunk is smaller than a bitmap word.    *)
BUClaimHalfWord(w) ==
  /\ pc = "BUStep" /\ my[w].pc \in {"begin", "vertex"}
  /\ my[w].i = my[w].end
  /\ next_index' = next_index + kBitsPerWord \div 2
  /\ my' = IF next_index >= num_nodes
           THEN [my EXCEPT ![w].pc = "done"]
           ELSE [my EXCEPT ![w].i = next_index, ![w].pc = "vertex",
                           ![w].end = IF next_index' < num_nodes THEN next_index' ELSE num_nodes]
  /\ UNCHANGED <<tree, queue_vars, bitmaps>>

BUClaimChunk(w) ==
  /\ pc = "BUStep" /\ my[w].pc \in {"begin", "vertex"}
  /\ my[w].i = my[w].end
  /\ next_index' = next_index + kChunk
  /\ my' = IF next_index >= num_nodes
           THEN [my EXCEPT ![w].pc = "done"]
           ELSE [my EXCEPT ![w].i = next_index, ![w].pc = "vertex",
                           ![w].end = IF next_index + kChunk < num_nodes
                                      THEN next_index + kChunk ELSE num_nodes]
  /\ UNCHANGED <<tree, queue_vars, bitmaps>>

(* The parents of the front that a vertex may take.  front is not written    *)
(* in this region and parent[u] only by the owner of u's chunk.              *)
Awakening(u) == IF parent[u] < 0 THEN {v \in in_neigh(u) : bitmap!get_bit(front, v)} ELSE {}

(* A vertex that stays as it is ...                                          *)
BUSkip(w) ==
  /\ At("BUStep", w, "vertex")
  /\ my[w].i < my[w].end /\ Awakening(my[w].i) = {}
  /\ my' = [my EXCEPT ![w].i = @ + 1]
  /\ UNCHANGED <<tree, queue_vars, bitmaps, next_index>>

(* ... or that takes a parent; next.set_bit(u) loads its word.               *)
BUAwake(w) ==
  /\ At("BUStep", w, "vertex")
  /\ my[w].i < my[w].end
  /\ LET u == my[w].i IN
       /\ \E v \in Awakening(u) :
            /\ parent' = [parent EXCEPT ![u] = v]
            /\ depth' = [depth EXCEPT ![u] = depth[v] + 1]
       /\ my' = [my EXCEPT ![w].count = @ + 1, ![w].word = bitmap!LoadWord(curr, u),
                           ![w].pc = "store"]
  /\ UNCHANGED <<queue_vars, bitmaps, next_index>>

(* Faulty variant of BUSetBit: front is updated in place.                    *)
BUSetBitInPlace(w) ==
  /\ At("BUStep", w, "store")
  /\ curr' = bitmap!SetBitStore(curr, my[w].i, my[w].word)
  /\ front' = front \cup {my[w].i}
  /\ my' = [my EXCEPT ![w].i = @ + 1, ![w].pc = "vertex", ![w].word = {}]
  /\ UNCHANGED <<tree, queue_vars, next_index>>

(* next.set_bit(u) stores the word, changed by others or not.                *)
BUSetBit(w) ==
  /\ At("BUStep", w, "store")
  /\ curr' = bitmap!SetBitStore(curr, my[w].i, my[w].word)
  /\ my' = [my EXCEPT ![w].i = @ + 1, ![w].pc = "vertex", ![w].word = {}]
  /\ UNCHANGED <<tree, queue_vars, front, next_index>>

--------------------------------------------------------------------------------
(* BitmapToQueueWorker: the bits of a static range are pushed.               *)

BQBegin(w) ==
  /\ At("BitmapToQueue", w, "begin")
  /\ TakeRange(w, num_nodes, "scan")
  /\ UNCHANGED <<tree, queue_vars, bitmaps, next_index>>

BQScan(w) ==
  /\ At("BitmapToQueue", w, "scan")
  /\ my[w].i < my[w].end
  /\ my' = [my EXCEPT ![w].v = my[w].i, ![w].i = @ + 1,
                      ![w].pc = IF bitmap!get_bit(front, my[w].i) THEN "push" ELSE "scan"]
  /\ UNCHANGED <<tree, queue_vars, bitmaps, next_index>>

BQPush(w) ==
  /\ At("BitmapToQueue", w, "push")
  /\ Push(w, "scan")
  /\ UNCHANGED <<tree, bitmaps, next_index>>

BQFlush(w) ==
  /\ At("BitmapToQueue", w, "scan")
  /\ my[w].i = my[w].end
  /\ queue!Reserve(w)
  /\ my' = [my EXCEPT ![w].pc = "lastcopy"]
  /\ UNCHANGED <<tree, bitmaps, next_index>>

--------------------------------------------------------------------------------
(* DOBFS itself.                                                             *)

(* The tree gets its root, the queue its first window, the bitmaps are       *)
(* cleared and the counters set.                                             *)
Start ==
  /\ Joined("InitParent")
  /\ parent' = [parent EXCEPT ![source] = source]
  /\ depth' = [depth EXCEPT ![source] = 0]
  /\ queue!push_back_and_slide(source)
  /\ front' = {} /\ curr' = {}
  /\ edges_to_check' = num_edges_directed
  /\ scout_count' = out_degree(source)
  /\ pc' = "while"
  /\ UNCHANGED <<awake_count, old_awake_count, bu_iters, next_index, my, level>>

GoBottomUp ==
  /\ pc = "while" /\ ~queue!empty
  /\ scout_count > edges_to_check \div alpha
  /\ Fork("QueueToBitmap")
  /\ UNCHANGED <<tree, queue_vars, bitmaps, counters, next_index, level>>

GoTopDown ==
  /\ pc = "while" /\ ~queue!empty
  /\ scout_count <= edges_to_check \div alpha
  /\ edges_to_check' = edges_to_check - scout_count
  /\ Fork("TDStep")
  /\ UNCHANGED <<tree, queue_vars, bitmaps, scout_count, awake_count,
                 old_awake_count, bu_iters, next_index, level>>

EndTopDown ==
  /\ Joined("TDStep")
  /\ scout_count' = Reduce
  /\ queue!slide_window
  /\ level' = level + 1
  /\ pc' = "while"
  /\ UNCHANGED <<tree, bitmaps, edges_to_check, awake_count, old_awake_count,
                 bu_iters, next_index, my>>

(* The first iteration of the do-while loop begins; BUStep resets next.      *)
EnterBottomUp ==
  /\ Joined("QueueToBitmap")
  /\ awake_count' = queue!size
  /\ old_awake_count' = queue!size
  /\ queue!slide_window
  /\ bu_iters' = 0
  /\ curr' = {} /\ next_index' = 0
  /\ Fork("BUStep")
  /\ UNCHANGED <<tree, front, edges_to_check, scout_count, level>>

(* The condition of the do-while loop, after awake vertices in iteration n.  *)
KeepsGoing(awake, n) ==
  /\ max_bu_iters = 0 \/ n < max_bu_iters
  /\ awake >= old_awake_count \/ awake > num_nodes \div beta

NextBottomUp ==
  /\ Joined("BUStep") /\ KeepsGoing(Reduce, bu_iters + 1)
  /\ awake_count' = Reduce
  /\ old_awake_count' = Reduce
  /\ bu_iters' = bu_iters + 1
  /\ front' = curr /\ curr' = {} /\ next_index' = 0
  /\ level' = level + 1
  /\ Fork("BUStep")
  /\ UNCHANGED <<tree, queue_vars, edges_to_check, scout_count>>

LeaveBottomUp ==
  /\ Joined("BUStep") /\ ~KeepsGoing(Reduce, bu_iters + 1)
  /\ awake_count' = Reduce
  /\ bu_iters' = bu_iters + 1
  /\ front' = curr /\ curr' = front
  /\ level' = level + 1
  /\ Fork("BitmapToQueue")
  /\ UNCHANGED <<tree, queue_vars, edges_to_check, scout_count, old_awake_count,
                 next_index>>

(* Faulty variant of EndBottomUp: the window does not slide.                 *)
EndBottomUpUnslid ==
  /\ Joined("BitmapToQueue")
  /\ scout_count' = 1
  /\ pc' = "while"
  /\ UNCHANGED <<tree, queue_vars, bitmaps, edges_to_check, awake_count,
                 old_awake_count, bu_iters, next_index, my, level>>

EndBottomUp ==
  /\ Joined("BitmapToQueue")
  /\ queue!slide_window
  /\ scout_count' = 1
  /\ pc' = "while"
  /\ UNCHANGED <<tree, bitmaps, edges_to_check, awake_count, old_awake_count,
                 bu_iters, next_index, my, level>>

GoCleanup ==
  /\ pc = "while" /\ queue!empty
  /\ Fork("Cleanup")
  /\ UNCHANGED <<tree, queue_vars, bitmaps, counters, next_index, level>>

Finish ==
  /\ Joined("Cleanup")
  /\ pc' = "done"
  /\ UNCHANGED <<tree, queue_vars, bitmaps, counters, next_index, my, level>>

--------------------------------------------------------------------------------
MainStep ==
  /\ UNCHANGED args
  /\ \/ Start
     \/ GoBottomUp
     \/ GoTopDown
     \/ EndTopDown
     \/ EnterBottomUp
     \/ NextBottomUp
     \/ LeaveBottomUp
     \/ EndBottomUp
     \/ GoCleanup
     \/ Finish

(* No worker writes what belongs to main.                                    *)
WorkerStep(w) ==
  /\ UNCHANGED <<args, pc, counters, level>>
  /\ \/ InitParentWorker(w)
     \/ CleanupParentWorker(w)
     \/ TDBegin(w)
     \/ TDNextVertex(w)
     \/ TDReadParent(w)
     \/ TDClaim(w)
     \/ TDPush(w)
     \/ TDFlush(w)
     \/ FlushCopies(w)
     \/ QBBegin(w)
     \/ QBLoad(w)
     \/ QBCas(w)
     \/ BUClaimChunk(w)
     \/ BUSkip(w)
     \/ BUAwake(w)
     \/ BUSetBit(w)
     \/ BQBegin(w)
     \/ BQScan(w)
     \/ BQPush(w)
     \/ BQFlush(w)

Next == MainStep \/ \E w \in Workers : WorkerStep(w)

Spec == Init /\ [][Next]_vars

(* Main and every worker are scheduled.                                      *)
FairSpec == Spec /\ WF_vars(MainStep) /\ \A w \in Workers : WF_vars(WorkerStep(w))

--------------------------------------------------------------------------------
Visited == {v \in Nodes : depth[v] # -1}
LevelOf(k) == {v \in Nodes : depth[v] = k}

(* bfs_pthread.cc:381-385,390 and sliding_queue.h:105-106: no vertex is      *)
(* pushed twice in a search, by any mix of the two directions; this is what  *)
(* keeps a queue of num_nodes slots, never checked, from overflowing.  Two   *)
(* flushes that overlap in time copy to slots of their own.                  *)
NoVertexQueuedTwice == queue!NoItemTwice /\ queue!NeverOverflows /\ queue!FlushesAreDisjoint

LQ == INSTANCE LevelQueue
        WITH Items <- Nodes, next <- queue!Pending,
             current <- IF pc = "InitParent" THEN {source} ELSE queue!Window

(* sliding_queue.h:17: nothing that was pushed is lost, nothing is made   *)
(* up, and the window does not change under its readers.                     *)
ImplementsLevelQueue == LQ!Spec

(* bfs_pthread.cc:528,534: front is cleared once per search, so a bottom-up  *)
(* phase that is not the first starts with bits of the phase before it.      *)
(* Such a bit offers no parent: its vertex has no unvisited out-neighbour.   *)
StaleFrontIsHarmless ==
  pc = "BUStep" =>
    /\ LevelOf(level) \subseteq front
    /\ \A v \in front \ LevelOf(level) : out_neigh[v] \subseteq Visited

(* bfs_pthread.cc:325-327,385: main takes from a region what it is meant to. *)
(* set_bit is not atomic, yet no vertex the workers of BUStep claimed is     *)
(* missing from next; and the partial counts add up to the claimed vertices, *)
(* or to their degrees as the negative parents encoded them.                 *)
RegionsReportExactly ==
  /\ Joined("BUStep") => /\ curr = LevelOf(level + 1)
                        /\ Reduce = Cardinality(LevelOf(level + 1))
  /\ Joined("TDStep") =>
       Reduce = SumFunction([v \in LevelOf(level + 1) |->
                               IF out_degree(v) = 0 THEN 1 ELSE out_degree(v)])

(* The serial search of BFSVerifier: the vertices within k edges.            *)
Ball[k \in 0 .. num_nodes] ==
  IF k = 0 THEN {source}
  ELSE LET inner == Ball[k - 1] IN inner \cup UNION {out_neigh[u] : u \in inner}

Distance(v) ==
  IF v \in Ball[num_nodes]
  THEN CHOOSE k \in 0 .. num_nodes : v \in Ball[k] /\ (k = 0 \/ v \notin Ball[k - 1])
  ELSE -1

(* What BFSVerifier demands of one vertex.                                   *)
VerifierAccepts(u) ==
  IF Distance(u) # -1 /\ parent[u] # -1
  THEN IF u = source THEN parent[u] = u /\ Distance(u) = 0
       ELSE parent[u] \in in_neigh(u) /\ Distance(parent[u]) = Distance(u) - 1
  ELSE Distance(u) = parent[u]

(* bfs_pthread.cc:586-632: the verifier accepts the tree of every run.       *)
ResultVerifies == pc = "done" => \A u \in Nodes : VerifierAccepts(u)

(* The search as LevelBFS sees it; the root is there before the code has     *)
(* initialized the array.                                                    *)
TreeParent == IF pc = "InitParent" THEN [v \in Nodes |-> IF v = source THEN v ELSE -1]
              ELSE [v \in Nodes |-> IF parent[v] < 0 THEN -1 ELSE parent[v]]
TreeDepth == IF pc = "InitParent" THEN [v \in Nodes |-> IF v = source THEN 0 ELSE -1]
             ELSE depth

BFS == INSTANCE LevelBFS WITH parent <- TreeParent, depth <- TreeDepth

(* Both directions claim each vertex once, from a parent of the level being  *)
(* expanded, and a level is left only when none of its edges is open.        *)
ImplementsLevelBFS == BFS!Spec

(* The search ends, and with an empty frontier.                              *)
Terminates == <>[](pc = "done" /\ BFS!Done)

================================================================================
