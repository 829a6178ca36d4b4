----------------------------------- MODULE BC -----------------------------------
(***************************************************************************)
(* Betweenness centrality: Brandes and PBFS of src/src/bc.cc.  Every         *)
(* iteration searches from one source by levels, counting the shortest paths *)
(* to every vertex and marking the edges they use, and then goes back over   *)
(* the levels of the queue to add up what depends on every vertex.           *)
(*                                                                          *)
(* The threads of the search meet at a barrier after every level; the thread *)
(* that enters "single" slides the window while the others wait for it, so   *)
(* the two barriers and the slide are one step.  Scores are rational numbers *)
(* here, in units of 1/kScale and rounded down; a bit of succ stands for the *)
(* edge at its position.  The order of an adjacency list is abstracted.      *)
(***************************************************************************)
EXTENDS Integers, Sequences, FiniteSets, Functions

CONSTANTS
  num_nodes,
  Workers,          \* the threads of an OpenMP team
  Graphs,           \* functions from a vertex to its out-neighbours
  num_iters,        \* the option -i
  Picks,            \* sequences of sources a run may draw
  kChunk,           \* iterations per chunk of the dynamic schedules, 64 in the code
  local_size,       \* capacity of a QueueBuffer, 16384 in the code
  kScale,           \* the number 1 as a score
  Garbage

Nodes == 0 .. num_nodes - 1

ASSUME BCAssumption ==
  /\ num_nodes \in Nat \ {0} /\ num_iters \in Nat \ {0} /\ kScale \in Nat \ {0}
  /\ kChunk \in Nat \ {0} /\ local_size \in Nat \ {0}
  /\ IsFiniteSet(Workers) /\ Workers # {}
  /\ Graphs \subseteq [Nodes -> SUBSET Nodes]
  /\ Picks \subseteq [1 .. num_iters -> Nodes]
  /\ Garbage \notin Nodes

VARIABLES
  out_neigh, sources,       \* the graph and what the SourcePicker will pick
  pc,               \* of main: "next" between iterations, "bfs", "back", "done"
  iter,
  depths, path_counts, succ,
  depth_index, d,
  shared, shared_in, shared_out_start, shared_out_end, local_queue, copy_start,
  deltas, scores, biggest_score,
  next_index,       \* of the dynamic schedule of the region
  my                \* the local variables of every thread

args == <<out_neigh, sources>>
main_vars == <<pc, iter, depth_index, d, biggest_score>>
paths == <<depths, path_counts, succ>>
queue_vars == <<shared, shared_in, shared_out_start, shared_out_end, local_queue, copy_start>>
sums == <<deltas, scores>>
vars == <<args, main_vars, paths, queue_vars, sums, next_index, my>>

queue == INSTANCE SlidingQueue WITH Items <- Nodes, Threads <- Workers

NewWorker == [pc |-> "while", depth |-> 0, i |-> 0, end |-> 0, u |-> 0, todo |-> {}, v |-> 0,
              delta |-> 0, score |-> 0]

(* Sources are picked at random among the vertices that have out-edges, or   *)
(* the option -r gives one for all iterations (benchmark.h:53-60).           *)
Init ==
  /\ out_neigh \in Graphs
  /\ sources \in Picks
  /\ \/ \A i \in 1 .. num_iters : out_neigh[sources[i]] # {}
     \/ \A i \in 1 .. num_iters : sources[i] = sources[1]
  /\ pc = "next" /\ iter = 0
  /\ depths = [n \in Nodes |-> -1] /\ path_counts = [n \in Nodes |-> 0] /\ succ = {}
  /\ depth_index = <<>> /\ d = -1
  /\ queue!Init
  /\ deltas = [n \in Nodes |-> 0] /\ scores = [n \in Nodes |-> 0]
  /\ biggest_score = 0
  /\ next_index = 0
  /\ my = [w \in Workers |-> NewWorker]

--------------------------------------------------------------------------------
At(w, label) == my[w].pc = label

AllAt(label) == \A w \in Workers : At(w, label)

Goto(w, label) == my' = [my EXCEPT ![w].pc = label]

Fork(label) ==
  /\ my' = [w \in Workers |-> [NewWorker EXCEPT !.pc = label]]
  /\ next_index' = 0

(* A chunk of a schedule over n iterations, or the end of the loop.          *)
TakeChunk(w, n, after) ==
  /\ my[w].i = my[w].end /\ my[w].todo = {}
  /\ IF next_index < n
     THEN /\ my' = [my EXCEPT ![w].i = next_index,
                              ![w].end = IF next_index + kChunk < n THEN next_index + kChunk ELSE n]
          /\ next_index' = next_index + kChunk
     ELSE /\ my' = [my EXCEPT ![w].i = 0, ![w].end = 0, ![w].u = 0, ![w].pc = after]
          /\ UNCHANGED next_index

--------------------------------------------------------------------------------
(* The threads of PBFS.                                                      *)

(* Faulty variant of WhileTest: the test looks for work that is left, not    *)
(* for a window that is empty.                                               *)
WhileTestWork(w) ==
  /\ pc = "bfs" /\ At(w, "while")
  /\ my' = IF next_index >= queue!size THEN [my EXCEPT ![w].pc = "done"]
           ELSE [my EXCEPT ![w].pc = "window", ![w].depth = @ + 1]
  /\ UNCHANGED <<paths, queue_vars, sums, next_index>>

WhileTest(w) ==
  /\ pc = "bfs" /\ At(w, "while")
  /\ my' = IF queue!empty THEN [my EXCEPT ![w].pc = "done"]
           ELSE [my EXCEPT ![w].pc = "window", ![w].depth = @ + 1]
  /\ UNCHANGED <<paths, queue_vars, sums, next_index>>

ClaimChunk(w) ==
  /\ pc = "bfs" /\ At(w, "window")
  /\ TakeChunk(w, queue!size, "flush")
  /\ UNCHANGED <<paths, queue_vars, sums>>

TakeVertex(w) ==
  /\ pc = "bfs" /\ At(w, "window")
  /\ my[w].todo = {} /\ my[w].i < my[w].end
  /\ LET u == shared[shared_out_start + my[w].i] IN
       my' = [my EXCEPT ![w].u = u, ![w].todo = out_neigh[u], ![w].i = @ + 1]
  /\ UNCHANGED <<paths, queue_vars, sums, next_index>>

ReadDepth(w) ==
  /\ pc = "bfs" /\ At(w, "window")
  /\ \E v \in my[w].todo :
       my' = [my EXCEPT ![w].v = v, ![w].todo = @ \ {v},
                        ![w].pc = IF depths[v] = -1 THEN "cas" ELSE "check"]
  /\ UNCHANGED <<paths, queue_vars, sums, next_index>>

(* Faulty variant of ClaimVertex: the path is not counted when somebody else *)
(* has claimed the vertex.                                                   *)
ClaimOrSkip(w) ==
  /\ pc = "bfs" /\ At(w, "cas")
  /\ IF depths[my[w].v] = -1
     THEN depths' = [depths EXCEPT ![my[w].v] = my[w].depth] /\ Goto(w, "push")
     ELSE UNCHANGED depths /\ Goto(w, "window")
  /\ UNCHANGED <<path_counts, succ, queue_vars, sums, next_index>>

ClaimVertex(w) ==
  /\ pc = "bfs" /\ At(w, "cas")
  /\ IF depths[my[w].v] = -1
     THEN depths' = [depths EXCEPT ![my[w].v] = my[w].depth] /\ Goto(w, "push")
     ELSE UNCHANGED depths /\ Goto(w, "check")
  /\ UNCHANGED <<path_counts, succ, queue_vars, sums, next_index>>

(* lqueue.push_back(v), which flushes a full buffer first.                   *)
PushVertex(w) ==
  /\ pc = "bfs" /\ At(w, "push")
  /\ IF queue!Full(w)
     THEN queue!Reserve(w) /\ Goto(w, "copy")
     ELSE queue!LocalPush(w, my[w].v) /\ Goto(w, "check")
  /\ UNCHANGED <<paths, sums, next_index>>

(* depths[v] is not -1 any more and never changes again, so reading it is    *)
(* one step with the atomic set of the bit.                                  *)
MarkSuccessor(w) ==
  /\ pc = "bfs" /\ At(w, "check")
  /\ IF depths[my[w].v] = my[w].depth
     THEN succ' = succ \cup {<<my[w].u, my[w].v>>} /\ Goto(w, "count")
     ELSE UNCHANGED succ /\ Goto(w, "window")
  /\ UNCHANGED <<depths, path_counts, queue_vars, sums, next_index>>

CountPaths(w) ==
  /\ pc = "bfs" /\ At(w, "count")
  /\ path_counts' = [path_counts EXCEPT ![my[w].v] = @ + path_counts[my[w].u]]
  /\ Goto(w, "window")
  /\ UNCHANGED <<depths, succ, queue_vars, sums, next_index>>

Flush(w) ==
  /\ pc = "bfs" /\ At(w, "flush")
  /\ queue!Reserve(w)
  /\ Goto(w, "lastcopy")
  /\ UNCHANGED <<paths, sums, next_index>>

FlushCopies(w) ==
  /\ pc = "bfs" /\ my[w].pc \in {"copy", "lastcopy"}
  /\ queue!CopyOut(w)
  /\ Goto(w, IF At(w, "copy") THEN "push" ELSE "barrier")
  /\ UNCHANGED <<paths, sums, next_index>>

--------------------------------------------------------------------------------
(* The threads of the loop over one level on the way back.                   *)

first == depth_index[d + 1]
last == depth_index[d + 2]

BackClaimChunk(w) ==
  /\ pc = "back" /\ At(w, "vertex")
  /\ TakeChunk(w, last - first, "done")
  /\ UNCHANGED <<paths, queue_vars, sums>>

(* Nobody writes succ any more.                                              *)
BackTakeVertex(w) ==
  /\ pc = "back" /\ At(w, "vertex") /\ my[w].i < my[w].end
  /\ LET u == shared[first + my[w].i] IN
       my' = [my EXCEPT ![w].u = u, ![w].todo = {v \in out_neigh[u] : <<u, v>> \in succ},
                        ![w].i = @ + 1, ![w].delta = 0, ![w].pc = "edges"]
  /\ UNCHANGED <<paths, queue_vars, sums, next_index>>

BackEdge(w) ==
  /\ pc = "back" /\ At(w, "edges")
  /\ \E v \in my[w].todo :
       my' = [my EXCEPT ![w].todo = @ \ {v},
                ![w].delta = @ + (path_counts[my[w].u] * (kScale + deltas[v])) \div path_counts[v]]
  /\ UNCHANGED <<paths, queue_vars, sums, next_index>>

(* deltas[u] is stored and scores[u] loaded ...                              *)
BackStoreDelta(w) ==
  /\ pc = "back" /\ At(w, "edges") /\ my[w].todo = {}
  /\ deltas' = [deltas EXCEPT ![my[w].u] = my[w].delta]
  /\ my' = [my EXCEPT ![w].score = scores[my[w].u], ![w].pc = "score"]
  /\ UNCHANGED <<paths, queue_vars, scores, next_index>>

(* ... and scores[u] stored, with no atomic in the code.                     *)
BackStoreScore(w) ==
  /\ pc = "back" /\ At(w, "score")
  /\ scores' = [scores EXCEPT ![my[w].u] = my[w].score + my[w].delta]
  /\ my' = [my EXCEPT ![w].pc = "vertex", ![w].delta = 0, ![w].score = 0]
  /\ UNCHANGED <<paths, queue_vars, deltas, next_index>>

--------------------------------------------------------------------------------
(* Main, and the barriers.                                                   *)

(* Faulty variant of BeginIteration: path_counts is not filled with zeros.   *)
BeginUnfilled ==
  /\ pc = "next" /\ iter < num_iters
  /\ LET source == sources[iter + 1] IN
       /\ path_counts' = [path_counts EXCEPT ![source] = 1]
       /\ depths' = [n \in Nodes |-> IF n = source THEN 0 ELSE -1]
       /\ queue!reset_push_back_and_slide(source)
  /\ succ' = {}
  /\ depth_index' = <<0>>
  /\ iter' = iter + 1 /\ pc' = "bfs"
  /\ Fork("while")
  /\ UNCHANGED <<d, biggest_score, sums>>

(* Everything of the last iteration is reset, and the source is the window.  *)
BeginIteration ==
  /\ pc = "next" /\ iter < num_iters
  /\ LET source == sources[iter + 1] IN
       /\ path_counts' = [n \in Nodes |-> IF n = source THEN 1 ELSE 0]
       /\ depths' = [n \in Nodes |-> IF n = source THEN 0 ELSE -1]
       /\ queue!reset_push_back_and_slide(source)
  /\ succ' = {}
  /\ depth_index' = <<0>>
  /\ iter' = iter + 1 /\ pc' = "bfs"
  /\ Fork("while")
  /\ UNCHANGED <<d, biggest_score, sums>>

NextLevel ==
  /\ pc = "bfs" /\ AllAt("barrier")
  /\ depth_index' = Append(depth_index, shared_out_start)
  /\ queue!slide_window
  /\ my' = [w \in Workers |-> [my[w] EXCEPT !.pc = "while"]]
  /\ next_index' = 0
  /\ UNCHANGED <<pc, iter, d, biggest_score, paths, sums>>

EndSearch ==
  /\ pc = "bfs" /\ AllAt("done")
  /\ depth_index' = Append(depth_index, shared_out_start)
  /\ deltas' = [n \in Nodes |-> 0]
  /\ d' = Len(depth_index') - 2
  /\ pc' = "back"
  /\ Fork("vertex")
  /\ UNCHANGED <<iter, biggest_score, paths, queue_vars, scores>>

PreviousLevel ==
  /\ pc = "back" /\ AllAt("done")
  /\ d' = d - 1
  /\ IF d > 0 THEN UNCHANGED pc ELSE pc' = "next"
  /\ Fork("vertex")
  /\ UNCHANGED <<iter, depth_index, biggest_score, paths, queue_vars, sums>>

Greatest(S) == CHOOSE x \in S : \A y \in S : y <= x

(* The reduction, after which every score is divided by the biggest.         *)
Normalize ==
  /\ pc = "next" /\ iter = num_iters
  /\ biggest_score' = Greatest({0} \cup {scores[n] : n \in Nodes})
  /\ pc' = "done"
  /\ UNCHANGED <<iter, depth_index, d, paths, queue_vars, sums, next_index, my>>

--------------------------------------------------------------------------------
MainStep ==
  /\ UNCHANGED args
  /\ BeginIteration \/ NextLevel \/ EndSearch \/ PreviousLevel \/ Normalize

WorkerStep(w) ==
  /\ UNCHANGED <<args, main_vars>>
  /\ \/ WhileTest(w)
     \/ ClaimChunk(w)
     \/ TakeVertex(w)
     \/ ReadDepth(w)
     \/ ClaimVertex(w)
     \/ PushVertex(w)
     \/ MarkSuccessor(w)
     \/ CountPaths(w)
     \/ Flush(w)
     \/ FlushCopies(w)
     \/ BackClaimChunk(w)
     \/ BackTakeVertex(w)
     \/ BackEdge(w)
     \/ BackStoreDelta(w)
     \/ BackStoreScore(w)

Next == MainStep \/ \E w \in Workers : WorkerStep(w)

Spec == Init /\ [][Next]_vars

(* The threads are scheduled and OpenMP's barriers open.                     *)
FairSpec == Spec /\ WF_vars(MainStep) /\ \A w \in Workers : WF_vars(WorkerStep(w))

--------------------------------------------------------------------------------
(* What BCVerifier computes from a source: the vertices within k edges, the  *)
(* depths, the numbers of shortest paths and the dependencies.               *)
Ball(s) ==
  LET B[k \in 0 .. num_nodes] ==
        IF k = 0 THEN {s} ELSE B[k - 1] \cup UNION {out_neigh[u] : u \in B[k - 1]}
  IN  B

Depths(s) ==
  LET B == Ball(s)
  IN  [v \in Nodes |-> IF v \notin B[num_nodes] THEN -1
                       ELSE CHOOSE k \in 0 .. num_nodes :
                              v \in B[k] /\ (k = 0 \/ v \notin B[k - 1])]

(* The edges from one depth to the next.                                     *)
Successors(s) ==
  LET D == Depths(s)
  IN  {e \in Nodes \X Nodes : /\ e[2] \in out_neigh[e[1]]
                              /\ D[e[1]] # -1 /\ D[e[2]] = D[e[1]] + 1}

PathCounts(s) ==
  LET S == Successors(s)
      P[v \in Nodes] == IF v = s THEN 1
                        ELSE SumFunction([u \in {x \in Nodes : <<x, v>> \in S} |-> P[u]])
  IN  P

Dependencies(s) ==
  LET S == Successors(s)
      P == PathCounts(s)
      D[u \in Nodes] ==
        SumFunction([v \in {x \in Nodes : <<u, x>> \in S} |-> (P[u] * (kScale + D[v])) \div P[v]])
  IN  D

(* bc.cc:71-79,83-88: the paths to a vertex are all counted before anybody   *)
(* reads its count, though any number of threads add to it and it is claimed *)
(* in between; and when the search is over, depths, counts, marked edges and *)
(* levels are those of the serial search.                                    *)
PathsAreExact ==
  /\ pc = "bfs" =>
       LET P == PathCounts(sources[iter])
       IN  \A v \in Nodes : depths[v] # -1 /\ (\A w \in Workers : my[w].depth > depths[v])
                              => path_counts[v] = P[v]
  /\ pc = "back" =>
       /\ path_counts = PathCounts(sources[iter])
       /\ succ = Successors(sources[iter])
       /\ {shared[i] : i \in first .. last - 1}
            = IF d = 0 THEN {} ELSE {v \in Nodes : Depths(sources[iter])[v] = d - 1}

(* bc.cc:169-230: the verifier accepts the scores: no update of a score was  *)
(* lost and no delta was read before it was complete.                        *)
ResultVerifies ==
  pc = "done" =>
    LET D == [i \in 1 .. num_iters |-> Dependencies(sources[i])]
        expected == [n \in Nodes |-> SumFunction([i \in 1 .. num_iters |-> D[i][n]])]
    IN  \A n \in Nodes : scores[n] * Greatest({expected[m] : m \in Nodes})
                           = expected[n] * biggest_score

(* All threads leave the loop over the levels together: nobody waits at a    *)
(* barrier for one that has seen the queue empty.                            *)
Terminates == <>(pc = "done")

================================================================================
