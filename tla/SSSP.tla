---------------------------------- MODULE SSSP ----------------------------------
(***************************************************************************)
(* Single-source shortest paths by delta-stepping with bucket fusion:        *)
(* DeltaStep of src/src/sssp.cc.  Vertices whose distance was lowered wait   *)
(* in bins of width delta that are local to a thread; an iteration empties   *)
(* the shared frontier, which holds the lowest bin, and ends with a vote for *)
(* the next bin and a copy of it from all threads.                           *)
(*                                                                          *)
(* Every load and compare-and-swap of dist, and every access to what else    *)
(* the threads share, is a step.  The barriers, the dynamic schedule and     *)
(* "single" are OpenMP's.  The order of an adjacency list is abstracted.     *)
(***************************************************************************)
EXTENDS Integers, Sequences, FiniteSets, SequencesExt, Functions

CONSTANTS
  num_nodes,
  Workers,              \* the threads of the OpenMP team
  Graphs,               \* functions: weight[u] maps u's out-neighbours to weights
  Deltas,               \* the values of the option -d
  kDistInf, kMaxBin,    \* INT_MAX / 2 and SIZE_MAX / 2 in the code
  kBinSizeThreshold,    \* 1000 in the code
  kChunk                \* iterations per chunk of the dynamic schedule, 64 in the code

Nodes == 0 .. num_nodes - 1

ASSUME SSSPAssumption ==
  /\ num_nodes \in Nat \ {0} /\ kChunk \in Nat \ {0} /\ kBinSizeThreshold \in Nat
  /\ IsFiniteSet(Workers) /\ Workers # {}
  /\ \A g \in Graphs : DOMAIN g = Nodes /\ \A u \in Nodes :
       DOMAIN g[u] \subseteq Nodes /\ g[u] \in [DOMAIN g[u] -> Nat]
  /\ Deltas \subseteq Nat \ {0}
  /\ kDistInf \in Nat \ {0} /\ kMaxBin \in Nat /\ kDistInf <= kMaxBin

VARIABLES
  weight, source, delta,    \* the arguments
  dist,
  frontier,         \* the slots of the shared bin that have been written
  shared_indexes, frontier_tails,   \* the two double buffers
  next_index,       \* of the dynamic schedule of the iteration
  single_taken,     \* a thread has entered the single of the iteration
  local_bins,       \* of every thread, its vector of vectors
  my                \* the other local variables of every thread

args == <<weight, source, delta>>
shared == <<frontier, shared_indexes, frontier_tails, next_index, single_taken>>
vars == <<args, dist, shared, local_bins, my>>

num_edges_directed == SumFunction([u \in Nodes |-> Cardinality(DOMAIN weight[u])])

NewWorker == [pc |-> "while", iter |-> 0, i |-> 0, end |-> 0, batch |-> <<>>, copy_start |-> 0,
              edge |-> "none", u |-> 0, todo |-> {}, v |-> 0, old_dist |-> 0, new_dist |-> 0]

(* Any vertex may be the source: SourcePicker returns the one given by -r as *)
(* it is.  The graph has an edge, for otherwise the frontier has no slot for *)
(* the source and the store into it is undefined.                            *)
Init ==
  /\ weight \in Graphs /\ source \in Nodes /\ delta \in Deltas
  /\ \E u \in Nodes : DOMAIN weight[u] # {}
  /\ dist = [n \in Nodes |-> IF n = source THEN 0 ELSE kDistInf]
  /\ frontier = [i \in {0} |-> source]
  /\ shared_indexes = [k \in 0 .. 1 |-> IF k = 0 THEN 0 ELSE kMaxBin]
  /\ frontier_tails = [k \in 0 .. 1 |-> IF k = 0 THEN 1 ELSE 0]
  /\ next_index = 0
  /\ single_taken = FALSE
  /\ local_bins = [w \in Workers |-> <<>>]
  /\ my = [w \in Workers |-> NewWorker]

--------------------------------------------------------------------------------
curr(w) == my[w].iter
next(w) == 1 - my[w].iter
curr_bin_index(w) == shared_indexes[curr(w)]
next_bin_index(w) == shared_indexes[next(w)]

(* The bin b of a vector of bins, which need not be that long.               *)
Bin(bins, b) == IF b < Len(bins) THEN bins[b + 1] ELSE <<>>

(* The vector with s for its bin b, resized if it is too short.              *)
WithBin(bins, b, s) ==
  [k \in 1 .. (IF b < Len(bins) THEN Len(bins) ELSE b + 1) |->
     IF k = b + 1 THEN s ELSE Bin(bins, k - 1)]

At(w, label) == my[w].pc = label

(* The thread is not in RelaxEdges.                                          *)
Between(w) == my[w].edge = "none" /\ my[w].todo = {}

Goto(w, label) == my' = [my EXCEPT ![w].pc = label]

--------------------------------------------------------------------------------
(* RelaxEdges(u).                                                            *)

Relaxes(w, u) == [my[w] EXCEPT !.u = u, !.todo = DOMAIN weight[u]]

EdgeDone(w) == [my[w] EXCEPT !.edge = "none", !.v = 0, !.old_dist = 0, !.new_dist = 0,
                             !.u = IF my[w].todo = {} THEN 0 ELSE @]

(* old_dist = dist[wn.v] ...                                                 *)
ReadOldDist(w) ==
  /\ my[w].edge = "none"
  /\ \E v \in my[w].todo :
       my' = [my EXCEPT ![w].todo = @ \ {v}, ![w].v = v, ![w].old_dist = dist[v],
                        ![w].edge = "new"]
  /\ UNCHANGED <<dist, shared, local_bins>>

(* The loop test.                                                            *)
TryOrLeave(w, old_dist, new_dist) ==
  IF new_dist < old_dist
  THEN my' = [my EXCEPT ![w].old_dist = old_dist, ![w].new_dist = new_dist, ![w].edge = "cas"]
  ELSE my' = [my EXCEPT ![w] = EdgeDone(w)]

(* ... and new_dist = dist[u] + wn.w.                                        *)
ReadNewDist(w) ==
  /\ my[w].edge = "new"
  /\ TryOrLeave(w, my[w].old_dist, dist[my[w].u] + weight[my[w].u][my[w].v])
  /\ UNCHANGED <<dist, shared, local_bins>>

dest_bin(w) == my[w].new_dist \div delta

Pushed(w) ==
  [local_bins EXCEPT ![w] = WithBin(@, dest_bin(w), Append(Bin(@, dest_bin(w)), my[w].v))]

(* Faulty variants: dist is stored without comparing; a swap that fails is   *)
(* not tried again.                                                          *)
StoreUncompared(w) ==
  /\ my[w].edge = "cas"
  /\ dist' = [dist EXCEPT ![my[w].v] = my[w].new_dist]
  /\ local_bins' = Pushed(w)
  /\ my' = [my EXCEPT ![w] = EdgeDone(w)]
  /\ UNCHANGED shared

SwapOnce(w) ==
  /\ my[w].edge = "cas"
  /\ IF dist[my[w].v] = my[w].old_dist
     THEN dist' = [dist EXCEPT ![my[w].v] = my[w].new_dist] /\ local_bins' = Pushed(w)
     ELSE UNCHANGED <<dist, local_bins>>
  /\ my' = [my EXCEPT ![w] = EdgeDone(w)]
  /\ UNCHANGED shared

CompareAndSwap(w) ==
  /\ my[w].edge = "cas"
  /\ IF dist[my[w].v] = my[w].old_dist
     THEN /\ dist' = [dist EXCEPT ![my[w].v] = my[w].new_dist]
          /\ local_bins' = Pushed(w)
          /\ my' = [my EXCEPT ![w] = EdgeDone(w)]
     ELSE /\ my' = [my EXCEPT ![w].edge = "retry"]
          /\ UNCHANGED <<dist, local_bins>>
  /\ UNCHANGED shared

RereadOldDist(w) ==
  /\ my[w].edge = "retry"
  /\ TryOrLeave(w, dist[my[w].v], my[w].new_dist)
  /\ UNCHANGED <<dist, shared, local_bins>>

--------------------------------------------------------------------------------
(* The first phase of an iteration.                                          *)

WhileTest(w) ==
  /\ At(w, "while")
  /\ Goto(w, IF curr_bin_index(w) = kMaxBin THEN "done" ELSE "frontier")
  /\ UNCHANGED <<dist, shared, local_bins>>

ClaimChunk(w) ==
  /\ At(w, "frontier") /\ Between(w) /\ my[w].i = my[w].end
  /\ LET tail == frontier_tails[curr(w)] IN
       IF next_index < tail
       THEN /\ my' = [my EXCEPT ![w].i = next_index,
                                ![w].end = IF next_index + kChunk < tail
                                           THEN next_index + kChunk ELSE tail]
            /\ next_index' = next_index + kChunk
       ELSE /\ my' = [my EXCEPT ![w].i = 0, ![w].end = 0, ![w].pc = "fusion"]
            /\ UNCHANGED next_index
  /\ UNCHANGED <<dist, frontier, shared_indexes, frontier_tails, single_taken, local_bins>>

(* A vertex that has moved to a lower bin since is ignored.                  *)
TakeVertex(w) ==
  /\ At(w, "frontier") /\ Between(w) /\ my[w].i < my[w].end
  /\ LET u == frontier[my[w].i] IN
       my' = [my EXCEPT ![w] =
                [(IF dist[u] >= delta * curr_bin_index(w) THEN Relaxes(w, u) ELSE my[w])
                   EXCEPT !.i = @ + 1]]
  /\ UNCHANGED <<dist, shared, local_bins>>

(* Bucket fusion: the thread's own part of the current bin, while it is small*)
Fuse(w) ==
  /\ At(w, "fusion") /\ Between(w) /\ my[w].batch = <<>>
  /\ LET bin == Bin(local_bins[w], curr_bin_index(w)) IN
       IF bin # <<>> /\ Len(bin) < kBinSizeThreshold
       THEN /\ my' = [my EXCEPT ![w].batch = bin]
            /\ local_bins' = [local_bins EXCEPT ![w] = WithBin(@, curr_bin_index(w), <<>>)]
       ELSE Goto(w, "vote") /\ UNCHANGED local_bins
  /\ UNCHANGED <<dist, shared>>

TakeFused(w) ==
  /\ At(w, "fusion") /\ Between(w) /\ my[w].batch # <<>>
  /\ my' = [my EXCEPT ![w] = [Relaxes(w, Head(my[w].batch)) EXCEPT !.batch = Tail(@)]]
  /\ UNCHANGED <<dist, shared, local_bins>>

(* The bins a thread votes for.                                              *)
Candidates(w) ==
  {b \in curr_bin_index(w) .. Len(local_bins[w]) - 1 : Bin(local_bins[w], b) # <<>>}

Least(S) == CHOOSE b \in S : \A c \in S : b <= c

(* Faulty variant: the last vote counts, not the lowest.                     *)
VoteOver(w) ==
  /\ At(w, "vote")
  /\ shared_indexes' = IF Candidates(w) = {} THEN shared_indexes
                       ELSE [shared_indexes EXCEPT ![next(w)] = Least(Candidates(w))]
  /\ Goto(w, "voted")
  /\ UNCHANGED <<dist, frontier, frontier_tails, next_index, single_taken, local_bins>>

(* In a critical section: next_bin_index = min(next_bin_index, i).           *)
Vote(w) ==
  /\ At(w, "vote")
  /\ shared_indexes' = [shared_indexes EXCEPT ![next(w)] = Least({@} \cup Candidates(w))]
  /\ Goto(w, "voted")
  /\ UNCHANGED <<dist, frontier, frontier_tails, next_index, single_taken, local_bins>>

--------------------------------------------------------------------------------
(* The second phase, between two barriers.                                   *)

AllAt(label) == \A w \in Workers : At(w, label)

FirstBarrier ==
  /\ AllAt("voted")
  /\ my' = [w \in Workers |-> [my[w] EXCEPT !.pc = "single"]]
  /\ next_index' = 0 /\ single_taken' = FALSE
  /\ UNCHANGED <<args, dist, frontier, shared_indexes, frontier_tails, local_bins>>

(* Faulty variant: the bin index keeps its value, so that the next vote      *)
(* cannot rise above it.                                                     *)
SingleKeepsBin(w) ==
  /\ At(w, "single")
  /\ Goto(w, "reserve")
  /\ frontier_tails' = IF single_taken THEN frontier_tails
                       ELSE [frontier_tails EXCEPT ![curr(w)] = 0]
  /\ single_taken' = TRUE
  /\ UNCHANGED <<dist, frontier, shared_indexes, next_index, local_bins>>

(* The first thread to come resets the half that the iteration has used up.  *)
Single(w) ==
  /\ At(w, "single")
  /\ Goto(w, "reserve")
  /\ IF single_taken THEN UNCHANGED <<shared_indexes, frontier_tails, single_taken>>
     ELSE /\ shared_indexes' = [shared_indexes EXCEPT ![curr(w)] = kMaxBin]
          /\ frontier_tails' = [frontier_tails EXCEPT ![curr(w)] = 0]
          /\ single_taken' = TRUE
  /\ UNCHANGED <<dist, frontier, next_index, local_bins>>

(* fetch_and_add on the next tail.                                           *)
Reserve(w) ==
  /\ At(w, "reserve")
  /\ my' = [my EXCEPT ![w].pc = "copy", ![w].copy_start = frontier_tails[next(w)]]
  /\ frontier_tails' =
       [frontier_tails EXCEPT ![next(w)] = @ + Len(Bin(local_bins[w], next_bin_index(w)))]
  /\ UNCHANGED <<dist, frontier, shared_indexes, next_index, single_taken, local_bins>>

(* The copy, which does not look at the size of the frontier: what happens   *)
(* when it is exceeded is undefined, and the thread goes no further here.    *)
Copy(w) ==
  /\ At(w, "copy")
  /\ LET bin == Bin(local_bins[w], next_bin_index(w))
         start == my[w].copy_start
         slots == start .. start + Len(bin) - 1
     IN  IF start + Len(bin) <= num_edges_directed
         THEN /\ frontier' = [i \in DOMAIN frontier \cup slots |->
                               IF i \in slots THEN bin[i - start + 1] ELSE frontier[i]]
              /\ local_bins' = IF bin = <<>> THEN local_bins
                               ELSE [local_bins EXCEPT ![w] = WithBin(@, next_bin_index(w), <<>>)]
              /\ my' = [my EXCEPT ![w].pc = "copied", ![w].copy_start = 0]
         ELSE Goto(w, "undefined") /\ UNCHANGED <<frontier, local_bins>>
  /\ UNCHANGED <<dist, shared_indexes, frontier_tails, next_index, single_taken>>

(* iter++ and the barrier.                                                   *)
SecondBarrier ==
  /\ AllAt("copied")
  /\ my' = [w \in Workers |-> [my[w] EXCEPT !.pc = "while", !.iter = next(w)]]
  /\ UNCHANGED <<args, dist, shared, local_bins>>

--------------------------------------------------------------------------------
WorkerStep(w) ==
  /\ UNCHANGED args
  /\ \/ WhileTest(w)
     \/ ClaimChunk(w)
     \/ TakeVertex(w)
     \/ ReadOldDist(w)
     \/ ReadNewDist(w)
     \/ CompareAndSwap(w)
     \/ RereadOldDist(w)
     \/ Fuse(w)
     \/ TakeFused(w)
     \/ Vote(w)
     \/ Single(w)
     \/ Reserve(w)
     \/ Copy(w)

Next == FirstBarrier \/ SecondBarrier \/ \E w \in Workers : WorkerStep(w)

Spec == Init /\ [][Next]_vars

(* The threads are scheduled and OpenMP's barriers open.                     *)
FairSpec ==
  /\ Spec
  /\ WF_vars(FirstBarrier) /\ WF_vars(SecondBarrier)
  /\ \A w \in Workers : WF_vars(WorkerStep(w))

--------------------------------------------------------------------------------
Tense(u, v) == dist[u] + weight[u][v] < dist[v]

bin_of(u) == dist[u] \div delta

(* The threads are between the two barriers of an iteration.                 *)
Copying ==
  \E w \in Workers : my[w].pc \in {"single", "reserve", "copy", "copied", "undefined"}

(* All threads are in the same iteration.                                    *)
Iter == my[CHOOSE w \in Workers : TRUE].iter

(* The slots of the frontier that hold a vertex nobody has taken yet.        *)
Slots ==
  LET half == IF Copying THEN 1 - Iter ELSE Iter
  IN  (UNION {my[w].i .. my[w].end - 1 : w \in Workers})
        \cup ((next_index .. frontier_tails[half] - 1)
               \ UNION {my[w].copy_start .. my[w].copy_start
                           + Len(Bin(local_bins[w], next_bin_index(w))) - 1 :
                          w \in {x \in Workers : At(x, "copy")}})

(* Somebody is still to look at u with the distance it has now: it waits in  *)
(* the bin of that distance, in the frontier or in a batch.                  *)
Waits(u) ==
  \/ \E w \in Workers : \/ Contains(Bin(local_bins[w], bin_of(u)), u)
                        \/ Contains(my[w].batch, u)
  \/ \E i \in Slots \cap DOMAIN frontier : frontier[i] = u

(* A thread in RelaxEdges(u) has the edge to v before it, or holds a         *)
(* candidate for v that is as good as the edge.                              *)
Relaxed(w, u, v) ==
  /\ my[w].u = u
  /\ \/ v \in my[w].todo
     \/ v = my[w].v /\ my[w].edge = "new"
     \/ v = my[w].v /\ my[w].edge \in {"cas", "retry"}
          /\ my[w].new_dist = dist[u] + weight[u][v]

(* sssp.cc:69-83,109-127: no improvement is ever lost.  While an edge can    *)
(* still lower a distance, its tail waits somewhere or is being relaxed,     *)
(* though the swap of another thread may have won, the tail may have changed *)
(* its bin and the bins move between threads and frontier.                   *)
NoTenseEdgeForgotten ==
  \A u \in Nodes : \A v \in DOMAIN weight[u] :
    Tense(u, v) => Waits(u) \/ \E w \in Workers : Relaxed(w, u, v)

(* The distances of the serial search: what k rounds over all edges find.    *)
Round[k \in 0 .. num_nodes] ==
  IF k = 0 THEN [v \in Nodes |-> IF v = source THEN 0 ELSE kDistInf]
  ELSE LET d == Round[k - 1]
       IN  [v \in Nodes |-> Least({d[v]} \cup {d[u] + weight[u][v] :
                                                 u \in {x \in Nodes : v \in DOMAIN weight[x]}})]

Distance == Round[num_nodes]

(* sssp.cc:40-50: bins are taken in the order of their priority, fusion      *)
(* included: whatever lies below the current bin has its final distance.     *)
LowerBinsAreSettled ==
  ~Copying /\ shared_indexes[Iter] # kMaxBin =>
    LET oracle_dist == Distance IN
      \A v \in Nodes : oracle_dist[v] < delta * shared_indexes[Iter] => dist[v] = oracle_dist[v]

SP == INSTANCE ShortestPaths WITH done <- AllAt("done")

(* No race of the threads stores a distance that is too low or raises one,   *)
(* and the loop ends only when there is nothing left to relax.               *)
ImplementsShortestPaths == SP!Spec

(* sssp.cc:32-38,137-142: "each thread copies its selected thread-local bin  *)
(* into the shared bin": what is copied has room there.                      *)
FrontierFits == \A k \in 0 .. 1 : frontier_tails[k] <= num_edges_directed

(* The bins run empty.                                                       *)
Terminates == <>AllAt("done")

================================================================================
