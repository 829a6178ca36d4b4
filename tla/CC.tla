----------------------------------- MODULE CC -----------------------------------
(***************************************************************************)
(* Connected components by Afforest: src/src/cc.cc.  comp is a forest of     *)
(* labels over the vertices, shared by all threads of the OpenMP regions     *)
(* without a lock.                                                          *)
(*                                                                          *)
(* Every load, store and compare-and-swap of comp is a step.  A region is a  *)
(* fork and a join of all workers; its dynamic schedule hands out chunks of  *)
(* kChunk vertices.  The last region is followed by nothing, so main's steps *)
(* between regions are merged with the join before and the fork after them.  *)
(***************************************************************************)
EXTENDS Labelling

CONSTANTS
  Workers,          \* the threads of the OpenMP team
  neighbor_rounds,  \* 2 in the code
  kChunk            \* vertices per chunk of the dynamic schedules, 16384 in the code

ASSUME CCAssumption ==
  /\ neighbor_rounds \in Nat \ {0} /\ kChunk \in Nat \ {0}
  /\ IsFiniteSet(Workers) /\ Workers # {}

VARIABLES
  pc,           \* the region main is in: "link", "compress", "final", "done"
  round,        \* r, neighbor_rounds once the sampling rounds are over
  c,            \* the label whose vertices the final region skips
  next_index,   \* of the dynamic schedule of the region
  my            \* the local variables of every worker

vars == <<graph, comp, pc, round, c, next_index, my>>

NoLabel == -1

(* Faulty variant: an offset that is not clamped to the degree runs into the *)
(* adjacency list of the next vertex.                                        *)
NeighboursUnclamped(u, k) ==
  {v \in out_neigh[u] : Cardinality({w \in out_neigh[u] : w < v}) >= k}
    \cup IF k > Cardinality(out_neigh[u]) /\ u + 1 \in Nodes THEN out_neigh[u + 1] ELSE {}

(* GetNeighborhood with a start offset: adjacency lists are sorted by the    *)
(* builder, so the first k neighbours are the k with the least ids.          *)
out_neigh_from(u, k) ==
  {v \in out_neigh[u] : Cardinality({w \in out_neigh[u] : w < v}) >= k}

NewWorker == [pc |-> "vertex", i |-> 0, end |-> 0, todo |-> {}, v |-> 0,
              p1 |-> 0, p2 |-> 0, low |-> 0, label |-> 0]

Init ==
  /\ InitLabels
  /\ pc = "link"
  /\ round = 0
  /\ c = NoLabel
  /\ next_index = 0
  /\ my = [w \in Workers |-> NewWorker]

--------------------------------------------------------------------------------
(* The schedule.                                                             *)

ClaimChunk(w) ==
  /\ my[w].pc = "vertex" /\ my[w].todo = {} /\ my[w].i = my[w].end
  /\ next_index' = next_index + kChunk
  /\ my' = IF next_index >= num_nodes
           THEN [my EXCEPT ![w] = [NewWorker EXCEPT !.pc = "done"]]
           ELSE [my EXCEPT ![w].i = next_index,
                           ![w].end = IF next_index + kChunk < num_nodes
                                      THEN next_index + kChunk ELSE num_nodes]
  /\ UNCHANGED comp

(* The vertex a worker is to look at next.                                   *)
Takes(w, u) ==
  /\ my[w].pc = "vertex" /\ my[w].todo = {} /\ my[w].i < my[w].end /\ u = my[w].i

--------------------------------------------------------------------------------
(* What a region does with a vertex: the edges it is to link.                *)

(* A sampling round links the neighbour at offset round, if there is one.    *)
SampleVertex(w) ==
  /\ pc = "link"
  /\ \E u \in Nodes :
       /\ Takes(w, u)
       /\ my' = [my EXCEPT ![w].i = @ + 1,
                           ![w].todo = {<<u, v>> : v \in out_neigh_from(u, round)
                                                         \ out_neigh_from(u, round + 1)}]
  /\ UNCHANGED <<comp, next_index>>

(* Faulty variant: the reverse neighbourhood of a directed graph is          *)
(* forgotten.                                                                *)
FinishForwardOnly(w) ==
  /\ pc = "final"
  /\ \E u \in Nodes :
       /\ Takes(w, u)
       /\ my' = [my EXCEPT ![w].i = @ + 1,
            ![w].todo = IF comp[u] = c THEN {}
                        ELSE {<<u, v>> : v \in out_neigh_from(u, neighbor_rounds)}]
  /\ UNCHANGED <<comp, next_index>>

(* The final region skips a vertex with label c; of another it links what    *)
(* the rounds did not, and the whole reverse neighbourhood if directed.      *)
FinishVertex(w) ==
  /\ pc = "final"
  /\ \E u \in Nodes :
       /\ Takes(w, u)
       /\ my' = [my EXCEPT ![w].i = @ + 1,
            ![w].todo = IF comp[u] = c THEN {}
                        ELSE {<<u, v>> : v \in out_neigh_from(u, neighbor_rounds)
                                               \cup (IF directed THEN in_neigh(u) ELSE {})}]
  /\ UNCHANGED <<comp, next_index>>

--------------------------------------------------------------------------------
(* Link(u, v), with p1 and p2 the labels it climbs by.                       *)

(* The first read, of comp[u].                                               *)
LinkReadU(w) ==
  /\ my[w].pc = "vertex"
  /\ \E e \in my[w].todo :
       my' = [my EXCEPT ![w].todo = @ \ {e}, ![w].v = e[2], ![w].p1 = comp[e[1]],
                        ![w].pc = "readv"]
  /\ UNCHANGED <<comp, next_index>>

High(w) == IF my[w].p1 > my[w].p2 THEN my[w].p1 ELSE my[w].p2
Low(w) == my[w].p1 + (my[w].p2 - High(w))

(* The worker is out of Link and forgets its locals.                         *)
LinkReturns(w) ==
  my' = [my EXCEPT ![w] = [NewWorker EXCEPT !.i = my[w].i, !.end = my[w].end,
                                            !.todo = my[w].todo]]

(* The loop test, after the read that gave p2.                               *)
LoopTest(w, p2) ==
  IF my[w].p1 = p2 THEN LinkReturns(w)
  ELSE my' = [my EXCEPT ![w].p2 = p2, ![w].pc = "high", ![w].v = 0, ![w].low = 0]

LinkReadV(w) ==
  /\ my[w].pc = "readv"
  /\ LoopTest(w, comp[my[w].v])
  /\ UNCHANGED <<comp, next_index>>

(* comp[high] is read: it is low already, a root to swap, or neither.        *)
LinkReadHigh(w) ==
  /\ my[w].pc = "high"
  /\ CASE comp[High(w)] = Low(w) -> LinkReturns(w)
       [] comp[High(w)] = High(w) -> my' = [my EXCEPT ![w].pc = "cas"]
       [] OTHER -> my' = [my EXCEPT ![w].pc = "climb"]
  /\ UNCHANGED <<comp, next_index>>

(* Faulty variants: the higher label wins; the swap is a plain store; a swap  *)
(* that fails counts as a link.                                              *)
LinkHookUpwards(w) ==
  /\ my[w].pc = "cas"
  /\ IF comp[Low(w)] = Low(w)
     THEN comp' = [comp EXCEPT ![Low(w)] = High(w)] /\ LinkReturns(w)
     ELSE my' = [my EXCEPT ![w].pc = "climb"] /\ UNCHANGED comp
  /\ UNCHANGED next_index

LinkHookUncompared(w) ==
  /\ my[w].pc = "cas"
  /\ comp' = [comp EXCEPT ![High(w)] = Low(w)]
  /\ LinkReturns(w)
  /\ UNCHANGED next_index

LinkHookOnce(w) ==
  /\ my[w].pc = "cas"
  /\ comp' = IF comp[High(w)] = High(w) THEN [comp EXCEPT ![High(w)] = Low(w)] ELSE comp
  /\ LinkReturns(w)
  /\ UNCHANGED next_index

(* The compare-and-swap hooks the root high below low, or fails.             *)
LinkHook(w) ==
  /\ my[w].pc = "cas"
  /\ IF comp[High(w)] = High(w)
     THEN comp' = [comp EXCEPT ![High(w)] = Low(w)] /\ LinkReturns(w)
     ELSE my' = [my EXCEPT ![w].pc = "climb"] /\ UNCHANGED comp
  /\ UNCHANGED next_index

(* Faulty variant: the pair that failed is tried again.                      *)
LinkRetry(w) ==
  /\ my[w].pc = "climb"
  /\ my' = [my EXCEPT ![w].pc = "high"]
  /\ UNCHANGED <<comp, next_index>>

(* p1 = comp[comp[high]] reads comp[high] ...                                *)
LinkClimb(w) ==
  /\ my[w].pc = "climb"
  /\ my' = [my EXCEPT ![w].label = comp[High(w)], ![w].low = Low(w), ![w].pc = "climb2"]
  /\ UNCHANGED <<comp, next_index>>

(* ... and the label of that label; then p2 = comp[low] is read.             *)
LinkClimbAgain(w) ==
  /\ my[w].pc = "climb2"
  /\ my' = [my EXCEPT ![w].p1 = comp[my[w].label], ![w].label = 0, ![w].p2 = 0,
                      ![w].pc = "low"]
  /\ UNCHANGED <<comp, next_index>>

LinkReadLow(w) ==
  /\ my[w].pc = "low"
  /\ LoopTest(w, comp[my[w].low])
  /\ UNCHANGED <<comp, next_index>>

--------------------------------------------------------------------------------
(* Compress.                                                                 *)

(* The loop test reads comp[n] and then comp[comp[n]]; comp[n] is written by *)
(* the owner of n only.                                                      *)
CompressTest(w) ==
  /\ pc = "compress"
  /\ \E n \in Nodes :
       /\ Takes(w, n)
       /\ my' = IF comp[n] = comp[comp[n]]
                THEN [my EXCEPT ![w].i = @ + 1]
                ELSE [my EXCEPT ![w].label = comp[comp[n]], ![w].pc = "shorten"]
  /\ UNCHANGED <<comp, next_index>>

(* The assignment reads comp[comp[n]] again; nothing stops the compiler from *)
(* using the value that the test has read.                                   *)
CompressStore(w) ==
  /\ my[w].pc = "shorten"
  /\ \E label \in {my[w].label, comp[comp[my[w].i]]} :
       comp' = [comp EXCEPT ![my[w].i] = label]
  /\ my' = [my EXCEPT ![w].pc = "vertex", ![w].label = 0]
  /\ UNCHANGED next_index

--------------------------------------------------------------------------------
(* Afforest.                                                                 *)

Fork(region) ==
  pc' = region /\ next_index' = 0 /\ my' = [w \in Workers |-> NewWorker]

Joined(region) == pc = region /\ \A w \in Workers : my[w].pc = "done"

EndRound ==
  /\ Joined("link")
  /\ Fork("compress")
  /\ round' = round + 1
  /\ UNCHANGED <<comp, c>>

NextRound ==
  /\ Joined("compress") /\ c = NoLabel /\ round < neighbor_rounds
  /\ Fork("link")
  /\ UNCHANGED <<comp, round, c>>

(* SampleFrequentElement returns the label of some vertex: 1024 random       *)
(* samples need not find the largest component.                              *)
SampleFrequentElement ==
  /\ Joined("compress") /\ c = NoLabel /\ round = neighbor_rounds
  /\ \E n \in Nodes : c' = comp[n]
  /\ Fork("final")
  /\ UNCHANGED <<comp, round>>

EndFinal ==
  /\ Joined("final")
  /\ Fork("compress")
  /\ UNCHANGED <<comp, round, c>>

Return ==
  /\ Joined("compress") /\ c # NoLabel
  /\ pc' = "done"
  /\ UNCHANGED <<comp, round, c, next_index, my>>

--------------------------------------------------------------------------------
MainStep ==
  /\ UNCHANGED graph
  /\ EndRound \/ NextRound \/ SampleFrequentElement \/ EndFinal \/ Return

WorkerStep(w) ==
  /\ UNCHANGED <<graph, pc, round, c>>
  /\ \/ ClaimChunk(w)
     \/ SampleVertex(w)
     \/ FinishVertex(w)
     \/ LinkReadU(w)
     \/ LinkReadV(w)
     \/ LinkReadHigh(w)
     \/ LinkHook(w)
     \/ LinkClimb(w)
     \/ LinkClimbAgain(w)
     \/ LinkReadLow(w)
     \/ CompressTest(w)
     \/ CompressStore(w)

Next == MainStep \/ \E w \in Workers : WorkerStep(w)

Spec == Init /\ [][Next]_vars

FairSpec == Spec /\ WF_vars(MainStep) /\ \A w \in Workers : WF_vars(WorkerStep(w))

--------------------------------------------------------------------------------
(* cc.cc:104-112: when a sampling round is over, every vertex is in one tree *)
(* with the neighbour the round linked it to, though hooks of other threads  *)
(* failed, were overtaken or were skipped because "already low".             *)
RoundsLink ==
  Joined("link") =>
    \A u \in Nodes : \A v \in out_neigh[u] \ out_neigh_from(u, round + 1) : Root[u] = Root[v]

(* cc.cc:173-217: the labels name the components.                            *)
ResultVerifies == pc = "done" => IsComponentLabelling

C == INSTANCE Components WITH edges <- Edges, group <- Root

(* Every step of a thread joins the trees of two vertices of an edge or      *)
(* leaves all trees as they are: no race takes a tree apart.                 *)
ImplementsComponents == C!Spec

(* No thread climbs or shortens for ever.                                    *)
Terminates == <>(pc = "done")

================================================================================
