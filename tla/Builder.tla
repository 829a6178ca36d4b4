-------------------------------- MODULE Builder --------------------------------
(***************************************************************************)
(* From a list of edges to a graph: MakeGraphFromEL of src/src/builder.h,    *)
(* the clean-up that MakeGraph applies to its result and RelabelByDegree.    *)
(*                                                                          *)
(* Normally MakeCSR lets all threads insert edges at once, and SquishGraph   *)
(* sorts the lists and takes out loops and duplicates.  With -m the graph is *)
(* built in the memory of the edge list itself, by one thread, and missing   *)
(* inverses are put into gaps opened between the lists.                      *)
(*                                                                          *)
(* Arrays are functions from indices; an index array holds offsets instead   *)
(* of pointers.  A parallel loop whose iterations touch only their own       *)
(* elements is one step.                                                     *)
(***************************************************************************)
EXTENDS Integers, Sequences, FiniteSets, SequencesExt, FiniteSetsExt, Functions, TLC

CONSTANTS
  Workers,          \* the threads of an OpenMP team
  block_size,       \* of ParallelPrefixSum, 2^20 in the code
  Garbage           \* what new memory holds

ASSUME BuilderAssumption ==
  /\ IsFiniteSet(Workers) /\ Workers # {}
  /\ block_size \in Nat \ {0}

(* An edge list and the options.  In-place building does not support weights *)
(* and only an undirected, unweighted graph is relabelled.                   *)
IsInput(a) ==
  /\ {a.symmetrize_, a.in_place_, a.weighted, a.relabel} \subseteq BOOLEAN
  /\ a.el \in Seq(IF a.weighted THEN Nat \X Nat \X Int ELSE Nat \X Nat)
  /\ a.relabel => a.symmetrize_
  /\ a.weighted => ~a.in_place_ /\ ~a.relabel

VARIABLES
  input,            \* see IsInput
  el,               \* the edge list; in_place_ changes it
  pc,
  degrees, offsets, neighs,     \* of the direction that is being built
  graph,            \* what is built so far: "out" and "in", CSR arrays
  untaken,          \* the indices of the edges no thread of MakeCSR has taken
  my,               \* of every thread: insertions to do and the slot it has got
  invs_needed, loop \* of MakeCSRInPlace

args == <<input>>
building == <<degrees, offsets, neighs, graph>>
in_place_vars == <<invs_needed, loop>>
vars == <<args, el, pc, building, untaken, my, in_place_vars>>

symmetrize_ == input.symmetrize_
in_place_ == input.in_place_

--------------------------------------------------------------------------------
FindMaxNodeID(edges) == Max({0} \cup {e[1] : e \in ToSet(edges)} \cup {e[2] : e \in ToSet(edges)})
num_nodes_ == FindMaxNodeID(input.el) + 1
Nodes == 0 .. num_nodes_ - 1

Occurrences(edges, side, n) == Cardinality({k \in DOMAIN edges : edges[k][side] = n})

CountDegrees(edges, transpose) ==
  [n \in Nodes |->
     (IF symmetrize_ \/ ~transpose THEN Occurrences(edges, 1, n) ELSE 0)
   + (IF (symmetrize_ /\ ~in_place_) \/ (~symmetrize_ /\ transpose)
      THEN Occurrences(edges, 2, n) ELSE 0)]

(* The sum of f from index a up to, and without, b.                          *)
Total(f, a, b) == SumFunctionOnSet(f, a .. b - 1)

(* One pass sums every block, a serial one the sums, and a second parallel   *)
(* one fills in every block.                                                 *)
ParallelPrefixSum(f) ==
  LET size == Cardinality(DOMAIN f)
      local_sums == [b \in 0 .. (size - 1) \div block_size |->
                       Total(f, b * block_size, Min({(b + 1) * block_size, size}))]
  IN  [i \in 0 .. size |->
         IF i = size THEN Total(local_sums, 0, Cardinality(DOMAIN local_sums))
         ELSE Total(local_sums, 0, i \div block_size) + Total(f, block_size * (i \div block_size), i)]

(* An array that holds the lists one after the other.                        *)
CSR(lists) ==
  LET index == ParallelPrefixSum([n \in DOMAIN lists |-> Len(lists[n])])
  IN  [index |-> index,
       neighs |-> [i \in 0 .. index[Cardinality(DOMAIN lists)] - 1 |->
                     LET n == CHOOSE m \in DOMAIN lists : index[m] <= i /\ i < index[m + 1]
                     IN  lists[n][i - index[n] + 1]]]

List(csr, n) ==
  [i \in 1 .. csr.index[n + 1] - csr.index[n] |-> csr.neighs[csr.index[n] + i - 1]]

(* The elements of a set in order.                                           *)
SortedBy(S, Less(_, _)) ==
  [i \in 1 .. Cardinality(S) |-> CHOOSE x \in S : Cardinality({y \in S : Less(y, x)}) = i - 1]

Sorted(S) == SortedBy(S, <)

(* A cell of a list is a vertex, or a vertex and a weight (NodeWeight); an   *)
(* edge is <<u, v>> or <<u, v, w>>.                                          *)
Cell(v, e) == IF input.weighted THEN <<v, e[3]>> ELSE v
Vertex(cell) == IF input.weighted THEN cell[1] ELSE cell

NewArray(size) == [i \in 0 .. size - 1 |-> Cell(Garbage, <<Garbage, Garbage, Garbage>>)]

Idle == [todo |-> <<>>, slot |-> -1]

StartFrom(a) ==
  /\ input = a
  /\ el = a.el
  /\ pc = IF in_place_ THEN "squish_el" ELSE "make_csr"
  /\ degrees = <<>> /\ offsets = <<>> /\ neighs = <<>>
  /\ graph = <<>>
  /\ untaken = {}
  /\ my = [w \in Workers |-> Idle]
  /\ invs_needed = <<>> /\ loop = <<>>

--------------------------------------------------------------------------------
(* MakeCSR, for one direction and then, in a directed graph, for the other.  *)

transpose == "out" \in DOMAIN graph

BeginCSR ==
  /\ pc = "make_csr"
  /\ degrees' = CountDegrees(el, transpose)
  /\ offsets' = ParallelPrefixSum(degrees')
  /\ neighs' = NewArray(offsets'[num_nodes_])
  /\ untaken' = DOMAIN el
  /\ pc' = "insert"
  /\ UNCHANGED <<el, graph, my, in_place_vars>>

(* The iterations are distributed in some way.                               *)
TakeEdge(w) ==
  /\ pc = "insert" /\ my[w] = Idle
  /\ \E k \in untaken :
       /\ untaken' = untaken \ {k}
       /\ my' = [my EXCEPT ![w].todo =
                   (IF symmetrize_ \/ ~transpose THEN <<<<el[k][1], Cell(el[k][2], el[k])>>>> ELSE <<>>)
                     \o (IF symmetrize_ \/ transpose THEN <<<<el[k][2], Cell(el[k][1], el[k])>>>> ELSE <<>>)]
  /\ UNCHANGED <<el, pc, building, in_place_vars>>

(* Faulty variant of Claim: the offset is read and not advanced.             *)
ClaimUnadvanced(w) ==
  /\ pc = "insert" /\ my[w].todo # <<>> /\ my[w].slot = -1
  /\ my' = [my EXCEPT ![w].slot = offsets[Head(my[w].todo)[1]]]
  /\ UNCHANGED <<el, pc, building, untaken, in_place_vars>>

(* fetch_and_add on the offset of the list ...                               *)
Claim(w) ==
  /\ pc = "insert" /\ my[w].todo # <<>> /\ my[w].slot = -1
  /\ my' = [my EXCEPT ![w].slot = offsets[Head(my[w].todo)[1]]]
  /\ offsets' = [offsets EXCEPT ![Head(my[w].todo)[1]] = @ + 1]
  /\ UNCHANGED <<el, pc, degrees, neighs, graph, untaken, in_place_vars>>

(* ... and the store into the slot.                                          *)
Store(w) ==
  /\ pc = "insert" /\ my[w].slot # -1
  /\ neighs' = [neighs EXCEPT ![my[w].slot] = Head(my[w].todo)[2]]
  /\ my' = [my EXCEPT ![w].todo = Tail(@), ![w].slot = -1]
  /\ UNCHANGED <<el, pc, degrees, offsets, graph, untaken, in_place_vars>>

EndCSR ==
  /\ pc = "insert" /\ untaken = {} /\ \A w \in Workers : my[w] = Idle
  /\ LET csr == [index |-> ParallelPrefixSum(degrees), neighs |-> neighs]
     IN  graph' = (IF transpose THEN "in" ELSE "out") :> csr @@ graph
  /\ pc' = IF symmetrize_ \/ transpose THEN "squish" ELSE "make_csr"
  /\ UNCHANGED <<el, degrees, offsets, neighs, untaken, my, in_place_vars>>

(* std::unique leaves the first of the cells that are equal, and cells are   *)
(* compared by the vertex alone, but are sorted by vertex and weight.        *)
First(cells, v) ==
  IF input.weighted THEN <<v, Min({c[2] : c \in {d \in cells : d[1] = v}})>> ELSE v

(* SquishCSR: sort, unique, and no self-loop.                                *)
SquishCSR(csr) ==
  CSR([n \in Nodes |->
         LET cells == ToSet(List(csr, n))
             ids == Sorted({Vertex(c) : c \in cells} \ {n})
         IN  [k \in DOMAIN ids |-> First(cells, ids[k])]])

SquishGraph ==
  /\ pc = "squish"
  /\ graph' = [direction \in DOMAIN graph |-> SquishCSR(graph[direction])]
  /\ pc' = IF input.relabel THEN "relabel" ELSE "done"
  /\ UNCHANGED <<el, degrees, offsets, neighs, untaken, my, in_place_vars>>

(* RelabelByDegree: by decreasing degree, and by decreasing id if equal.     *)
out_degree(n) == graph["out"].index[n + 1] - graph["out"].index[n]

new_id(n) ==
  Cardinality({m \in Nodes : \/ out_degree(m) > out_degree(n)
                             \/ out_degree(m) = out_degree(n) /\ m > n})

RelabelByDegree ==
  /\ pc = "relabel"
  /\ LET old_id == [k \in Nodes |-> CHOOSE n \in Nodes : new_id(n) = k]
     IN  graph' = "out" :> CSR([k \in Nodes |->
                                  Sorted({new_id(v) : v \in ToSet(List(graph["out"], old_id[k]))})])
  /\ pc' = "done"
  /\ UNCHANGED <<el, degrees, offsets, neighs, untaken, my, in_place_vars>>

--------------------------------------------------------------------------------
(* MakeCSRInPlace.                                                           *)

Before(e, f) == e[1] < f[1] \/ (e[1] = f[1] /\ e[2] < f[2])

(* The list is sorted and loses its duplicates and loops, the degrees are    *)
(* counted, and its memory, two cells for an edge, becomes neighs.           *)
SquishEdgeList ==
  /\ pc = "squish_el"
  /\ el' = SortedBy({e \in ToSet(el) : e[1] # e[2]}, Before)
  /\ degrees' = CountDegrees(el', FALSE)
  /\ offsets' = ParallelPrefixSum(degrees')
  /\ neighs' = [i \in 0 .. 2 * Len(el') - 1 |-> el'[i \div 2 + 1][1 + (i % 2)]]
  /\ loop' = [k |-> 0]
  /\ pc' = "overwrite"
  /\ UNCHANGED <<graph, untaken, my, invs_needed>>

(* The edge is read from the memory that is being written.                   *)
Overwrite ==
  /\ pc = "overwrite" /\ loop.k < Len(el)
  /\ LET u == neighs[2 * loop.k]
         v == neighs[2 * loop.k + 1]
     IN  /\ neighs' = [neighs EXCEPT ![offsets[u]] = v]
         /\ offsets' = [offsets EXCEPT ![u] = @ + 1]
  /\ loop' = [k |-> loop.k + 1]
  /\ UNCHANGED <<el, pc, degrees, graph, untaken, my, invs_needed>>

(* The offsets are moved back, and the memory cut if the graph is directed.  *)
RevertOffsets ==
  /\ pc = "overwrite" /\ loop.k = Len(el)
  /\ offsets' = [n \in 0 .. num_nodes_ |-> IF n # 0 THEN offsets[n - 1] ELSE 0]
  /\ loop' = <<>>
  /\ IF symmetrize_
     THEN pc' = "count_inverses" /\ UNCHANGED <<neighs, graph>>
     ELSE /\ pc' = "invert"
          /\ neighs' = [i \in 0 .. Len(el) - 1 |-> neighs[i]]
          /\ graph' = "out" :> [index |-> offsets', neighs |-> neighs']
  /\ UNCHANGED <<el, degrees, untaken, my, invs_needed>>

(* The incoming edges, from the list of u = 0 on, so that lists are sorted.  *)
Invert ==
  /\ pc = "invert"
  /\ graph' = "in" :> CSR([v \in Nodes |->
                             Sorted({u \in Nodes : v \in ToSet(List(graph["out"], u))})])
                @@ graph
  /\ pc' = "done"
  /\ UNCHANGED <<el, degrees, offsets, neighs, untaken, my, in_place_vars>>

(* std::binary_search on the cells from lo up to, and without, hi.           *)
BinarySearch(a, lo, hi, x) ==
  LET LowerBound[first \in lo .. hi, len \in 0 .. hi - lo] ==
        LET half == len \div 2 IN
          IF len = 0 THEN first
          ELSE IF a[first + half] < x THEN LowerBound[first + half + 1, len - half - 1]
          ELSE LowerBound[first, half]
      place == LowerBound[lo, hi - lo]
  IN  place # hi /\ a[place] = x

(* Step 1: the inverses that are missing are counted, the offsets moved up   *)
(* to make room for them, and the memory is resized.  No room is asked for   *)
(* when there are no edges, and then realloc returns nothing.                *)
CountInverses ==
  /\ pc = "count_inverses"
  /\ invs_needed' =
       [v \in Nodes |->
          Cardinality({u \in Nodes :
            /\ \E i \in offsets[u] .. offsets[u + 1] - 1 : neighs[i] = v
            /\ ~BinarySearch(neighs, offsets[v], offsets[v + 1], u)})]
  /\ offsets' = [n \in 0 .. num_nodes_ |-> offsets[n] + Total(invs_needed', 0, n)]
  /\ neighs' = [i \in 0 .. offsets'[num_nodes_] - 1 |->
                  IF i \in DOMAIN neighs THEN neighs[i] ELSE Garbage]
  /\ loop' = [n |-> num_nodes_ - 1, i |-> offsets'[num_nodes_] - 1,
              tail_index |-> offsets'[num_nodes_] - 1,
              total_missing_inv |-> Total(invs_needed', 0, num_nodes_)]
  /\ pc' = IF offsets'[num_nodes_] = 0 THEN "failed" ELSE "spread"
  /\ UNCHANGED <<el, degrees, graph, untaken, my>>

(* Step 2: from the last list to the first, the cells move up and leave the  *)
(* free ones at the start of every list.                                     *)
Spread ==
  /\ pc = "spread" /\ loop.n >= 0
  /\ loop.i >= offsets[loop.n] + invs_needed[loop.n]
  /\ neighs' = [neighs EXCEPT ![loop.tail_index] = neighs[loop.i - loop.total_missing_inv]]
  /\ loop' = [loop EXCEPT !.i = @ - 1, !.tail_index = @ - 1]
  /\ UNCHANGED <<el, pc, degrees, offsets, graph, untaken, my, invs_needed>>

SpreadNextList ==
  /\ pc = "spread" /\ loop.n >= 0
  /\ loop.i < offsets[loop.n] + invs_needed[loop.n]
  /\ loop' = [n |-> loop.n - 1, i |-> offsets[loop.n] - 1,
              tail_index |-> loop.tail_index - invs_needed[loop.n],
              total_missing_inv |-> loop.total_missing_inv - invs_needed[loop.n]]
  /\ UNCHANGED <<el, pc, building, untaken, my, invs_needed>>

SpreadDone ==
  /\ pc = "spread" /\ loop.n < 0
  /\ pc' = "add" /\ loop' = [u |-> 0, i |-> offsets[0] + invs_needed[0]]
  /\ UNCHANGED <<el, building, untaken, my, invs_needed>>

(* Faulty variant: the whole list is searched, its free cells included.      *)
SearchFromStart(v) == offsets[v]

(* Step 3: where the inverse of an edge is searched for, ...                 *)
SearchFrom(v) == offsets[v] + invs_needed[v]
SearchTo(v) == offsets[v + 1]

(* ... and the last free cell of its list, which takes it if it is missing.  *)
AddInverse ==
  /\ pc = "add" /\ loop.u < num_nodes_ /\ loop.i < offsets[loop.u + 1]
  /\ LET v == neighs[loop.i] IN
       IF BinarySearch(neighs, SearchFrom(v), SearchTo(v), loop.u)
       THEN UNCHANGED <<neighs, invs_needed>>
       ELSE /\ neighs' = [neighs EXCEPT ![offsets[v] + invs_needed[v] - 1] = loop.u]
            /\ invs_needed' = [invs_needed EXCEPT ![v] = @ - 1]
  /\ loop' = [loop EXCEPT !.i = @ + 1]
  /\ UNCHANGED <<el, pc, degrees, offsets, graph, untaken, my>>

AddNextList ==
  /\ pc = "add" /\ loop.u < num_nodes_ /\ loop.i = offsets[loop.u + 1]
  /\ loop' = [u |-> loop.u + 1,
              i |-> IF loop.u + 1 < num_nodes_
                    THEN offsets[loop.u + 1] + invs_needed[loop.u + 1] ELSE 0]
  /\ UNCHANGED <<el, pc, building, untaken, my, invs_needed>>

(* Every list is sorted.                                                     *)
SortLists ==
  /\ pc = "add" /\ loop.u = num_nodes_
  /\ graph' = "out" :> [index |-> offsets,
                        neighs |-> CSR([n \in Nodes |->
                          SortSeq(List([index |-> offsets, neighs |-> neighs], n), <)]).neighs]
  /\ pc' = IF input.relabel THEN "relabel" ELSE "done"
  /\ UNCHANGED <<el, degrees, offsets, neighs, untaken, my, in_place_vars>>

--------------------------------------------------------------------------------
WorkerStep(w) == TakeEdge(w) \/ Claim(w) \/ Store(w)

MainStep ==
  \/ BeginCSR
  \/ EndCSR
  \/ SquishGraph
  \/ RelabelByDegree
  \/ SquishEdgeList
  \/ Overwrite
  \/ RevertOffsets
  \/ Invert
  \/ CountInverses
  \/ Spread
  \/ SpreadNextList
  \/ SpreadDone
  \/ AddInverse
  \/ AddNextList
  \/ SortLists

Next == UNCHANGED args /\ (MainStep \/ \E w \in Workers : WorkerStep(w))

--------------------------------------------------------------------------------
(* The edges of the list that lead from n to v in the graph, and the         *)
(* neighbours a vertex should have, with the least weight.                   *)
EdgesBetween(n, v, reversed) ==
  {e \in ToSet(input.el) : \/ (symmetrize_ \/ ~reversed) /\ e[1] = n /\ e[2] = v
                           \/ (symmetrize_ \/ reversed) /\ e[1] = v /\ e[2] = n}

Neighbours(n, reversed) == {v \in Nodes \ {n} : EdgesBetween(n, v, reversed) # {}}

Expected(n, reversed) ==
  LET ids == Sorted(Neighbours(n, reversed))
      least(v) == Min({e[3] : e \in EdgesBetween(n, v, reversed)})
  IN  [k \in DOMAIN ids |-> IF input.weighted THEN <<ids[k], least(ids[k])>> ELSE ids[k]]

(* builder.h:188-196,293-299: whichever way it is built, the graph has the   *)
(* edges of the list and, if that was asked for, their inverses; lists are   *)
(* sorted and have neither loops nor duplicates.  A relabelled graph is the  *)
(* same graph with the degrees in decreasing order.  Of parallel edges the   *)
(* lightest is kept, hence the same one in both directions (graph.h:43-49).  *)
ResultIsGraph ==
  pc = "done" =>
    IF input.relabel
    THEN /\ \A n \in Nodes \ {0} : out_degree(n) <= out_degree(n - 1)
         /\ \E id \in Permutations(Nodes) : \A n \in Nodes :
              List(graph["out"], id[n]) = Sorted({id[v] : v \in Neighbours(n, FALSE)})
    ELSE /\ DOMAIN graph = IF symmetrize_ THEN {"out"} ELSE {"out", "in"}
         /\ \A n \in Nodes : \A direction \in DOMAIN graph :
              List(graph[direction], n) = Expected(n, direction = "in")

(* builder.h:275-284: std::binary_search is called on lists that are no      *)
(* longer sorted: the inverses that were added stand before the rest of the  *)
(* list in descending order.  It still finds what it is asked for, since     *)
(* everything in front of some cell is smaller and nothing behind it is.     *)
SearchedListsArePartitioned ==
  pc = "add" /\ loop.u < num_nodes_ /\ loop.i < offsets[loop.u + 1] =>
    LET v == neighs[loop.i]
        cells == SearchFrom(v) .. SearchTo(v) - 1
    IN  /\ \A j \in cells : neighs[j] # Garbage
        /\ \A j, k \in cells : j < k /\ neighs[k] < loop.u => neighs[j] < loop.u

================================================================================
