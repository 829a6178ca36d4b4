------------------------------- MODULE SSSPProofs -------------------------------
(***************************************************************************)
(* Delta-stepping with any number of threads, on any graph with natural      *)
(* weights and for any width of the bins: no improvement is lost, distances  *)
(* are only ever relaxed, the bins below the current one are settled, and    *)
(* the loop ends with the shortest distances.                                *)
(*                                                                          *)
(* NoTenseEdgeForgotten is not inductive.  IInv adds what the barriers keep  *)
(* apart (Together, RelaxPhase, CopyPhase), that everything a thread works   *)
(* on in the first phase lies in the current bin or above (WorksAbove), that *)
(* a candidate is never below what its tail justifies (EdgeOK), and that the *)
(* slots of the frontier that are still to be taken have been written.       *)
(***************************************************************************)
EXTENDS SSSP, FiniteSetTheorems, WellFoundedInduction, TLAPS

(* Everything a thread has that is its own.                                  *)
InAPhase == {"while", "frontier", "fusion", "vote", "voted", "done"}
InBPhase == {"single", "reserve", "copy", "copied", "undefined"}

WorkerType ==
  [pc : InAPhase \cup InBPhase, iter : 0 .. 1, i : Nat, end : Nat, batch : Seq(Nodes),
   copy_start : Nat, edge : {"none", "new", "cas", "retry"}, u : Nodes, todo : SUBSET Nodes,
   v : Nodes, old_dist : 0 .. kDistInf, new_dist : Nat]

Types ==
  /\ weight \in Graphs /\ source \in Nodes /\ delta \in Nat \ {0}
  /\ dist \in [Nodes -> 0 .. kDistInf]
  /\ DOMAIN frontier \subseteq Nat /\ \A i \in DOMAIN frontier : frontier[i] \in Nodes
  /\ shared_indexes \in [0 .. 1 -> Nat]
  /\ frontier_tails \in [0 .. 1 -> Nat]
  /\ next_index \in Nat /\ single_taken \in BOOLEAN
  /\ local_bins \in [Workers -> Seq(Seq(Nodes))]
  /\ my \in [Workers -> WorkerType]

(* No bin reaches kMaxBin, which stands for none.                            *)
BinsFit == \A w \in Workers : Len(local_bins[w]) <= kDistInf

Relaxing(m) == m.edge # "none" \/ m.todo # {}

(* What a thread in some place holds.                                        *)
PlaceOK(m) ==
  /\ m.i <= m.end
  /\ m.pc # "frontier" => m.i = 0 /\ m.end = 0
  /\ m.pc # "fusion" => m.batch = <<>>
  /\ m.pc \notin {"frontier", "fusion"} => ~Relaxing(m)

(* A thread in RelaxEdges: the edge it is at is an edge, a distance it has   *)
(* read has not risen since, and a candidate it holds is below that and not  *)
(* below what the tail's distance justifies now.                             *)
EdgeOK(m) ==
  /\ m.todo \subseteq DOMAIN weight[m.u]
  /\ m.edge # "none" => m.v \in DOMAIN weight[m.u]
  /\ m.edge = "new" => dist[m.v] <= m.old_dist
  /\ m.edge \in {"cas", "retry"} => /\ m.new_dist < m.old_dist
                                    /\ dist[m.u] + weight[m.u][m.v] <= m.new_dist

LocalsOK == \A w \in Workers : PlaceOK(my[w]) /\ EdgeOK(my[w])

CurBin == shared_indexes[Iter]
NextBin == shared_indexes[1 - Iter]
CurTail == frontier_tails[Iter]
NextTail == frontier_tails[1 - Iter]

(* All threads are in the same iteration and on the same side of its first   *)
(* barrier.                                                                  *)
Together ==
  /\ \A w \in Workers : my[w].iter = Iter
  /\ Copying => \A w \in Workers : my[w].pc \in InBPhase

(* The first phase.  Everything it does lies in the current bin or above.    *)
AllAbove == \A u \in Nodes : \A v \in DOMAIN weight[u] : Tense(u, v) => dist[u] >= delta * CurBin

WorksAbove(w) ==
  /\ Relaxing(my[w]) => dist[my[w].u] >= delta * CurBin
  /\ my[w].edge \in {"cas", "retry"} => my[w].new_dist >= delta * CurBin
  /\ \A u \in Nodes : Contains(my[w].batch, u) => dist[u] >= delta * CurBin
  /\ \A u \in Nodes : Contains(Bin(local_bins[w], CurBin), u) => dist[u] >= delta * CurBin

RelaxPhase ==
  /\ AllAbove
  /\ \A w \in Workers : WorksAbove(w)
  /\ NextTail = 0
  /\ \A w \in Workers : my[w].pc \in {"fusion", "vote", "voted"} => next_index >= CurTail
  /\ \A w \in Workers : my[w].pc = "voted" =>
       \A b \in Nat : b >= CurBin /\ Bin(local_bins[w], b) # <<>> => NextBin <= b
  /\ \A w \in Workers : my[w].pc = "done" => CurBin = kMaxBin

(* The second phase.                                                         *)
CopyRange(w) == my[w].copy_start .. my[w].copy_start + Len(Bin(local_bins[w], NextBin)) - 1

CopyPhase ==
  /\ \A u \in Nodes : \A v \in DOMAIN weight[u] : Tense(u, v) => dist[u] >= delta * NextBin
  /\ next_index = 0
  /\ single_taken => CurBin = kMaxBin /\ CurTail = 0
  /\ (\E w \in Workers : my[w].pc # "single") => single_taken
  /\ \A w \in Workers : my[w].pc = "copy" => \A i \in CopyRange(w) : i < NextTail
  /\ \A w, x \in Workers : w # x /\ my[w].pc = "copy" /\ my[x].pc = "copy"
       => CopyRange(w) \cap CopyRange(x) = {}
  /\ \A w \in Workers : my[w].pc = "copied" => Bin(local_bins[w], NextBin) = <<>>

(* Whoever takes a vertex from the frontier finds one.                       *)
SlotsWritten ==
  (\A w \in Workers : my[w].pc # "undefined") => Slots \subseteq DOMAIN frontier

IInv ==
  /\ Types
  /\ BinsFit
  /\ LocalsOK
  /\ Together
  /\ ~Copying => RelaxPhase
  /\ Copying => CopyPhase
  /\ SlotsWritten
  /\ NoTenseEdgeForgotten

--------------------------------------------------------------------------------
(* Bins.                                                                     *)

LEMMA NthBin ==
  ASSUME NEW bins \in Seq(Seq(Nodes)), NEW b \in Nat
  PROVE  Bin(bins, b) \in Seq(Nodes)
<1>1. CASE b < Len(bins)
  <2>1. b + 1 \in 1 .. Len(bins)
    BY <1>1
  <2> QED
    BY <1>1, <2>1 DEF Bin
<1>2. CASE ~(b < Len(bins))
  BY <1>2 DEF Bin
<1> QED
  BY <1>1, <1>2

LEMMA WithBinFacts ==
  ASSUME NEW bins \in Seq(Seq(Nodes)), NEW b \in Nat, NEW s \in Seq(Nodes)
  PROVE  /\ WithBin(bins, b, s) \in Seq(Seq(Nodes))
         /\ Len(WithBin(bins, b, s)) = Len(bins) \/ Len(WithBin(bins, b, s)) = b + 1
         /\ Bin(WithBin(bins, b, s), b) = s
         /\ \A c \in Nat \ {b} : Bin(WithBin(bins, b, s), c) = Bin(bins, c)
<1> DEFINE n == IF b < Len(bins) THEN Len(bins) ELSE b + 1
           f == [k \in 1 .. n |-> IF k = b + 1 THEN s ELSE Bin(bins, k - 1)]
<1>1. n \in Nat /\ b < n /\ Len(bins) <= n
  OBVIOUS
<1>2. \A k \in 1 .. n : f[k] \in Seq(Nodes)
  <2> SUFFICES ASSUME NEW k \in 1 .. n PROVE f[k] \in Seq(Nodes)
    OBVIOUS
  <2>1. k - 1 \in Nat
    BY <1>1
  <2> QED
    BY <2>1, NthBin
<1>3. WithBin(bins, b, s) = f
  BY DEF WithBin
<1> HIDE DEF n
<1>4. f \in Seq(Seq(Nodes)) /\ Len(f) = n
  BY <1>1, <1>2
<1>5. ASSUME NEW c \in Nat PROVE Bin(f, c) = IF c = b THEN s ELSE Bin(bins, c)
  <2>1. CASE c < n
    <3>1. c + 1 \in 1 .. n /\ c + 1 - 1 = c
      BY <1>1, <2>1
    <3>2. Bin(f, c) = f[c + 1]
      BY <1>4, <2>1 DEF Bin
    <3> HIDE DEF f
    <3>3. f[c + 1] = IF c + 1 = b + 1 THEN s ELSE Bin(bins, c + 1 - 1)
      BY <3>1 DEF f
    <3> QED
      BY <3>1, <3>2, <3>3
  <2>2. CASE ~(c < n)
    <3>1. c # b /\ ~(c < Len(bins))
      BY <1>1, <2>2
    <3> QED
      BY <1>4, <2>2, <3>1 DEF Bin
  <2> QED
    BY <2>1, <2>2
<1> QED
  BY <1>3, <1>4, <1>5 DEF n

LEMMA EmptiedFacts ==
  ASSUME NEW bins \in Seq(Seq(Nodes)), NEW b \in Nat, Bin(bins, b) # <<>>
  PROVE  /\ WithBin(bins, b, <<>>) \in Seq(Seq(Nodes))
         /\ Len(WithBin(bins, b, <<>>)) <= Len(bins)
         /\ Bin(WithBin(bins, b, <<>>), b) = <<>>
         /\ \A c \in Nat : c # b => Bin(WithBin(bins, b, <<>>), c) = Bin(bins, c)
<1>1. PICK e \in Seq(Nodes) : e = <<>>
  <2>1. <<>> \in Seq(Nodes)
    OBVIOUS
  <2> QED
    BY <2>1
<1>2. b < Len(bins) /\ Len(bins) \in Nat
  BY DEF Bin
<1> DEFINE W == WithBin(bins, b, e)
<1>3. W \in Seq(Seq(Nodes))
  BY WithBinFacts
<1>4. Len(W) <= Len(bins)
  <2>1. Len(W) = Len(bins) \/ Len(W) = b + 1
    BY WithBinFacts
  <2> HIDE DEF W
  <2> QED
    BY <1>2, <2>1
<1>5. Bin(W, b) = e
  BY WithBinFacts
<1>6. \A c \in Nat \ {b} : Bin(W, c) = Bin(bins, c)
  BY WithBinFacts
<1> QED
  BY <1>1, <1>3, <1>4, <1>5, <1>6

LEMMA ContainsFacts ==
  ASSUME NEW s \in Seq(Nodes), NEW x \in Nodes
  PROVE  /\ Append(s, x) \in Seq(Nodes) /\ Append(s, x) # <<>>
         /\ \A y : Contains(Append(s, x), y) <=> Contains(s, y) \/ y = x
<1>1. /\ Append(s, x) \in Seq(Nodes) /\ Len(Append(s, x)) = Len(s) + 1 /\ Len(s) \in Nat
      /\ Append(s, x)[Len(s) + 1] = x /\ \A i \in 1 .. Len(s) : Append(s, x)[i] = s[i]
  OBVIOUS
<1>2. Append(s, x) # <<>>
  BY <1>1
<1> DEFINE t == Append(s, x)
<1> HIDE DEF t
<1>3. \A i \in 1 .. Len(t) : i \in 1 .. Len(s) \/ i = Len(s) + 1
  BY <1>1 DEF t
<1>4. Len(s) + 1 \in 1 .. Len(t) /\ \A i \in 1 .. Len(s) : i \in 1 .. Len(t)
  BY <1>1 DEF t
<1>5. ASSUME NEW y PROVE Contains(t, y) <=> Contains(s, y) \/ y = x
  <2>1. ASSUME Contains(t, y) PROVE Contains(s, y) \/ y = x
    BY <1>1, <1>3, <2>1 DEF Contains, t
  <2>2. ASSUME Contains(s, y) PROVE Contains(t, y)
    BY <1>1, <1>4, <2>2 DEF Contains, t
  <2>3. Contains(t, x)
    BY <1>1, <1>4 DEF Contains, t
  <2> QED
    BY <2>1, <2>2, <2>3
<1> QED
  BY <1>1, <1>2, <1>5 DEF t

LEMMA HeadAndTail ==
  ASSUME NEW s \in Seq(Nodes), s # <<>>
  PROVE  /\ Head(s) \in Nodes /\ Tail(s) \in Seq(Nodes) /\ Contains(s, Head(s))
         /\ \A y : Contains(s, y) <=> y = Head(s) \/ Contains(Tail(s), y)
<1>1. /\ Head(s) \in Nodes /\ Tail(s) \in Seq(Nodes) /\ Head(s) = s[1] /\ Len(s) \in Nat \ {0}
      /\ Len(Tail(s)) = Len(s) - 1 /\ \A i \in 1 .. Len(s) - 1 : Tail(s)[i] = s[i + 1]
  OBVIOUS
<1> DEFINE t == Tail(s)
<1> HIDE DEF t
<1>2. \A i \in 1 .. Len(s) : i = 1 \/ (i - 1 \in 1 .. Len(t) /\ t[i - 1] = s[i])
  <2> SUFFICES ASSUME NEW i \in 1 .. Len(s), i # 1 PROVE i - 1 \in 1 .. Len(t) /\ t[i - 1] = s[i]
    OBVIOUS
  <2>1. i - 1 \in 1 .. Len(s) - 1 /\ (i - 1) + 1 = i
    BY <1>1
  <2> QED
    BY <1>1, <2>1 DEF t
<1>3. \A i \in 1 .. Len(t) : i + 1 \in 1 .. Len(s) /\ t[i] = s[i + 1]
  BY <1>1 DEF t
<1>4. 1 \in 1 .. Len(s)
  BY <1>1
<1>5. ASSUME NEW y PROVE Contains(s, y) <=> y = Head(s) \/ Contains(t, y)
  <2>1. ASSUME Contains(s, y) PROVE y = Head(s) \/ Contains(t, y)
    BY <1>1, <1>2, <2>1 DEF Contains
  <2>2. ASSUME Contains(t, y) PROVE Contains(s, y)
    BY <1>3, <2>2 DEF Contains
  <2>3. Contains(s, Head(s))
    BY <1>1, <1>4 DEF Contains
  <2> QED
    BY <2>1, <2>2, <2>3
<1> QED
  BY <1>1, <1>5 DEF t

LEMMA NothingIsEmpty == \A y : ~Contains(<<>>, y)
  BY DEF Contains

LEMMA ContainedIsThere ==
  ASSUME NEW s \in Seq(Nodes), NEW x, Contains(s, x)
  PROVE  s # <<>> /\ x \in Nodes
  BY DEF Contains

(* The bin of a distance.                                                    *)
LEMMA DivisionFacts ==
  ASSUME NEW n \in Nat, NEW k \in Nat \ {0}
  PROVE  /\ n \div k \in Nat /\ n % k \in Nat /\ n % k < k
         /\ n = k * (n \div k) + (n % k)
  OBVIOUS

LEMMA ProductGrows ==
  ASSUME NEW k \in Nat \ {0}, NEW a \in Nat, NEW b \in Nat
  PROVE  /\ k * a \in Nat /\ a <= k * a
         /\ a <= b => k * a <= k * b
         /\ a < b => k * a + k <= k * b
<1>1. k * a \in Nat /\ a <= k * a
  OBVIOUS
<1>2. ASSUME a <= b PROVE k * a <= k * b
  <2>1. k * b = k * a + k * (b - a) /\ b - a \in Nat
    BY <1>2
  <2>2. k * (b - a) \in Nat
    BY <2>1
  <2> QED
    BY <1>1, <2>1, <2>2
<1>3. ASSUME a < b PROVE k * a + k <= k * b
  <2>1. k * b = k * a + k + k * (b - a - 1) /\ b - a - 1 \in Nat
    BY <1>3
  <2>2. k * (b - a - 1) \in Nat
    BY <2>1
  <2> QED
    BY <1>1, <2>1, <2>2
<1> QED
  BY <1>1, <1>2, <1>3

LEMMA BinBounds ==
  ASSUME NEW d \in Nat \ {0}, NEW n \in Nat, NEW b \in Nat
  PROVE  /\ n \div d \in Nat /\ n \div d <= n
         /\ n >= d * b <=> n \div d >= b
<1> DEFINE q == n \div d
           r == n % d
<1>1. q \in Nat /\ r \in Nat /\ r < d /\ n = d * q + r
  BY DivisionFacts
<1> HIDE DEF q, r
<1>2. q <= d * q /\ d * q \in Nat /\ d * b \in Nat
  BY <1>1, ProductGrows
<1>3. b <= q => d * b <= d * q
  BY <1>1, ProductGrows
<1>4. q < b => d * q + d <= d * b
  BY <1>1, ProductGrows
<1>5. q <= n
  BY <1>1, <1>2
<1>6. b <= q => n >= d * b
  BY <1>1, <1>2, <1>3
<1>7. q < b => ~(n >= d * b)
  BY <1>1, <1>2, <1>4
<1> QED
  BY <1>1, <1>5, <1>6, <1>7 DEF q

--------------------------------------------------------------------------------
(* The threads' common view.                                                 *)

LEMMA WeightFacts ==
  ASSUME Types, NEW u \in Nodes
  PROVE  /\ DOMAIN weight = Nodes /\ DOMAIN weight[u] \subseteq Nodes
         /\ \A v \in DOMAIN weight[u] : weight[u][v] \in Nat
<1>1. /\ DOMAIN weight = Nodes /\ DOMAIN weight[u] \subseteq Nodes
      /\ weight[u] \in [DOMAIN weight[u] -> Nat]
  BY SSSPAssumption DEF Types
<1> QED
  BY <1>1

LEMMA IterFacts ==
  ASSUME Types
  PROVE  /\ Iter \in 0 .. 1 /\ 1 - Iter \in 0 .. 1 /\ 1 - Iter # Iter /\ 1 - (1 - Iter) = Iter
         /\ CurBin \in Nat /\ NextBin \in Nat /\ CurTail \in Nat /\ NextTail \in Nat
         /\ (CHOOSE w \in Workers : TRUE) \in Workers
<1>1. (CHOOSE w \in Workers : TRUE) \in Workers
  BY SSSPAssumption
<1> DEFINE x == CHOOSE w \in Workers : TRUE
<1>2. Iter = my[x].iter
  BY DEF Iter
<1> HIDE DEF x
<1>3. Iter \in 0 .. 1
  BY <1>1, <1>2 DEF x, Types, WorkerType
<1>4. 1 - Iter \in 0 .. 1 /\ 1 - Iter # Iter /\ 1 - (1 - Iter) = Iter
  BY <1>3
<1> QED
  BY <1>1, <1>3, <1>4 DEF Types, CurBin, NextBin, CurTail, NextTail, x

(* Every thread reads the same halves of the double buffers.                 *)
LEMMA CommonView ==
  ASSUME Types, Together, NEW w \in Workers
  PROVE  /\ curr(w) = Iter /\ next(w) = 1 - Iter
         /\ curr_bin_index(w) = CurBin /\ next_bin_index(w) = NextBin
  BY DEF Together, curr, next, curr_bin_index, next_bin_index, CurBin, NextBin

(* A step that moves one thread within its phase.                            *)
LEMMA Moves ==
  ASSUME Types, Together, NEW w \in Workers, NEW m \in WorkerType,
         my' = [my EXCEPT ![w] = m], m.iter = my[w].iter,
         my[w].pc \in InAPhase <=> m.pc \in InAPhase
  PROVE  /\ my' \in [Workers -> WorkerType]
         /\ my'[w] = m /\ \A x \in Workers \ {w} : my'[x] = my[x]
         /\ Iter' = Iter /\ Copying' = Copying /\ Together'
<1>1. /\ my' \in [Workers -> WorkerType]
      /\ my'[w] = m /\ \A x \in Workers \ {w} : my'[x] = my[x]
  BY DEF Types
<1>2. \A x \in Workers : my'[x].iter = my[x].iter
  BY <1>1
<1>3. Iter' = Iter
  BY <1>2, IterFacts DEF Iter
<1>4. \A x \in Workers : my'[x].pc \in InAPhase <=> my[x].pc \in InAPhase
  BY <1>1
<1>5. \A x \in Workers : my[x].pc \in InAPhase \cup InBPhase /\ my'[x].pc \in InAPhase \cup InBPhase
  BY <1>1 DEF Types, WorkerType
<1>6. InAPhase \cap InBPhase = {}
  BY DEF InAPhase, InBPhase
<1>7. \A x \in Workers : my'[x].pc \in InBPhase <=> my[x].pc \in InBPhase
  BY <1>4, <1>5, <1>6
<1>8. Copying' = Copying
  BY <1>7 DEF Copying, InBPhase
<1>9. Together'
  BY <1>2, <1>3, <1>7, <1>8 DEF Together
<1> QED
  BY <1>1, <1>3, <1>8, <1>9

(* The place of one thread says which phase all of them are in.              *)
LEMMA Phases ==
  ASSUME Types, Together, NEW w \in Workers
  PROVE  /\ my[w].pc \in InAPhase => ~Copying
         /\ my[w].pc \in InBPhase => Copying
         /\ ~Copying => my[w].pc \in InAPhase
         /\ Copying => my[w].pc \in InBPhase
<1>1. my[w].pc \in InAPhase \cup InBPhase
  BY DEF Types, WorkerType
<1> QED
  BY <1>1 DEF Together, Copying, InAPhase, InBPhase

(* The slots that are to be taken ...                                        *)
ToTake == (UNION {my[w].i .. my[w].end - 1 : w \in Workers}) \cup (next_index .. CurTail - 1)

LEMMA SlotsToTake == Types /\ Together /\ ~Copying => Slots = ToTake
<1> HAVE Types /\ Together /\ ~Copying
<1>1. {x \in Workers : At(x, "copy")} = {}
  BY Phases DEF At, InAPhase
<1> QED
  BY <1>1 DEF Slots, CurTail, ToTake

(* ... and those that are filled.                                            *)
Filled ==
  {i \in 0 .. NextTail - 1 : \A w \in Workers : my[w].pc = "copy" => i \notin CopyRange(w)}

LEMMA SlotsFilled ==
  Types /\ Together /\ LocalsOK /\ Copying /\ next_index = 0 => Slots = Filled
<1> HAVE Types /\ Together /\ LocalsOK /\ Copying /\ next_index = 0
<1>1. \A w \in Workers : my[w].i = 0 /\ my[w].end = 0
  BY Phases DEF InBPhase, LocalsOK, PlaceOK
<1> DEFINE P == UNION {my[w].i .. my[w].end - 1 : w \in Workers}
           T == 0 .. NextTail - 1
<1>2. P = {}
  BY <1>1
<1>3. \A w \in Workers : next_bin_index(w) = NextBin
  BY CommonView
<1> DEFINE R == UNION {CopyRange(w) : w \in {x \in Workers : my[x].pc = "copy"}}
           Q == UNION {my[w].copy_start .. my[w].copy_start
                           + Len(Bin(local_bins[w], next_bin_index(w))) - 1 :
                          w \in {x \in Workers : At(x, "copy")}}
<1>4. Q = R
  BY <1>3 DEF CopyRange, At
<1>5. Slots = P \cup (T \ Q)
  BY DEF Slots, NextTail
<1> HIDE DEF P, Q, R, T
<1>6. Slots = T \ R
  BY <1>2, <1>4, <1>5
<1>7. T \ R = Filled
  BY DEF R, T, Filled
<1> QED
  BY <1>6, <1>7

--------------------------------------------------------------------------------
LEMMA InitIInv == Init => IInv
<1> SUFFICES ASSUME Init PROVE IInv
  OBVIOUS
<1>1. Types
  <2>1. delta \in Nat \ {0} /\ kDistInf \in Nat \ {0} /\ kMaxBin \in Nat
    BY SSSPAssumption DEF Init
  <2>2. dist \in [Nodes -> 0 .. kDistInf]
    BY <2>1 DEF Init
  <2>3. shared_indexes \in [0 .. 1 -> Nat] /\ frontier_tails \in [0 .. 1 -> Nat]
    BY <2>1 DEF Init
  <2>4. 0 \in Nodes /\ <<>> \in Seq(Nodes) /\ <<>> \in Seq(Seq(Nodes))
    BY SSSPAssumption DEF Nodes
  <2>5. NewWorker \in WorkerType
    BY <2>1, <2>4 DEF NewWorker, WorkerType, InAPhase
  <2>6. DOMAIN frontier \subseteq Nat /\ \A i \in DOMAIN frontier : frontier[i] \in Nodes
    BY DEF Init
  <2>7. local_bins \in [Workers -> Seq(Seq(Nodes))] /\ my \in [Workers -> WorkerType]
    BY <2>4, <2>5 DEF Init
  <2> QED
    BY <2>1, <2>2, <2>3, <2>6, <2>7 DEF Init, Types
<1>2. \A w \in Workers : my[w] = NewWorker /\ local_bins[w] = <<>>
  BY DEF Init
<1>3. Iter = 0 /\ ~Copying /\ Together
  BY <1>2, IterFacts, <1>1 DEF Iter, Copying, Together, NewWorker
<1>4. CurBin = 0 /\ NextBin = kMaxBin /\ CurTail = 1 /\ NextTail = 0
  BY <1>3 DEF Init, CurBin, NextBin, CurTail, NextTail
<1>5. LocalsOK /\ BinsFit
  BY <1>2, SSSPAssumption DEF LocalsOK, PlaceOK, EdgeOK, Relaxing, NewWorker, BinsFit
<1>6. \A u \in Nodes : dist[u] >= delta * CurBin
  BY <1>1, <1>4 DEF Types
<1>7. RelaxPhase
  BY <1>2, <1>4, <1>6, WeightFacts, <1>1 DEF RelaxPhase, AllAbove, WorksAbove, Relaxing, NewWorker
<1>8. UNION {my[w].i .. my[w].end - 1 : w \in Workers} = {}
  BY <1>2 DEF NewWorker
<1>9. Slots = {0}
  <2> DEFINE P == UNION {my[w].i .. my[w].end - 1 : w \in Workers}
             T == next_index .. CurTail - 1
  <2>1. T = {0}
    BY <1>4 DEF Init
  <2>2. Slots = P \cup T
    BY <1>1, <1>3, SlotsToTake DEF ToTake
  <2>3. P = {}
    BY <1>8
  <2> HIDE DEF P, T
  <2> QED
    BY <2>1, <2>2, <2>3
<1>10. SlotsWritten
  BY <1>9 DEF Init, SlotsWritten
<1>11. NoTenseEdgeForgotten
  <2> SUFFICES ASSUME NEW u \in Nodes, NEW v \in DOMAIN weight[u], Tense(u, v) PROVE Waits(u)
    BY DEF NoTenseEdgeForgotten
  <2>1. weight[u][v] \in Nat /\ v \in Nodes
    BY <1>1, WeightFacts
  <2>2. u = source
    BY <2>1, SSSPAssumption DEF Init, Tense
  <2> QED
    BY <1>9, <2>2 DEF Init, Waits
<1> QED
  BY <1>1, <1>3, <1>5, <1>7, <1>10, <1>11 DEF IInv

--------------------------------------------------------------------------------
(* The first phase.                                                          *)

(* A slot of the current frontier that no thread has claimed holds u.        *)
Unclaimed(u) == \E i \in (next_index .. CurTail - 1) \cap DOMAIN frontier : frontier[i] = u

(* It is up to thread w to relax the edge from u to v.                       *)
Owes(w, u, v) ==
  \/ Contains(Bin(local_bins[w], bin_of(u)), u)
  \/ Contains(my[w].batch, u)
  \/ \E i \in (my[w].i .. my[w].end - 1) \cap DOMAIN frontier : frontier[i] = u
  \/ Relaxed(w, u, v)

EdgesOwed ==
  \A u \in Nodes : \A v \in DOMAIN weight[u] :
    Tense(u, v) => Unclaimed(u) \/ \E w \in Workers : Owes(w, u, v)

LEMMA OwedIsNotForgotten ==
  Types /\ Together /\ ~Copying => (NoTenseEdgeForgotten <=> EdgesOwed)
<1> HAVE Types /\ Together /\ ~Copying
<1> DEFINE P == UNION {my[w].i .. my[w].end - 1 : w \in Workers}
           T == next_index .. CurTail - 1
           D == DOMAIN frontier
<1>1. Slots = P \cup T
  BY SlotsToTake DEF ToTake
<1>2. \A i : i \in P <=> \E w \in Workers : i \in my[w].i .. my[w].end - 1
  OBVIOUS
<1> HIDE DEF P, T, D
<1>3. ASSUME NEW u
      PROVE  (\E i \in Slots \cap D : frontier[i] = u)
               <=> \/ \E i \in T \cap D : frontier[i] = u
                   \/ \E w \in Workers : \E i \in (my[w].i .. my[w].end - 1) \cap D : frontier[i] = u
  <2> DEFINE I(w) == my[w].i .. my[w].end - 1
  <2> HIDE DEF I
  <2>1. \A i : i \in Slots <=> i \in T \/ \E w \in Workers : i \in I(w)
    BY <1>1, <1>2 DEF I
  <2>2. (\E i \in Slots \cap D : frontier[i] = u)
               <=> \/ \E i \in T \cap D : frontier[i] = u
                   \/ \E w \in Workers : \E i \in I(w) \cap D : frontier[i] = u
    BY <2>1
  <2> QED
    BY <2>2 DEF I
<1>4. ASSUME NEW u \in Nodes, NEW v
      PROVE  Waits(u) \/ (\E w \in Workers : Relaxed(w, u, v))
               <=> Unclaimed(u) \/ \E w \in Workers : Owes(w, u, v)
  BY <1>3 DEF Waits, Unclaimed, Owes, T, D
<1> QED
  BY <1>4 DEF NoTenseEdgeForgotten, EdgesOwed

(* What a thread in the first phase holds lies in the current bin or above.  *)
Above(m) ==
  /\ Relaxing(m) => dist[m.u] >= delta * CurBin
  /\ m.edge \in {"cas", "retry"} => m.new_dist >= delta * CurBin
  /\ \A u \in Nodes : Contains(m.batch, u) => dist[u] >= delta * CurBin

(* A step of the first phase in which a thread moves on in its own business: *)
(* it may claim slots of the frontier and take vertices out of its bins, but *)
(* it lowers no distance and casts no vote.                                  *)
LEMMA OwnMove ==
  ASSUME IInv, NEW w \in Workers, my[w].pc \in InAPhase,
         NEW m \in WorkerType, my' = [my EXCEPT ![w] = m],
         m.iter = my[w].iter, m.pc \in InAPhase \ {"voted"},
         UNCHANGED <<args, dist, frontier, shared_indexes, frontier_tails, single_taken>>,
         NEW bins \in Seq(Seq(Nodes)), local_bins' = [local_bins EXCEPT ![w] = bins],
         Len(bins) <= kDistInf,
         \A u \in Nodes : Contains(Bin(bins, CurBin), u) => Contains(Bin(local_bins[w], CurBin), u),
         next_index' \in Nat, next_index' >= next_index,
         PlaceOK(m), EdgeOK(m), Above(m),
         m.pc \in {"fusion", "vote"} => next_index' >= CurTail,
         m.pc = "done" => CurBin = kMaxBin,
         \A i \in m.i .. m.end - 1 :
           i \in my[w].i .. my[w].end - 1 \/ i \in next_index .. CurTail - 1,
         \A u \in Nodes : \A v \in DOMAIN weight[u] :
           Tense(u, v) /\ (Unclaimed(u) \/ Owes(w, u, v)) => Unclaimed(u)' \/ Owes(w, u, v)'
  PROVE  IInv'
<1>1. Types /\ Together /\ BinsFit /\ LocalsOK /\ SlotsWritten /\ NoTenseEdgeForgotten
  BY DEF IInv
<1>2. ~Copying /\ RelaxPhase
  BY <1>1, Phases DEF IInv
<1>3. /\ my' \in [Workers -> WorkerType]
      /\ my'[w] = m /\ \A x \in Workers \ {w} : my'[x] = my[x]
      /\ Iter' = Iter /\ Copying' = Copying /\ Together'
  <2>1. my[w].pc \in InAPhase <=> m.pc \in InAPhase
    OBVIOUS
  <2> QED
    BY <1>1, <2>1, Moves
<1>4. local_bins' \in [Workers -> Seq(Seq(Nodes))]
      /\ local_bins'[w] = bins /\ \A x \in Workers \ {w} : local_bins'[x] = local_bins[x]
  BY <1>1 DEF Types
<1>5. CurBin' = CurBin /\ NextBin' = NextBin /\ CurTail' = CurTail /\ NextTail' = NextTail
  BY <1>3 DEF CurBin, NextBin, CurTail, NextTail
<1>6. Types'
  BY <1>1, <1>3, <1>4 DEF Types, args
<1>7. BinsFit'
  BY <1>1, <1>4 DEF BinsFit
<1>8. LocalsOK'
  <2> SUFFICES ASSUME NEW x \in Workers PROVE PlaceOK(my'[x]) /\ EdgeOK(my[x])'
    BY DEF LocalsOK
  <2>1. PlaceOK(my[x]) /\ EdgeOK(my[x])
    BY <1>1 DEF LocalsOK
  <2>2. CASE x = w
    BY <1>3, <2>2 DEF EdgeOK, args
  <2>3. CASE x # w
    BY <1>3, <2>1, <2>3 DEF EdgeOK, args
  <2> QED
    BY <2>2, <2>3
<1>9. RelaxPhase'
  <2>1. AllAbove'
    BY <1>2, <1>5 DEF RelaxPhase, AllAbove, Tense, args
  <2>2. ASSUME NEW x \in Workers PROVE WorksAbove(x)'
    <3>1. WorksAbove(x) /\ WorksAbove(w)
      BY <1>2 DEF RelaxPhase
    <3>2. CASE x = w
      BY <1>3, <1>4, <1>5, <3>1, <3>2 DEF WorksAbove, Above, args
    <3>3. CASE x # w
      BY <1>3, <1>4, <1>5, <3>1, <3>3 DEF WorksAbove, args
    <3> QED
      BY <3>2, <3>3
  <2>3. (NextTail = 0)'
    BY <1>2, <1>5 DEF RelaxPhase
  <2>4. ASSUME NEW x \in Workers, my'[x].pc \in {"fusion", "vote", "voted"}
        PROVE  next_index' >= CurTail
    <3>1. next_index \in Nat /\ CurTail \in Nat
      BY <1>1, IterFacts DEF Types
    <3>2. CASE x = w
      BY <1>3, <2>4, <3>2
    <3>3. CASE x # w
      BY <1>2, <1>3, <2>4, <3>1, <3>3 DEF RelaxPhase
    <3> QED
      BY <3>2, <3>3
  <2>5. ASSUME NEW x \in Workers, my'[x].pc = "voted",
               NEW b \in Nat, b >= CurBin, Bin(local_bins'[x], b) # <<>>
        PROVE  NextBin <= b
    <3>1. x # w
      BY <1>3, <2>5
    <3> QED
      BY <1>2, <1>3, <1>4, <2>5, <3>1 DEF RelaxPhase
  <2>6. ASSUME NEW x \in Workers, my'[x].pc = "done" PROVE CurBin = kMaxBin
    BY <1>2, <1>3, <2>6 DEF RelaxPhase
  <2> QED
    BY <1>5, <2>1, <2>2, <2>3, <2>4, <2>5, <2>6 DEF RelaxPhase
<1>10. SlotsWritten'
  <2>1. \A x \in Workers : my[x].pc # "undefined"
    BY <1>1, <1>2, Phases DEF InAPhase
  <2>2. Slots \subseteq DOMAIN frontier
    BY <1>1, <2>1 DEF SlotsWritten
  <2>3. Slots' = (UNION {my'[x].i .. my'[x].end - 1 : x \in Workers}) \cup (next_index' .. CurTail' - 1)
    <3>1. (Types /\ Together /\ ~Copying => Slots = ToTake)'
      BY SlotsToTake, PTL
    <3> QED
      BY <1>2, <1>3, <1>6, <3>1 DEF ToTake
  <2>4. ASSUME NEW i \in Slots' PROVE i \in Slots
    <3> DEFINE P == UNION {my[x].i .. my[x].end - 1 : x \in Workers}
               T == next_index .. CurTail - 1
    <3>1. Slots = P \cup T
      BY <1>1, <1>2, SlotsToTake DEF ToTake
    <3>2. \A x \in Workers : my[x].i .. my[x].end - 1 \subseteq P
      OBVIOUS
    <3>3. next_index' .. CurTail' - 1 \subseteq T
      BY <1>1, <1>5, IterFacts DEF Types
    <3> HIDE DEF P
    <3>4. ASSUME NEW x \in Workers, i \in my'[x].i .. my'[x].end - 1 PROVE i \in P \cup T
      <4>1. CASE x = w
        BY <1>3, <3>2, <3>4, <4>1
      <4>2. CASE x # w
        BY <1>3, <3>2, <3>4, <4>2
      <4> QED
        BY <4>1, <4>2
    <3> HIDE DEF T
    <3>5. i \in next_index' .. CurTail' - 1 \/ \E x \in Workers : i \in my'[x].i .. my'[x].end - 1
      BY <2>3
    <3> QED
      BY <3>1, <3>3, <3>4, <3>5
  <2> QED
    BY <2>2, <2>4 DEF SlotsWritten
<1>11. NoTenseEdgeForgotten'
  <2>1. EdgesOwed
    BY <1>1, <1>2, OwedIsNotForgotten
  <2>2. EdgesOwed'
    <3> SUFFICES ASSUME NEW u \in Nodes, NEW v \in DOMAIN weight'[u], Tense(u, v)'
                 PROVE  Unclaimed(u)' \/ \E x \in Workers : Owes(x, u, v)'
      BY DEF EdgesOwed
    <3>1. v \in DOMAIN weight[u] /\ Tense(u, v)
      BY DEF args, Tense
    <3>2. PICK x \in Workers : Unclaimed(u) \/ Owes(x, u, v)
      BY <2>1, <3>1 DEF EdgesOwed
    <3>3. CASE Unclaimed(u) \/ Owes(w, u, v)
      BY <3>1, <3>3
    <3>4. CASE x # w /\ Owes(x, u, v)
      BY <1>3, <1>4, <3>4 DEF Owes, Relaxed, bin_of, args
    <3> QED
      BY <3>2, <3>3, <3>4
  <2>3. (Types /\ Together /\ ~Copying => (NoTenseEdgeForgotten <=> EdgesOwed))'
    BY OwedIsNotForgotten, PTL
  <2> QED
    BY <1>2, <1>3, <1>6, <2>2, <2>3
<1> QED
  BY <1>2, <1>3, <1>6, <1>7, <1>8, <1>9, <1>10, <1>11 DEF IInv

LEMMA InvFacts ==
  ASSUME IInv, NEW w \in Workers, my[w].pc \in InAPhase
  PROVE  /\ Types /\ Together /\ LocalsOK /\ ~Copying /\ RelaxPhase
         /\ my[w] \in WorkerType /\ local_bins[w] \in Seq(Seq(Nodes)) /\ Len(local_bins[w]) <= kDistInf
         /\ PlaceOK(my[w]) /\ EdgeOK(my[w]) /\ Above(my[w]) /\ WorksAbove(w)
         /\ next_index \in Nat /\ CurTail \in Nat /\ CurBin \in Nat
         /\ Slots \subseteq DOMAIN frontier /\ next_index .. CurTail - 1 \subseteq DOMAIN frontier
         /\ my[w].i .. my[w].end - 1 \subseteq DOMAIN frontier
         /\ curr_bin_index(w) = CurBin /\ frontier_tails[curr(w)] = CurTail
<1>1. Types /\ Together /\ LocalsOK /\ BinsFit /\ SlotsWritten
  BY DEF IInv
<1>2. ~Copying /\ RelaxPhase
  BY <1>1, Phases DEF IInv
<1>3. \A x \in Workers : my[x].pc # "undefined"
  BY <1>1, <1>2, Phases DEF InAPhase
<1>4. Slots \subseteq DOMAIN frontier
  BY <1>1, <1>3 DEF SlotsWritten
<1>5. next_index .. CurTail - 1 \subseteq Slots /\ my[w].i .. my[w].end - 1 \subseteq Slots
  <2> DEFINE P == UNION {my[x].i .. my[x].end - 1 : x \in Workers}
  <2>1. Slots = P \cup (next_index .. CurTail - 1)
    BY <1>1, <1>2, SlotsToTake DEF ToTake
  <2>2. my[w].i .. my[w].end - 1 \subseteq P
    OBVIOUS
  <2> HIDE DEF P
  <2> QED
    BY <2>1, <2>2
<1>6. my[w] \in WorkerType /\ local_bins[w] \in Seq(Seq(Nodes)) /\ next_index \in Nat
  BY <1>1 DEF Types
<1>7. PlaceOK(my[w]) /\ EdgeOK(my[w]) /\ Len(local_bins[w]) <= kDistInf
  BY <1>1 DEF LocalsOK, BinsFit
<1>8. WorksAbove(w) /\ Above(my[w])
  BY <1>2 DEF RelaxPhase, WorksAbove, Above
<1>9. /\ curr_bin_index(w) = CurBin /\ frontier_tails[curr(w)] = CurTail
      /\ CurTail \in Nat /\ CurBin \in Nat
  BY <1>1, CommonView, IterFacts DEF CurTail
<1> QED
  BY <1>1, <1>2, <1>4, <1>5, <1>6, <1>7, <1>8, <1>9

(* A step inside RelaxEdges that lowers no distance.                         *)
LEMMA EdgeMove ==
  ASSUME IInv, NEW w \in Workers, Relaxing(my[w]),
         NEW m \in WorkerType, my' = [my EXCEPT ![w] = m],
         m.pc = my[w].pc, m.iter = my[w].iter, m.i = my[w].i, m.end = my[w].end,
         m.batch = my[w].batch,
         UNCHANGED <<args, dist, shared, local_bins>>,
         EdgeOK(m), m.u = my[w].u \/ ~Relaxing(m),
         m.edge \in {"cas", "retry"} => m.new_dist >= delta * CurBin,
         \A u \in Nodes : \A v \in DOMAIN weight[u] :
           Tense(u, v) /\ Relaxed(w, u, v) => Relaxed(w, u, v)'
  PROVE  IInv'
<1>1. my[w].pc \in {"frontier", "fusion"}
  BY DEF IInv, LocalsOK, PlaceOK
<1>2. my[w].pc \in InAPhase /\ m.pc \in InAPhase \ {"voted"}
  BY <1>1 DEF InAPhase
<1>3. /\ Types /\ Together /\ RelaxPhase
      /\ my[w] \in WorkerType /\ local_bins[w] \in Seq(Seq(Nodes)) /\ Len(local_bins[w]) <= kDistInf
      /\ PlaceOK(my[w]) /\ Above(my[w]) /\ next_index \in Nat
  BY <1>2, InvFacts
<1>4. local_bins' = [local_bins EXCEPT ![w] = local_bins[w]]
  BY <1>3 DEF Types
<1>5. PlaceOK(m)
  BY <1>1, <1>3 DEF PlaceOK
<1>6. Above(m)
  BY <1>3 DEF Above
<1>7. m.pc \in {"fusion", "vote"} => next_index' >= CurTail
  BY <1>3 DEF RelaxPhase, shared
<1>8. my'[w] = m /\ Iter' = Iter
  BY <1>2, <1>3, Moves
<1>9. CurTail' = CurTail
  BY <1>8 DEF CurTail, shared
<1>10. ASSUME NEW u \in Nodes, NEW v \in DOMAIN weight[u],
              Tense(u, v), Unclaimed(u) \/ Owes(w, u, v)
       PROVE  Unclaimed(u)' \/ Owes(w, u, v)'
  <2>1. CASE Unclaimed(u)
    BY <1>9, <2>1 DEF Unclaimed, shared
  <2>2. CASE Relaxed(w, u, v)
    BY <1>10, <2>2 DEF Owes
  <2>3. CASE Owes(w, u, v) /\ ~Relaxed(w, u, v)
    BY <1>8, <2>3 DEF Owes, bin_of, args, shared
  <2> QED
    BY <1>10, <2>1, <2>2, <2>3
<1>11. /\ UNCHANGED <<args, dist, frontier, shared_indexes, frontier_tails, single_taken>>
       /\ next_index' = next_index
  BY DEF shared
<1>12. next_index' \in Nat /\ next_index' >= next_index
  BY <1>3, <1>11
<1>13. \A u \in Nodes : \A v \in DOMAIN weight[u] :
         Tense(u, v) /\ (Unclaimed(u) \/ Owes(w, u, v)) => Unclaimed(u)' \/ Owes(w, u, v)'
  BY <1>10
<1>14. m.pc = "done" => CurBin = kMaxBin
  BY <1>1
<1>15. \A i \in m.i .. m.end - 1 :
           i \in my[w].i .. my[w].end - 1 \/ i \in next_index .. CurTail - 1
  OBVIOUS
<1> QED
  BY <1>2, <1>3, <1>4, <1>5, <1>6, <1>7, <1>11, <1>12, <1>13, <1>14, <1>15, OwnMove

(* ... as it stands once the edge is done.                                   *)
LEMMA EdgeDoneFacts ==
  ASSUME Types, LocalsOK, NEW w \in Workers
  PROVE  /\ EdgeDone(w) \in WorkerType /\ EdgeDone(w).edge = "none"
         /\ EdgeDone(w).pc = my[w].pc /\ EdgeDone(w).iter = my[w].iter
         /\ EdgeDone(w).i = my[w].i /\ EdgeDone(w).end = my[w].end
         /\ EdgeDone(w).batch = my[w].batch /\ EdgeDone(w).todo = my[w].todo
         /\ EdgeDone(w).copy_start = my[w].copy_start
         /\ EdgeDone(w).u = my[w].u \/ ~Relaxing(EdgeDone(w))
         /\ EdgeOK(EdgeDone(w))
<1> DEFINE m == EdgeDone(w)
<1>1. my[w] \in WorkerType /\ EdgeOK(my[w])
  BY DEF Types, LocalsOK
<1>2. 0 \in Nodes /\ 0 \in 0 .. kDistInf /\ 0 \in Nat
  BY SSSPAssumption DEF Nodes
<1>3. m \in WorkerType
  BY <1>1, <1>2 DEF EdgeDone, WorkerType
<1>4. /\ m.edge = "none" /\ m.pc = my[w].pc /\ m.iter = my[w].iter
      /\ m.i = my[w].i /\ m.end = my[w].end /\ m.batch = my[w].batch /\ m.todo = my[w].todo
      /\ m.copy_start = my[w].copy_start
      /\ m.u = IF my[w].todo = {} THEN 0 ELSE my[w].u
  BY <1>1 DEF EdgeDone, WorkerType
<1> HIDE DEF m
<1>5. m.u = my[w].u \/ ~Relaxing(m)
  BY <1>4 DEF Relaxing
<1>6. EdgeOK(m)
  BY <1>1, <1>4 DEF EdgeOK
<1> QED
  BY <1>3, <1>4, <1>5, <1>6 DEF m

LEMMA ReadOldDistIInv ==
  ASSUME IInv, NEW w \in Workers, UNCHANGED args, ReadOldDist(w)
  PROVE  IInv'
<1>1. PICK v \in my[w].todo :
        my' = [my EXCEPT ![w].todo = @ \ {v}, ![w].v = v, ![w].old_dist = dist[v], ![w].edge = "new"]
  BY DEF ReadOldDist
<1>2. my[w].edge = "none" /\ UNCHANGED <<args, dist, shared, local_bins>>
  BY DEF ReadOldDist
<1> DEFINE m == [my[w] EXCEPT !.todo = @ \ {v}, !.v = v, !.old_dist = dist[v], !.edge = "new"]
<1>3. Types /\ my[w] \in WorkerType /\ EdgeOK(my[w])
  BY DEF IInv, Types, LocalsOK
<1>4. v \in DOMAIN weight[my[w].u] /\ v \in Nodes /\ dist[v] \in 0 .. kDistInf
  BY <1>3 DEF EdgeOK, WorkerType, Types
<1>5. my' = [my EXCEPT ![w] = m]
  BY <1>1
<1>6. m \in WorkerType
  BY <1>3, <1>4 DEF WorkerType
<1>7. /\ m.pc = my[w].pc /\ m.iter = my[w].iter /\ m.i = my[w].i /\ m.end = my[w].end
      /\ m.batch = my[w].batch /\ m.u = my[w].u /\ m.edge = "new" /\ m.v = v
      /\ m.todo = my[w].todo \ {v} /\ m.old_dist = dist[v]
  BY <1>3 DEF WorkerType
<1> HIDE DEF m
<1>8. EdgeOK(m)
  BY <1>3, <1>4, <1>7 DEF EdgeOK
<1>9. my'[w] = m
  BY <1>3, <1>5 DEF Types
<1>10. \A u \in Nodes : \A x \in DOMAIN weight[u] : Relaxed(w, u, x) => Relaxed(w, u, x)'
  BY <1>2, <1>7, <1>9 DEF Relaxed
<1>11. Relaxing(my[w])
  BY <1>1 DEF Relaxing
<1> QED
  BY <1>2, <1>5, <1>6, <1>7, <1>8, <1>10, <1>11, EdgeMove

(* The values a thread in RelaxEdges works with.                             *)
LEMMA EdgeFacts ==
  ASSUME IInv, NEW w \in Workers, my[w].edge # "none"
  PROVE  /\ Types /\ Together /\ LocalsOK /\ RelaxPhase /\ ~Copying
         /\ my[w].pc \in {"frontier", "fusion"} /\ my[w].pc \in InAPhase
         /\ my[w] \in WorkerType /\ EdgeOK(my[w]) /\ Above(my[w]) /\ Relaxing(my[w])
         /\ my[w].u \in Nodes /\ my[w].v \in Nodes /\ my[w].v \in DOMAIN weight[my[w].u]
         /\ weight[my[w].u][my[w].v] \in Nat
         /\ dist[my[w].u] \in 0 .. kDistInf /\ dist[my[w].v] \in 0 .. kDistInf
         /\ my[w].old_dist \in 0 .. kDistInf /\ my[w].new_dist \in Nat
         /\ dist[my[w].u] >= delta * CurBin
         /\ delta \in Nat \ {0} /\ CurBin \in Nat /\ kDistInf \in Nat
<1>1. Types /\ LocalsOK /\ Relaxing(my[w])
  BY DEF IInv, Relaxing
<1>2. my[w].pc \in {"frontier", "fusion"}
  BY <1>1 DEF LocalsOK, PlaceOK
<1>3. my[w].pc \in InAPhase
  BY <1>2 DEF InAPhase
<1>4. Together /\ RelaxPhase /\ ~Copying /\ my[w] \in WorkerType /\ EdgeOK(my[w]) /\ Above(my[w])
  BY <1>3, InvFacts
<1>5. /\ my[w].u \in Nodes /\ my[w].v \in Nodes /\ my[w].v \in DOMAIN weight[my[w].u]
      /\ my[w].old_dist \in 0 .. kDistInf /\ my[w].new_dist \in Nat
  BY <1>4 DEF EdgeOK, WorkerType
<1>6. weight[my[w].u][my[w].v] \in Nat
  BY <1>1, <1>5, WeightFacts
<1>7. /\ dist[my[w].u] \in 0 .. kDistInf /\ dist[my[w].v] \in 0 .. kDistInf
      /\ delta \in Nat \ {0}
  BY <1>1, <1>5 DEF Types
<1>8. dist[my[w].u] >= delta * CurBin
  BY <1>1, <1>4 DEF Above
<1> QED
  BY <1>1, <1>2, <1>3, <1>4, <1>5, <1>6, <1>7, <1>8, IterFacts, SSSPAssumption

(* The loop test keeps the candidate as long as it can be an improvement.    *)
LEMMA TryOrLeaveIInv ==
  ASSUME IInv, NEW w \in Workers, my[w].edge # "none",
         NEW old_dist \in 0 .. kDistInf, NEW new_dist \in Nat, dist[my[w].v] <= old_dist,
         dist[my[w].u] + weight[my[w].u][my[w].v] <= new_dist, new_dist >= delta * CurBin,
         \A v \in DOMAIN weight[my[w].u] :
           Tense(my[w].u, v) /\ Relaxed(w, my[w].u, v) =>
             \/ v \in my[w].todo
             \/ v = my[w].v /\ new_dist = dist[my[w].u] + weight[my[w].u][v],
         UNCHANGED <<args, dist, shared, local_bins>>, TryOrLeave(w, old_dist, new_dist)
  PROVE  IInv'
<1>1. Types /\ LocalsOK /\ my[w] \in WorkerType /\ EdgeOK(my[w]) /\ Relaxing(my[w])
  BY DEF IInv, Types, LocalsOK, Relaxing
<1>2. /\ my[w].u \in Nodes /\ my[w].v \in DOMAIN weight[my[w].u] /\ my[w].v \in Nodes
      /\ dist[my[w].u] \in 0 .. kDistInf /\ dist[my[w].v] \in 0 .. kDistInf
      /\ weight[my[w].u][my[w].v] \in Nat
  BY EdgeFacts
<1>3. CASE new_dist < old_dist
  <2> DEFINE m == [my[w] EXCEPT !.old_dist = old_dist, !.new_dist = new_dist, !.edge = "cas"]
  <2>1. my' = [my EXCEPT ![w] = m]
    BY <1>3 DEF TryOrLeave
  <2>2. m \in WorkerType
    BY <1>1 DEF WorkerType
  <2>3. /\ m.pc = my[w].pc /\ m.iter = my[w].iter /\ m.i = my[w].i /\ m.end = my[w].end
        /\ m.batch = my[w].batch /\ m.u = my[w].u /\ m.edge = "cas" /\ m.v = my[w].v
        /\ m.todo = my[w].todo /\ m.old_dist = old_dist /\ m.new_dist = new_dist
    BY <1>1 DEF WorkerType
  <2> HIDE DEF m
  <2>4. EdgeOK(m)
    BY <1>1, <1>3, <2>3 DEF EdgeOK
  <2>5. my'[w] = m
    BY <1>1, <2>1 DEF Types
  <2>6. ASSUME NEW u \in Nodes, NEW v \in DOMAIN weight[u], Tense(u, v), Relaxed(w, u, v)
        PROVE  Relaxed(w, u, v)'
    <3>1. u = my[w].u
      BY <2>6 DEF Relaxed
    <3>2. v \in my[w].todo \/ (v = my[w].v /\ new_dist = dist[u] + weight[u][v])
      BY <2>6, <3>1
    <3> QED
      BY <2>3, <2>5, <3>1, <3>2 DEF Relaxed, args
  <2> QED
    BY <1>1, <2>1, <2>2, <2>3, <2>4, <2>6, EdgeMove
<1>4. CASE ~(new_dist < old_dist)
  <2> DEFINE m == EdgeDone(w)
  <2>1. my' = [my EXCEPT ![w] = m]
    BY <1>4 DEF TryOrLeave
  <2>2. /\ m \in WorkerType /\ m.edge = "none"
        /\ m.pc = my[w].pc /\ m.iter = my[w].iter /\ m.i = my[w].i /\ m.end = my[w].end
        /\ m.batch = my[w].batch /\ m.todo = my[w].todo
        /\ m.u = my[w].u \/ ~Relaxing(m)
        /\ EdgeOK(m)
    BY <1>1, EdgeDoneFacts
  <2> HIDE DEF m
  <2>3. my'[w] = m
    BY <1>1, <2>1 DEF Types
  <2>4. ASSUME NEW u \in Nodes, NEW v \in DOMAIN weight[u], Tense(u, v), Relaxed(w, u, v)
        PROVE  Relaxed(w, u, v)'
    <3>1. u = my[w].u
      BY <2>4 DEF Relaxed
    <3>2. v \in my[w].todo \/ (v = my[w].v /\ new_dist = dist[u] + weight[u][v])
      BY <2>4, <3>1
    <3>3. ~(v = my[w].v /\ new_dist = dist[u] + weight[u][v])
      BY <1>2, <1>4, <2>4, <3>1 DEF Tense
    <3>4. Relaxing(m)
      BY <2>2, <3>2, <3>3 DEF Relaxing
    <3> QED
      BY <2>2, <2>3, <3>1, <3>2, <3>3, <3>4 DEF Relaxed
  <2> QED
    BY <1>1, <2>1, <2>2, <2>4, EdgeMove
<1> QED
  BY <1>3, <1>4

LEMMA ReadNewDistIInv ==
  ASSUME IInv, NEW w \in Workers, UNCHANGED args, ReadNewDist(w)
  PROVE  IInv'
<1> DEFINE u == my[w].u
           v == my[w].v
           new_dist == dist[u] + weight[u][v]
<1>1. my[w].edge = "new"
  BY DEF ReadNewDist
<1>2. /\ EdgeOK(my[w]) /\ weight[u][v] \in Nat /\ dist[u] \in 0 .. kDistInf
      /\ my[w].old_dist \in 0 .. kDistInf
      /\ dist[u] >= delta * CurBin /\ delta \in Nat \ {0} /\ CurBin \in Nat
  BY <1>1, EdgeFacts
<1>3. dist[v] <= my[w].old_dist
  BY <1>1, <1>2 DEF EdgeOK
<1>4. TryOrLeave(w, my[w].old_dist, new_dist) /\ UNCHANGED <<args, dist, shared, local_bins>>
  BY DEF ReadNewDist
<1>5. delta * CurBin \in Nat
  BY <1>2, ProductGrows
<1>6. new_dist \in Nat /\ dist[u] + weight[u][v] <= new_dist /\ new_dist >= delta * CurBin
  BY <1>2, <1>5
<1>7. \A x \in DOMAIN weight[u] :
        Relaxed(w, u, x) => x \in my[w].todo \/ (x = v /\ new_dist = dist[u] + weight[u][x])
  BY <1>1 DEF Relaxed
<1>8. my[w].edge # "none"
  BY <1>1
<1> HIDE DEF u, v, new_dist
<1> QED
  BY <1>2, <1>3, <1>4, <1>6, <1>7, <1>8, TryOrLeaveIInv DEF u, v

LEMMA RereadOldDistIInv ==
  ASSUME IInv, NEW w \in Workers, UNCHANGED args, RereadOldDist(w)
  PROVE  IInv'
<1> DEFINE u == my[w].u
           v == my[w].v
           new_dist == my[w].new_dist
<1>1. my[w].edge = "retry"
  BY DEF RereadOldDist
<1>2. /\ EdgeOK(my[w]) /\ Above(my[w]) /\ dist[v] \in 0 .. kDistInf /\ new_dist \in Nat
  BY <1>1, EdgeFacts
<1>3. dist[u] + weight[u][v] <= new_dist /\ new_dist >= delta * CurBin
  BY <1>1, <1>2 DEF EdgeOK, Above
<1>4. TryOrLeave(w, dist[v], new_dist) /\ UNCHANGED <<args, dist, shared, local_bins>>
  BY DEF RereadOldDist
<1>5. \A x \in DOMAIN weight[u] :
        Relaxed(w, u, x) => x \in my[w].todo \/ (x = v /\ new_dist = dist[u] + weight[u][x])
  BY <1>1 DEF Relaxed
<1>6. my[w].edge # "none" /\ dist[v] <= dist[v]
  BY <1>1, <1>2
<1> HIDE DEF u, v, new_dist
<1> QED
  BY <1>2, <1>3, <1>4, <1>5, <1>6, TryOrLeaveIInv DEF u, v

--------------------------------------------------------------------------------
(* A swap that succeeds lowers the distance of v and puts v in its bin.      *)
LEMMA PushFacts ==
  ASSUME Types, BinsFit, NEW w \in Workers, my[w].v \in Nodes,
         my[w].new_dist \in Nat, my[w].new_dist < kDistInf, local_bins' = Pushed(w)
  PROVE  /\ local_bins' \in [Workers -> Seq(Seq(Nodes))]
         /\ \A x \in Workers \ {w} : local_bins'[x] = local_bins[x]
         /\ Len(local_bins'[w]) <= kDistInf
         /\ \A b \in Nat : \A u :
              Contains(Bin(local_bins'[w], b), u)
                <=> Contains(Bin(local_bins[w], b), u) \/ (u = my[w].v /\ b = dest_bin(w))
<1> DEFINE v == my[w].v
           d == dest_bin(w)
           s == Append(Bin(local_bins[w], d), v)
           bins == WithBin(local_bins[w], d, s)
<1>1. delta \in Nat \ {0} /\ local_bins[w] \in Seq(Seq(Nodes)) /\ Len(local_bins[w]) <= kDistInf
      /\ local_bins \in [Workers -> Seq(Seq(Nodes))]
  BY DEF Types, BinsFit
<1>2. d \in Nat /\ d <= my[w].new_dist
  BY <1>1, BinBounds DEF dest_bin
<1>3. local_bins' = [local_bins EXCEPT ![w] = bins]
  BY DEF Pushed
<1> HIDE DEF d, v
<1>4. Bin(local_bins[w], d) \in Seq(Nodes)
  BY <1>1, <1>2, NthBin
<1>5. s \in Seq(Nodes) /\ \A u : Contains(s, u) <=> Contains(Bin(local_bins[w], d), u) \/ u = v
  BY <1>4, ContainsFacts DEF v
<1> HIDE DEF s
<1>6. /\ bins \in Seq(Seq(Nodes))
      /\ Len(bins) = Len(local_bins[w]) \/ Len(bins) = d + 1
      /\ Bin(bins, d) = s
      /\ \A c \in Nat \ {d} : Bin(bins, c) = Bin(local_bins[w], c)
  <2>1. d \in Nat /\ s \in Seq(Nodes) /\ local_bins[w] \in Seq(Seq(Nodes))
    BY <1>1, <1>2, <1>5
  <2>2. bins \in Seq(Seq(Nodes))
    BY <2>1, WithBinFacts
  <2>3. Len(bins) = Len(local_bins[w]) \/ Len(bins) = d + 1
    BY <2>1, WithBinFacts
  <2>4. Bin(bins, d) = s
    BY <2>1, WithBinFacts
  <2>5. \A c \in Nat \ {d} : Bin(bins, c) = Bin(local_bins[w], c)
    BY <2>1, WithBinFacts
  <2> HIDE DEF bins
  <2> QED
    BY <2>2, <2>3, <2>4, <2>5
<1> HIDE DEF bins
<1>7. /\ local_bins' \in [Workers -> Seq(Seq(Nodes))] /\ local_bins'[w] = bins
      /\ \A x \in Workers \ {w} : local_bins'[x] = local_bins[x]
  BY <1>1, <1>3, <1>6
<1>8. Len(bins) <= kDistInf
  BY <1>1, <1>2, <1>6, SSSPAssumption
<1>9. \A b \in Nat : \A u : Contains(Bin(bins, b), u)
                <=> Contains(Bin(local_bins[w], b), u) \/ (u = v /\ b = d)
  BY <1>5, <1>6
<1> QED
  BY <1>7, <1>8, <1>9 DEF d, v

LEMMA SwapFailsIInv ==
  ASSUME IInv, NEW w \in Workers, UNCHANGED args, CompareAndSwap(w), dist[my[w].v] # my[w].old_dist
  PROVE  IInv'
<1> DEFINE m == [my[w] EXCEPT !.edge = "retry"]
<1>1. /\ my[w].edge = "cas" /\ my' = [my EXCEPT ![w] = m]
      /\ UNCHANGED <<args, dist, shared, local_bins>>
  BY DEF CompareAndSwap
<1>2. /\ my[w] \in WorkerType /\ EdgeOK(my[w]) /\ Above(my[w]) /\ Relaxing(my[w]) /\ Types
  BY <1>1, EdgeFacts
<1>3. m \in WorkerType
  BY <1>2 DEF WorkerType
<1>4. /\ m.pc = my[w].pc /\ m.iter = my[w].iter /\ m.i = my[w].i /\ m.end = my[w].end
      /\ m.batch = my[w].batch /\ m.u = my[w].u /\ m.edge = "retry" /\ m.v = my[w].v
      /\ m.todo = my[w].todo /\ m.old_dist = my[w].old_dist /\ m.new_dist = my[w].new_dist
  BY <1>2 DEF WorkerType
<1> HIDE DEF m
<1>5. EdgeOK(m) /\ m.new_dist >= delta * CurBin
  BY <1>1, <1>2, <1>4 DEF EdgeOK, Above
<1>6. my'[w] = m
  BY <1>1, <1>2 DEF Types
<1>7. \A u \in Nodes : \A v \in DOMAIN weight[u] : Relaxed(w, u, v) => Relaxed(w, u, v)'
  BY <1>1, <1>4, <1>6 DEF Relaxed, args
<1> QED
  BY <1>1, <1>2, <1>3, <1>4, <1>5, <1>7, EdgeMove

(* What a swap does that succeeds.                                           *)
LEMMA SwapFacts ==
  ASSUME IInv, NEW w \in Workers, UNCHANGED args, CompareAndSwap(w), dist[my[w].v] = my[w].old_dist
  PROVE  /\ dist' = [dist EXCEPT ![my[w].v] = my[w].new_dist]
         /\ dist' \in [Nodes -> 0 .. kDistInf]
         /\ dist'[my[w].v] = my[w].new_dist /\ \A x \in Nodes \ {my[w].v} : dist'[x] = dist[x]
         /\ my[w].new_dist < dist[my[w].v] /\ my[w].new_dist \in Nat
         /\ dist[my[w].u] + weight[my[w].u][my[w].v] <= my[w].new_dist
         /\ my[w].new_dist >= delta * CurBin
         /\ local_bins' = Pushed(w)
         /\ my' = [my EXCEPT ![w] = EdgeDone(w)]
         /\ my[w].edge = "cas" /\ UNCHANGED shared
<1>1. /\ my[w].edge = "cas" /\ UNCHANGED shared
      /\ dist' = [dist EXCEPT ![my[w].v] = my[w].new_dist]
      /\ local_bins' = Pushed(w) /\ my' = [my EXCEPT ![w] = EdgeDone(w)]
  BY DEF CompareAndSwap
<1>2. /\ Types /\ EdgeOK(my[w]) /\ Above(my[w]) /\ my[w].v \in Nodes
      /\ my[w].old_dist \in 0 .. kDistInf /\ my[w].new_dist \in Nat /\ kDistInf \in Nat
  BY <1>1, EdgeFacts
<1>3. /\ my[w].new_dist < my[w].old_dist
      /\ dist[my[w].u] + weight[my[w].u][my[w].v] <= my[w].new_dist
      /\ my[w].new_dist >= delta * CurBin
  BY <1>1, <1>2 DEF EdgeOK, Above
<1>4. my[w].new_dist \in 0 .. kDistInf
  BY <1>2, <1>3
<1>5. /\ dist' \in [Nodes -> 0 .. kDistInf]
      /\ dist'[my[w].v] = my[w].new_dist /\ \A x \in Nodes \ {my[w].v} : dist'[x] = dist[x]
  BY <1>1, <1>2, <1>4 DEF Types
<1> QED
  BY <1>1, <1>2, <1>3, <1>5

LEMMA SwapSucceedsIInv ==
  ASSUME IInv, NEW w \in Workers, UNCHANGED args, CompareAndSwap(w), dist[my[w].v] = my[w].old_dist
  PROVE  IInv'
<1>0. PICK u \in Nodes, v \in Nodes : u = my[w].u /\ v = my[w].v
  BY EdgeFacts DEF CompareAndSwap
<1> DEFINE new_dist == my[w].new_dist
           m == EdgeDone(w)
<1>1. /\ dist' \in [Nodes -> 0 .. kDistInf]
      /\ dist'[v] = new_dist /\ \A x \in Nodes \ {v} : dist'[x] = dist[x]
      /\ new_dist < dist[v] /\ new_dist \in Nat
      /\ dist[u] + weight[u][v] <= new_dist /\ new_dist >= delta * CurBin
      /\ local_bins' = Pushed(w) /\ my' = [my EXCEPT ![w] = m]
      /\ my[w].edge = "cas" /\ UNCHANGED shared
  BY <1>0, SwapFacts
<1>2. /\ Types /\ Together /\ LocalsOK /\ RelaxPhase /\ ~Copying /\ BinsFit /\ SlotsWritten
      /\ NoTenseEdgeForgotten
      /\ my[w].pc \in {"frontier", "fusion"} /\ my[w].pc \in InAPhase
      /\ my[w] \in WorkerType /\ EdgeOK(my[w]) /\ Above(my[w])
      /\ u \in Nodes /\ v \in Nodes /\ v \in DOMAIN weight[u]
      /\ weight[u][v] \in Nat /\ dist[u] \in 0 .. kDistInf /\ dist[v] \in 0 .. kDistInf
      /\ delta \in Nat \ {0} /\ CurBin \in Nat /\ kDistInf \in Nat
  BY <1>0, <1>1, EdgeFacts DEF IInv
<1>3. /\ m \in WorkerType /\ m.edge = "none"
      /\ m.pc = my[w].pc /\ m.iter = my[w].iter /\ m.i = my[w].i /\ m.end = my[w].end
      /\ m.batch = my[w].batch /\ m.todo = my[w].todo /\ m.copy_start = my[w].copy_start
      /\ m.u = u \/ ~Relaxing(m)
      /\ EdgeOK(m)
  BY <1>0, <1>2, EdgeDoneFacts
<1> HIDE DEF m
<1>4. /\ my' \in [Workers -> WorkerType]
      /\ my'[w] = m /\ \A x \in Workers \ {w} : my'[x] = my[x]
      /\ Iter' = Iter /\ Copying' = Copying /\ Together'
  BY <1>1, <1>2, <1>3, Moves
<1>5. new_dist < kDistInf
  BY <1>1, <1>2
<1>6. /\ local_bins' \in [Workers -> Seq(Seq(Nodes))]
      /\ \A x \in Workers \ {w} : local_bins'[x] = local_bins[x]
      /\ Len(local_bins'[w]) <= kDistInf
      /\ \A b \in Nat : \A x : Contains(Bin(local_bins'[w], b), x)
                                 <=> Contains(Bin(local_bins[w], b), x) \/ (x = v /\ b = dest_bin(w))
  <2>1. /\ Types /\ BinsFit /\ my[w].v \in Nodes /\ my[w].new_dist \in Nat /\ my[w].new_dist < kDistInf
        /\ local_bins' = Pushed(w)
    BY <1>0, <1>1, <1>2, <1>5
  <2>2. \A b \in Nat : \A x : Contains(Bin(local_bins'[w], b), x)
          <=> Contains(Bin(local_bins[w], b), x) \/ (x = my[w].v /\ b = dest_bin(w))
    BY <2>1, PushFacts
  <2>3. /\ local_bins' \in [Workers -> Seq(Seq(Nodes))]
        /\ \A x \in Workers \ {w} : local_bins'[x] = local_bins[x]
        /\ Len(local_bins'[w]) <= kDistInf
    BY <2>1, PushFacts
  <2> QED
    BY <1>0, <2>2, <2>3
<1>7. dest_bin(w) \in Nat /\ dest_bin(w) = bin_of(v)'
  BY <1>1, <1>2, BinBounds DEF dest_bin, bin_of, args
<1> HIDE DEF new_dist
<1>8. /\ CurBin' = CurBin /\ NextBin' = NextBin /\ CurTail' = CurTail /\ NextTail' = NextTail
      /\ args' = args /\ weight' = weight /\ delta' = delta
      /\ frontier' = frontier /\ next_index' = next_index
  BY <1>1, <1>4 DEF CurBin, NextBin, CurTail, NextTail, shared, args
<1>9. ASSUME NEW x \in Nodes
      PROVE  dist'[x] <= dist[x] /\ dist[x] \in 0 .. kDistInf /\ dist'[x] \in 0 .. kDistInf
  <2>1. dist[x] \in 0 .. kDistInf /\ dist'[x] \in 0 .. kDistInf
    BY <1>1, <1>2 DEF Types
  <2>2. dist'[x] = dist[x] \/ dist'[x] < dist[x]
    BY <1>1
  <2> QED
    BY <1>2, <2>1, <2>2
<1>10. Types'
  BY <1>1, <1>2, <1>4, <1>6 DEF Types, args, shared
<1>11. BinsFit'
  BY <1>2, <1>6 DEF BinsFit
<1>12. LocalsOK'
  <2> SUFFICES ASSUME NEW x \in Workers PROVE PlaceOK(my'[x]) /\ EdgeOK(my[x])'
    BY DEF LocalsOK
  <2>1. PlaceOK(my[x]) /\ EdgeOK(my[x]) /\ my[x] \in WorkerType
    BY <1>2 DEF LocalsOK, Types
  <2>2. CASE x = w
    <3>1. PlaceOK(m)
      BY <1>2, <1>3, <2>1, <2>2 DEF PlaceOK
    <3>2. EdgeOK(my[w])'
      BY <1>3, <1>4, <1>8 DEF EdgeOK
    <3> QED
      BY <1>4, <2>2, <3>1, <3>2
  <2>3. CASE x # w
    <3>1. my'[x] = my[x]
      BY <1>4, <2>3
    <3>2. /\ my[x].u \in Nodes /\ my[x].v \in Nodes
          /\ my[x].old_dist \in 0 .. kDistInf /\ my[x].new_dist \in Nat
      BY <2>1 DEF WorkerType
    <3>3. my[x].edge # "none" => weight[my[x].u][my[x].v] \in Nat
      BY <1>2, <2>1, <3>2, WeightFacts DEF EdgeOK
    <3>4. /\ dist'[my[x].v] <= dist[my[x].v] /\ dist'[my[x].u] <= dist[my[x].u]
          /\ dist[my[x].v] \in 0 .. kDistInf /\ dist[my[x].u] \in 0 .. kDistInf
          /\ dist'[my[x].v] \in 0 .. kDistInf /\ dist'[my[x].u] \in 0 .. kDistInf
      BY <1>9, <3>2
    <3>5. my[x].edge = "new" => dist'[my[x].v] <= my[x].old_dist
      BY <1>2, <2>1, <3>2, <3>4 DEF EdgeOK
    <3>6. my[x].edge \in {"cas", "retry"} => dist'[my[x].u] + weight[my[x].u][my[x].v] <= my[x].new_dist
      BY <1>2, <2>1, <3>2, <3>3, <3>4 DEF EdgeOK
    <3> QED
      BY <1>8, <2>1, <3>1, <3>5, <3>6 DEF EdgeOK
  <2> QED
    BY <2>2, <2>3
<1>13. ASSUME NEW x \in Nodes, dist[x] >= delta * CurBin PROVE dist'[x] >= delta * CurBin
  BY <1>1, <1>13
<1>14. ASSUME NEW a \in Nodes, NEW b \in DOMAIN weight[a], Tense(a, b)', a # v PROVE Tense(a, b)
  <2>1. b \in Nodes /\ weight[a][b] \in Nat
    BY <1>2, WeightFacts
  <2>2. dist'[a] = dist[a]
    BY <1>1, <1>14
  <2> QED
    BY <1>8, <1>9, <1>14, <2>1, <2>2 DEF Tense
<1>15. RelaxPhase'
  <2>1. AllAbove'
    <3> SUFFICES ASSUME NEW a \in Nodes, NEW b \in DOMAIN weight[a], Tense(a, b)'
                 PROVE  dist'[a] >= delta * CurBin
      BY <1>8 DEF AllAbove
    <3>1. CASE a = v
      BY <1>1, <3>1
    <3>2. CASE a # v
      BY <1>2, <1>13, <1>14, <3>2 DEF RelaxPhase, AllAbove
    <3> QED
      BY <3>1, <3>2
  <2>2. ASSUME NEW x \in Workers PROVE WorksAbove(x)'
    <3>1. WorksAbove(x) /\ my[x] \in WorkerType
      BY <1>2 DEF RelaxPhase, Types
    <3>2. CASE x = w
      <4>1. ASSUME NEW a \in Nodes, Contains(Bin(local_bins'[w], CurBin), a)
            PROVE  dist'[a] >= delta * CurBin
        <5>1. a = v \/ Contains(Bin(local_bins[w], CurBin), a)
          BY <1>2, <1>6, <4>1
        <5> QED
          BY <1>1, <1>13, <3>1, <3>2, <5>1 DEF WorksAbove
      <4>2. ASSUME NEW a \in Nodes, Contains(m.batch, a) PROVE dist'[a] >= delta * CurBin
        BY <1>3, <1>13, <3>1, <3>2, <4>2 DEF WorksAbove
      <4>3. Relaxing(m) => dist'[m.u] >= delta * CurBin
        <5>1. dist[u] >= delta * CurBin
          BY <1>0, <1>1, <1>2 DEF Above, Relaxing
        <5> QED
          BY <1>2, <1>3, <1>13, <5>1
      <4>4. m.edge \notin {"cas", "retry"}
        BY <1>3
      <4> QED
        BY <1>4, <1>8, <3>2, <4>1, <4>2, <4>3, <4>4 DEF WorksAbove
    <3>3. CASE x # w
      <4>1. my'[x] = my[x] /\ local_bins'[x] = local_bins[x] /\ my[x].u \in Nodes
        BY <1>4, <1>6, <3>1, <3>3 DEF WorkerType
      <4> QED
        BY <1>8, <1>13, <3>1, <4>1 DEF WorksAbove
    <3> QED
      BY <3>2, <3>3
  <2>3. (NextTail = 0)'
    BY <1>2, <1>8 DEF RelaxPhase
  <2>4. \A x \in Workers : my'[x].pc = my[x].pc
    BY <1>3, <1>4
  <2>5. ASSUME NEW x \in Workers, my'[x].pc \in {"fusion", "vote", "voted"} PROVE next_index >= CurTail
    BY <1>2, <2>4, <2>5 DEF RelaxPhase
  <2>6. ASSUME NEW x \in Workers, my'[x].pc = "voted",
               NEW b \in Nat, b >= CurBin, Bin(local_bins'[x], b) # <<>>
        PROVE  NextBin <= b
    <3>1. x # w
      BY <1>2, <2>4, <2>6
    <3> QED
      BY <1>2, <1>6, <2>4, <2>6, <3>1 DEF RelaxPhase
  <2>7. ASSUME NEW x \in Workers, my'[x].pc = "done" PROVE CurBin = kMaxBin
    BY <1>2, <2>4, <2>7 DEF RelaxPhase
  <2> QED
    BY <1>8, <2>1, <2>2, <2>3, <2>5, <2>6, <2>7 DEF RelaxPhase
<1>16. SlotsWritten'
  <2>1. \A x \in Workers : my[x].pc # "undefined"
    BY <1>2, Phases DEF InAPhase
  <2>2. Slots \subseteq DOMAIN frontier
    BY <1>2, <2>1 DEF SlotsWritten
  <2>3. (Types /\ Together /\ ~Copying => Slots = ToTake)'
    BY SlotsToTake, PTL
  <2>4. ToTake' = ToTake
    <3>1. \A x \in Workers : my'[x].i = my[x].i /\ my'[x].end = my[x].end
      BY <1>3, <1>4
    <3> QED
      BY <1>8, <3>1 DEF ToTake
  <2>5. Slots' = Slots
    BY <1>2, <1>4, <1>10, <2>3, <2>4, SlotsToTake
  <2> QED
    BY <1>8, <2>2, <2>5 DEF SlotsWritten
<1>17. NoTenseEdgeForgotten'
  <2>1. EdgesOwed
    BY <1>2, OwedIsNotForgotten
  <2>2. EdgesOwed'
    <3> SUFFICES ASSUME NEW a \in Nodes, NEW b \in DOMAIN weight[a], Tense(a, b)'
                 PROVE  Unclaimed(a)' \/ \E x \in Workers : Owes(x, a, b)'
      BY <1>8 DEF EdgesOwed
    <3>0. Tense(a, b)'
      OBVIOUS
    <3>1. CASE a = v
      BY <1>6, <1>7, <3>1 DEF Owes
    <3>2. CASE a # v
      <4>1. Tense(a, b) /\ dist'[a] = dist[a] /\ bin_of(a)' = bin_of(a)
        BY <1>1, <1>8, <1>14, <3>2 DEF bin_of
      <4>2. dist[a] \in Nat
        BY <1>9
      <4>3. bin_of(a) \in Nat
        BY <1>2, <4>2, BinBounds DEF bin_of
      <4>4. PICK x \in Workers : Unclaimed(a) \/ Owes(x, a, b)
        BY <2>1, <4>1 DEF EdgesOwed
      <4>5. CASE Unclaimed(a)
        BY <1>8, <4>5 DEF Unclaimed
      <4>6. CASE x # w /\ Owes(x, a, b)
        BY <1>4, <1>6, <1>8, <4>1, <4>6 DEF Owes, Relaxed
      <4>7. CASE Owes(w, a, b) /\ ~Relaxed(w, a, b)
        BY <1>3, <1>4, <1>6, <1>8, <4>1, <4>3, <4>7 DEF Owes
      <4>8. CASE Relaxed(w, a, b)
        <5>1. a = u
          BY <1>0, <4>8 DEF Relaxed
        <5>2. CASE b \in my[w].todo
          <6>1. b \in m.todo
            BY <1>3, <5>2
          <6>2. m.u = u
            BY <1>3, <6>1 DEF Relaxing
          <6> QED
            BY <1>4, <5>1, <6>1, <6>2 DEF Owes, Relaxed
        <5>3. CASE b = v /\ new_dist = dist[u] + weight[u][v]
          <6>1. dist'[u] = dist[u] /\ dist'[v] = new_dist
            BY <1>1, <3>2, <5>1
          <6>2. dist[u] \in Nat /\ weight[u][v] \in Nat /\ dist[u] + weight[u][v] < new_dist
            BY <1>2, <1>8, <3>0, <4>2, <5>1, <5>3, <6>1 DEF Tense
          <6> QED
            BY <5>3, <6>2
        <5>4. b \in my[w].todo \/ (b = v /\ new_dist = dist[u] + weight[u][b])
          <6>1. my[w].edge = "cas"
            BY <1>1
          <6> QED
            BY <1>0, <4>8, <5>1, <6>1 DEF Relaxed, new_dist
        <5> QED
          BY <5>2, <5>3, <5>4
      <4> QED
        BY <4>4, <4>5, <4>6, <4>7, <4>8
    <3> QED
      BY <3>1, <3>2
  <2>3. (Types /\ Together /\ ~Copying => (NoTenseEdgeForgotten <=> EdgesOwed))'
    BY OwedIsNotForgotten, PTL
  <2> QED
    BY <1>2, <1>4, <1>10, <2>2, <2>3
<1> QED
  BY <1>2, <1>4, <1>10, <1>11, <1>12, <1>15, <1>16, <1>17 DEF IInv

--------------------------------------------------------------------------------
(* The rest of the first phase.                                              *)

LEMMA SameBins ==
  ASSUME Types, NEW w \in Workers
  PROVE  /\ local_bins[w] \in Seq(Seq(Nodes))
         /\ local_bins = [local_bins EXCEPT ![w] = local_bins[w]]
  BY DEF Types

LEMMA WhileTestIInv ==
  ASSUME IInv, NEW w \in Workers, UNCHANGED args, WhileTest(w)
  PROVE  IInv'
<1> DEFINE m == [my[w] EXCEPT !.pc = IF curr_bin_index(w) = kMaxBin THEN "done" ELSE "frontier"]
<1>1. /\ my[w].pc = "while" /\ my' = [my EXCEPT ![w] = m]
      /\ UNCHANGED <<args, dist, frontier, shared_indexes, frontier_tails, single_taken>>
      /\ next_index' = next_index /\ local_bins' = local_bins
  BY DEF WhileTest, At, Goto, shared
<1>2. my[w].pc \in InAPhase
  BY <1>1 DEF InAPhase
<1>3. /\ Types /\ Together /\ my[w] \in WorkerType /\ local_bins[w] \in Seq(Seq(Nodes))
      /\ Len(local_bins[w]) <= kDistInf
      /\ PlaceOK(my[w]) /\ EdgeOK(my[w]) /\ Above(my[w])
      /\ next_index \in Nat /\ curr_bin_index(w) = CurBin
  BY <1>2, InvFacts
<1>4. m \in WorkerType
  BY <1>3 DEF WorkerType, InAPhase
<1>5. /\ m.iter = my[w].iter /\ m.i = my[w].i /\ m.end = my[w].end
      /\ m.batch = my[w].batch /\ m.u = my[w].u /\ m.edge = my[w].edge /\ m.v = my[w].v
      /\ m.todo = my[w].todo /\ m.old_dist = my[w].old_dist /\ m.new_dist = my[w].new_dist
      /\ m.pc = IF CurBin = kMaxBin THEN "done" ELSE "frontier"
  BY <1>3 DEF WorkerType
<1> HIDE DEF m
<1>6. PlaceOK(m) /\ EdgeOK(m) /\ Above(m)
  BY <1>1, <1>3, <1>5 DEF PlaceOK, EdgeOK, Above, Relaxing
<1>7. m.pc \in InAPhase \ {"voted"} /\ m.pc \notin {"fusion", "vote"}
  BY <1>5 DEF InAPhase
<1>8. my'[w] = m /\ Iter' = Iter
  BY <1>1, <1>2, <1>3, <1>4, <1>5, <1>7, Moves
<1>9. CurTail' = CurTail
  BY <1>1, <1>8 DEF CurTail
<1>10. ASSUME NEW u \in Nodes, NEW v \in DOMAIN weight[u],
              Tense(u, v), Unclaimed(u) \/ Owes(w, u, v)
       PROVE  Unclaimed(u)' \/ Owes(w, u, v)'
  BY <1>1, <1>5, <1>8, <1>9, <1>10 DEF Unclaimed, Owes, Relaxed, bin_of, args
<1>11. local_bins' = [local_bins EXCEPT ![w] = local_bins[w]]
  BY <1>1, <1>3, SameBins
<1>12. next_index' \in Nat /\ next_index' >= next_index
  BY <1>1, <1>3
<1>13. m.pc = "done" => CurBin = kMaxBin
  BY <1>5
<1>14. \A i \in m.i .. m.end - 1 : i \in my[w].i .. my[w].end - 1 \/ i \in next_index .. CurTail - 1
  BY <1>5
<1> QED
  BY <1>1, <1>2, <1>3, <1>4, <1>5, <1>6, <1>7, <1>10, <1>11, <1>12, <1>13, <1>14, OwnMove

LEMMA ClaimChunkIInv ==
  ASSUME IInv, NEW w \in Workers, UNCHANGED args, ClaimChunk(w)
  PROVE  IInv'
<1>1. /\ my[w].pc = "frontier" /\ Between(w) /\ my[w].i = my[w].end
      /\ UNCHANGED <<args, dist, frontier, shared_indexes, frontier_tails, single_taken>>
      /\ local_bins' = local_bins
  BY DEF ClaimChunk, At
<1>2. my[w].pc \in InAPhase
  BY <1>1 DEF InAPhase
<1>3. /\ Types /\ Together /\ my[w] \in WorkerType /\ local_bins[w] \in Seq(Seq(Nodes))
      /\ Len(local_bins[w]) <= kDistInf
      /\ PlaceOK(my[w]) /\ EdgeOK(my[w]) /\ Above(my[w])
      /\ next_index \in Nat /\ CurTail \in Nat /\ frontier_tails[curr(w)] = CurTail
  BY <1>2, InvFacts
<1>4. kChunk \in Nat \ {0}
  BY SSSPAssumption
<1>5. local_bins' = [local_bins EXCEPT ![w] = local_bins[w]]
  BY <1>1, <1>3, SameBins
<1>6. my[w].i .. my[w].end - 1 = {}
  <2>1. my[w].i \in Nat
    BY <1>3 DEF WorkerType
  <2> QED
    BY <1>1, <2>1
<1>7. CASE next_index < CurTail
  <2> DEFINE e == IF next_index + kChunk < CurTail THEN next_index + kChunk ELSE CurTail
             m == [my[w] EXCEPT !.i = next_index, !.end = e]
  <2>1. my' = [my EXCEPT ![w] = m] /\ next_index' = next_index + kChunk
    BY <1>3, <1>7 DEF ClaimChunk
  <2>2. /\ e \in Nat /\ next_index <= e /\ e <= CurTail
        /\ \A i \in next_index .. e - 1 : i \in next_index .. CurTail - 1
        /\ \A i \in next_index .. CurTail - 1 :
             i \in next_index .. e - 1 \/ i \in next_index + kChunk .. CurTail - 1
    BY <1>3, <1>4, <1>7
  <2> HIDE DEF e
  <2>3. m \in WorkerType
    BY <1>3, <2>2 DEF WorkerType
  <2>4. /\ m.iter = my[w].iter /\ m.i = next_index /\ m.end = e
        /\ m.batch = my[w].batch /\ m.u = my[w].u /\ m.edge = my[w].edge /\ m.v = my[w].v
        /\ m.todo = my[w].todo /\ m.old_dist = my[w].old_dist /\ m.new_dist = my[w].new_dist
        /\ m.pc = "frontier"
    BY <1>1, <1>3 DEF WorkerType
  <2> HIDE DEF m
  <2>5. PlaceOK(m) /\ EdgeOK(m) /\ Above(m)
    BY <1>1, <1>3, <2>2, <2>4 DEF PlaceOK, EdgeOK, Above, Relaxing
  <2>6. m.pc \in InAPhase \ {"voted"}
    BY <2>4 DEF InAPhase
  <2>7. my'[w] = m /\ Iter' = Iter
    BY <1>2, <1>3, <2>1, <2>3, <2>4, <2>6, Moves
  <2>8. CurTail' = CurTail
    BY <1>1, <2>7 DEF CurTail
  <2>9. next_index' \in Nat /\ next_index' >= next_index
    BY <1>3, <1>4, <2>1
  <2>10. ASSUME NEW u \in Nodes, NEW v \in DOMAIN weight[u],
                Tense(u, v), Unclaimed(u) \/ Owes(w, u, v)
         PROVE  Unclaimed(u)' \/ Owes(w, u, v)'
    <3>1. CASE Unclaimed(u)
      <4>1. PICK i \in (next_index .. CurTail - 1) \cap DOMAIN frontier : frontier[i] = u
        BY <3>1 DEF Unclaimed
      <4>2. CASE i \in next_index .. e - 1
        BY <1>1, <2>4, <2>7, <4>1, <4>2 DEF Owes
      <4>3. CASE i \in next_index + kChunk .. CurTail - 1
        BY <1>1, <2>1, <2>8, <4>1, <4>3 DEF Unclaimed
      <4> QED
        BY <2>2, <4>1, <4>2, <4>3
    <3>2. CASE Owes(w, u, v)
      BY <1>1, <1>6, <2>4, <2>7, <3>2 DEF Owes, Relaxed, bin_of, args
    <3> QED
      BY <2>10, <3>1, <3>2
  <2> QED
    BY <1>1, <1>2, <1>3, <1>5, <2>1, <2>2, <2>3, <2>4, <2>5, <2>6, <2>9, <2>10, OwnMove
<1>8. CASE ~(next_index < CurTail)
  <2> DEFINE m == [my[w] EXCEPT !.i = 0, !.end = 0, !.pc = "fusion"]
  <2>1. my' = [my EXCEPT ![w] = m] /\ next_index' = next_index
    BY <1>3, <1>8 DEF ClaimChunk
  <2>2. m \in WorkerType
    BY <1>3 DEF WorkerType, InAPhase
  <2>3. /\ m.iter = my[w].iter /\ m.i = 0 /\ m.end = 0
        /\ m.batch = my[w].batch /\ m.u = my[w].u /\ m.edge = my[w].edge /\ m.v = my[w].v
        /\ m.todo = my[w].todo /\ m.old_dist = my[w].old_dist /\ m.new_dist = my[w].new_dist
        /\ m.pc = "fusion"
    BY <1>3 DEF WorkerType
  <2> HIDE DEF m
  <2>4. PlaceOK(m) /\ EdgeOK(m) /\ Above(m)
    BY <1>1, <1>3, <2>3 DEF PlaceOK, EdgeOK, Above, Relaxing
  <2>5. m.pc \in InAPhase \ {"voted"} /\ next_index' >= CurTail
    BY <1>3, <1>8, <2>1, <2>3 DEF InAPhase
  <2>6. my'[w] = m /\ Iter' = Iter
    BY <1>2, <1>3, <2>1, <2>2, <2>3, <2>5, Moves
  <2>7. CurTail' = CurTail
    BY <1>1, <2>6 DEF CurTail
  <2>8. next_index' \in Nat /\ next_index' >= next_index
    BY <1>3, <2>1
  <2>9. ASSUME NEW u \in Nodes, NEW v \in DOMAIN weight[u],
               Tense(u, v), Unclaimed(u) \/ Owes(w, u, v)
        PROVE  Unclaimed(u)' \/ Owes(w, u, v)'
    <3>1. CASE Unclaimed(u)
      BY <1>1, <2>1, <2>7, <3>1 DEF Unclaimed
    <3>2. CASE Owes(w, u, v)
      BY <1>1, <1>6, <2>3, <2>6, <3>2 DEF Owes, Relaxed, bin_of, args
    <3> QED
      BY <2>9, <3>1, <3>2
  <2>10. \A i \in m.i .. m.end - 1 : i \in my[w].i .. my[w].end - 1 \/ i \in next_index .. CurTail - 1
    BY <2>3
  <2> QED
    BY <1>1, <1>2, <1>3, <1>5, <2>1, <2>2, <2>3, <2>4, <2>5, <2>8, <2>9, <2>10, OwnMove
<1> QED
  BY <1>7, <1>8

LEMMA TakeVertexIInv ==
  ASSUME IInv, NEW w \in Workers, UNCHANGED args, TakeVertex(w)
  PROVE  IInv'
<1> DEFINE k == my[w].i
           r == IF dist[frontier[k]] >= delta * CurBin THEN Relaxes(w, frontier[k]) ELSE my[w]
           m == [r EXCEPT !.i = @ + 1]
<1>1. /\ my[w].pc = "frontier" /\ my[w].edge = "none" /\ my[w].todo = {} /\ my[w].i < my[w].end
      /\ UNCHANGED <<args, dist, frontier, shared_indexes, frontier_tails, single_taken>>
      /\ local_bins' = local_bins /\ next_index' = next_index
  BY DEF TakeVertex, At, Between, shared
<1>2. my[w].pc \in InAPhase
  BY <1>1 DEF InAPhase
<1>3. /\ Types /\ Together /\ my[w] \in WorkerType /\ local_bins[w] \in Seq(Seq(Nodes))
      /\ Len(local_bins[w]) <= kDistInf /\ RelaxPhase
      /\ PlaceOK(my[w]) /\ EdgeOK(my[w]) /\ Above(my[w])
      /\ next_index \in Nat /\ CurTail \in Nat /\ curr_bin_index(w) = CurBin
      /\ my[w].i .. my[w].end - 1 \subseteq DOMAIN frontier
  BY <1>2, InvFacts
<1>4. local_bins' = [local_bins EXCEPT ![w] = local_bins[w]]
  BY <1>1, <1>3, SameBins
<1>5. my' = [my EXCEPT ![w] = m]
  BY <1>3 DEF TakeVertex
<1>6. my[w].i \in Nat /\ my[w].end \in Nat
  BY <1>3 DEF WorkerType
<1>7. k \in my[w].i .. my[w].end - 1
  BY <1>1, <1>6
<1>8. frontier[k] \in Nodes
  BY <1>3, <1>7 DEF Types
<1> DEFINE u == frontier[k]
<1>9. DOMAIN weight[u] \subseteq Nodes
  BY <1>3, <1>8, WeightFacts
<1>10. r \in WorkerType
  BY <1>3, <1>8, <1>9 DEF Relaxes, WorkerType
<1>11. /\ r.iter = my[w].iter /\ r.i = k /\ r.end = my[w].end /\ r.batch = my[w].batch
       /\ r.edge = "none" /\ r.pc = "frontier"
       /\ \/ dist[u] >= delta * CurBin /\ r.u = u /\ r.todo = DOMAIN weight[u]
          \/ ~(dist[u] >= delta * CurBin) /\ r.todo = {}
  BY <1>1, <1>3 DEF Relaxes, WorkerType
<1> HIDE DEF r
<1>12. m \in WorkerType
  BY <1>6, <1>10, <1>11 DEF WorkerType
<1>13. /\ m.iter = my[w].iter /\ m.i = k + 1 /\ m.end = my[w].end /\ m.batch = my[w].batch
       /\ m.edge = "none" /\ m.pc = "frontier"
       /\ \/ dist[u] >= delta * CurBin /\ m.u = u /\ m.todo = DOMAIN weight[u]
          \/ ~(dist[u] >= delta * CurBin) /\ m.todo = {}
  BY <1>10, <1>11 DEF WorkerType
<1> HIDE DEF m
<1>14. PlaceOK(m)
  BY <1>1, <1>3, <1>6, <1>13 DEF PlaceOK
<1>15. EdgeOK(m)
  BY <1>13 DEF EdgeOK
<1>16. Above(m)
  BY <1>3, <1>13 DEF Above, Relaxing
<1>17. m.pc \in InAPhase \ {"voted"} /\ m.pc \notin {"fusion", "vote", "done"}
  BY <1>13 DEF InAPhase
<1>18. my'[w] = m /\ Iter' = Iter
  BY <1>2, <1>3, <1>5, <1>12, <1>13, <1>17, Moves
<1>19. CurTail' = CurTail
  BY <1>1, <1>18 DEF CurTail
<1>20. ASSUME NEW x \in Nodes, NEW v \in DOMAIN weight[x],
              Tense(x, v), Unclaimed(x) \/ Owes(w, x, v)
       PROVE  Unclaimed(x)' \/ Owes(w, x, v)'
  <2>1. CASE Unclaimed(x)
    BY <1>1, <1>19, <2>1 DEF Unclaimed
  <2>2. CASE x = u
    <3>1. dist[u] >= delta * CurBin
      BY <1>3, <1>8, <1>20, <2>2 DEF RelaxPhase, AllAbove
    <3>2. m.u = u /\ v \in m.todo
      BY <1>13, <1>20, <2>2, <3>1
    <3> QED
      BY <1>18, <2>2, <3>2 DEF Owes, Relaxed
  <2>3. CASE x # u /\ Owes(w, x, v)
    <3>1. ~Relaxed(w, x, v)
      BY <1>1 DEF Relaxed
    <3>2. CASE Contains(Bin(local_bins[w], bin_of(x)), x) \/ Contains(my[w].batch, x)
      BY <1>1, <1>13, <1>18, <3>2 DEF Owes, bin_of, args
    <3>3. CASE \E i \in (my[w].i .. my[w].end - 1) \cap DOMAIN frontier : frontier[i] = x
      <4>1. PICK i \in (my[w].i .. my[w].end - 1) \cap DOMAIN frontier : frontier[i] = x
        BY <3>3
      <4>2. i # k
        BY <2>3, <4>1
      <4>3. i \in k + 1 .. my[w].end - 1
        BY <1>6, <4>1, <4>2
      <4> QED
        BY <1>1, <1>13, <1>18, <4>1, <4>3 DEF Owes
    <3> QED
      BY <2>3, <3>1, <3>2, <3>3 DEF Owes
  <2> QED
    BY <1>20, <2>1, <2>2, <2>3
<1>21. next_index' \in Nat /\ next_index' >= next_index
  BY <1>1, <1>3
<1>22. \A i \in m.i .. m.end - 1 : i \in my[w].i .. my[w].end - 1 \/ i \in next_index .. CurTail - 1
  BY <1>6, <1>13
<1> QED
  BY <1>1, <1>2, <1>3, <1>4, <1>5, <1>12, <1>13, <1>14, <1>15, <1>16, <1>17, <1>20, <1>21, <1>22, OwnMove

(* A bin that is fused is emptied into the batch, and otherwise the thread   *)
(* goes on to vote.                                                          *)
LEMMA FuseIInv ==
  ASSUME IInv, NEW w \in Workers, UNCHANGED args, Fuse(w)
  PROVE  IInv'
<1>1. /\ my[w].pc = "fusion" /\ my[w].edge = "none" /\ my[w].todo = {} /\ my[w].batch = <<>>
      /\ UNCHANGED <<args, dist, frontier, shared_indexes, frontier_tails, single_taken>>
      /\ next_index' = next_index
  BY DEF Fuse, At, Between, shared
<1>2. my[w].pc \in InAPhase
  BY <1>1 DEF InAPhase
<1>3. /\ Types /\ Together /\ my[w] \in WorkerType /\ local_bins[w] \in Seq(Seq(Nodes))
      /\ Len(local_bins[w]) <= kDistInf /\ RelaxPhase /\ WorksAbove(w)
      /\ PlaceOK(my[w]) /\ EdgeOK(my[w]) /\ Above(my[w])
      /\ next_index \in Nat /\ CurBin \in Nat /\ CurTail \in Nat /\ curr_bin_index(w) = CurBin
  BY <1>2, InvFacts
<1>4. next_index >= CurTail
  BY <1>1, <1>3 DEF RelaxPhase
<1>5. next_index' \in Nat /\ next_index' >= next_index
  BY <1>1, <1>3
<1> DEFINE bin == Bin(local_bins[w], CurBin)
<1>6. CASE bin # <<>> /\ Len(bin) < kBinSizeThreshold
  <2> DEFINE m == [my[w] EXCEPT !.batch = bin]
             bins == WithBin(local_bins[w], CurBin, <<>>)
  <2>1. my' = [my EXCEPT ![w] = m] /\ local_bins' = [local_bins EXCEPT ![w] = bins]
    BY <1>3, <1>6 DEF Fuse
  <2>2. bin \in Seq(Nodes) /\ <<>> \in Seq(Nodes)
    BY <1>3, NthBin
  <2>3. /\ bins \in Seq(Seq(Nodes)) /\ Len(bins) <= Len(local_bins[w])
        /\ Bin(bins, CurBin) = <<>>
        /\ \A c \in Nat : c # CurBin => Bin(bins, c) = Bin(local_bins[w], c)
    BY <1>3, <1>6, EmptiedFacts
  <2> HIDE DEF bins, bin
  <2>4. Len(bins) <= kDistInf
    <3>1. Len(bins) \in Nat /\ Len(local_bins[w]) \in Nat
      BY <1>3, <2>3
    <3> QED
      BY <1>3, <2>3, <3>1, SSSPAssumption
  <2>7. m \in WorkerType
    BY <1>3, <2>2 DEF WorkerType
  <2>8. /\ m.iter = my[w].iter /\ m.i = my[w].i /\ m.end = my[w].end
        /\ m.batch = bin /\ m.edge = "none" /\ m.todo = {} /\ m.pc = "fusion"
    BY <1>1, <1>3 DEF WorkerType
  <2> HIDE DEF m
  <2>9. PlaceOK(m) /\ EdgeOK(m)
    BY <1>1, <1>3, <2>8 DEF PlaceOK, EdgeOK
  <2>10. Above(m)
    BY <1>3, <2>8 DEF Above, Relaxing, WorksAbove, bin
  <2>11. m.pc \in InAPhase \ {"voted"} /\ m.pc # "done"
    BY <2>8 DEF InAPhase
  <2>12. my'[w] = m /\ Iter' = Iter
    BY <1>2, <1>3, <2>1, <2>7, <2>8, <2>11, Moves
  <2>13. CurTail' = CurTail /\ local_bins'[w] = bins
    BY <1>1, <1>3, <2>1, <2>12 DEF CurTail, Types
  <2>14. ASSUME NEW u \in Nodes, NEW v \in DOMAIN weight[u],
                Tense(u, v), Unclaimed(u) \/ Owes(w, u, v)
         PROVE  Unclaimed(u)' \/ Owes(w, u, v)'
    <3>1. CASE Unclaimed(u)
      BY <1>1, <2>13, <3>1 DEF Unclaimed
    <3>2. ~Relaxed(w, u, v) /\ ~Contains(my[w].batch, u)
      BY <1>1, NothingIsEmpty DEF Relaxed
    <3>3. CASE \E i \in (my[w].i .. my[w].end - 1) \cap DOMAIN frontier : frontier[i] = u
      BY <1>1, <2>8, <2>12, <3>3 DEF Owes
    <3>4. CASE Contains(Bin(local_bins[w], bin_of(u)), u)
      <4>1. bin_of(u) \in Nat /\ bin_of(u)' = bin_of(u)
        <5>1. dist[u] \in Nat /\ delta \in Nat \ {0}
          BY <1>3 DEF Types
        <5> QED
          BY <1>1, <5>1, BinBounds DEF bin_of, args
      <4>2. CASE bin_of(u) = CurBin
        BY <2>8, <2>12, <3>4, <4>2 DEF Owes, bin
      <4>3. CASE bin_of(u) # CurBin
        BY <2>3, <2>13, <3>4, <4>1, <4>3 DEF Owes
      <4> QED
        BY <4>2, <4>3
    <3> QED
      BY <2>14, <3>1, <3>2, <3>3, <3>4 DEF Owes
  <2>15. \A u \in Nodes : Contains(Bin(bins, CurBin), u) => Contains(Bin(local_bins[w], CurBin), u)
    BY <2>3, NothingIsEmpty
  <2>16. \A i \in m.i .. m.end - 1 : i \in my[w].i .. my[w].end - 1 \/ i \in next_index .. CurTail - 1
    BY <2>8
  <2>17. next_index' >= CurTail
    BY <1>1, <1>4
  <2> QED
    BY <1>1, <1>2, <1>5, <2>1, <2>3, <2>4, <2>7, <2>8, <2>9, <2>10, <2>11, <2>14, <2>15,
       <2>16, <2>17, OwnMove
<1>7. CASE ~(bin # <<>> /\ Len(bin) < kBinSizeThreshold)
  <2> DEFINE m == [my[w] EXCEPT !.pc = "vote"]
  <2>1. my' = [my EXCEPT ![w] = m] /\ local_bins' = local_bins
    BY <1>3, <1>7 DEF Fuse, Goto
  <2> HIDE DEF bin
  <2>2. m \in WorkerType
    BY <1>3 DEF WorkerType, InAPhase
  <2>3. /\ m.iter = my[w].iter /\ m.i = my[w].i /\ m.end = my[w].end
        /\ m.batch = <<>> /\ m.edge = "none" /\ m.todo = {} /\ m.pc = "vote"
    BY <1>1, <1>3 DEF WorkerType
  <2> HIDE DEF m
  <2>4. PlaceOK(m) /\ EdgeOK(m) /\ Above(m)
    BY <1>1, <1>3, <2>3, NothingIsEmpty DEF PlaceOK, EdgeOK, Above, Relaxing
  <2>5. m.pc \in InAPhase \ {"voted"} /\ m.pc # "done"
    BY <2>3 DEF InAPhase
  <2>6. my'[w] = m /\ Iter' = Iter
    BY <1>2, <1>3, <2>1, <2>2, <2>3, <2>5, Moves
  <2>7. CurTail' = CurTail
    BY <1>1, <2>6 DEF CurTail
  <2>8. ASSUME NEW u \in Nodes, NEW v \in DOMAIN weight[u],
               Tense(u, v), Unclaimed(u) \/ Owes(w, u, v)
        PROVE  Unclaimed(u)' \/ Owes(w, u, v)'
    <3>1. CASE Unclaimed(u)
      BY <1>1, <2>7, <3>1 DEF Unclaimed
    <3>2. ~Relaxed(w, u, v)
      BY <1>1 DEF Relaxed
    <3>3. CASE Owes(w, u, v)
      BY <1>1, <2>1, <2>3, <2>6, <3>2, <3>3 DEF Owes, bin_of, args
    <3> QED
      BY <2>8, <3>1, <3>3
  <2>9. local_bins' = [local_bins EXCEPT ![w] = local_bins[w]]
    BY <1>3, <2>1, SameBins
  <2>10. \A i \in m.i .. m.end - 1 : i \in my[w].i .. my[w].end - 1 \/ i \in next_index .. CurTail - 1
    BY <2>3
  <2>11. next_index' >= CurTail
    BY <1>1, <1>4
  <2> QED
    BY <1>1, <1>2, <1>3, <1>5, <2>1, <2>2, <2>3, <2>4, <2>5, <2>8, <2>9, <2>10, <2>11, OwnMove
<1> QED
  BY <1>6, <1>7

LEMMA TakeFusedIInv ==
  ASSUME IInv, NEW w \in Workers, UNCHANGED args, TakeFused(w)
  PROVE  IInv'
<1> DEFINE u == Head(my[w].batch)
           r == Relaxes(w, u)
           m == [r EXCEPT !.batch = Tail(@)]
<1>1. /\ my[w].pc = "fusion" /\ my[w].edge = "none" /\ my[w].todo = {} /\ my[w].batch # <<>>
      /\ my' = [my EXCEPT ![w] = m]
      /\ UNCHANGED <<args, dist, frontier, shared_indexes, frontier_tails, single_taken>>
      /\ next_index' = next_index /\ local_bins' = local_bins
  BY DEF TakeFused, At, Between, shared
<1>2. my[w].pc \in InAPhase
  BY <1>1 DEF InAPhase
<1>3. /\ Types /\ Together /\ my[w] \in WorkerType /\ local_bins[w] \in Seq(Seq(Nodes))
      /\ Len(local_bins[w]) <= kDistInf /\ RelaxPhase
      /\ PlaceOK(my[w]) /\ EdgeOK(my[w]) /\ Above(my[w])
      /\ next_index \in Nat /\ CurTail \in Nat
  BY <1>2, InvFacts
<1>4. next_index >= CurTail
  BY <1>1, <1>3 DEF RelaxPhase
<1>5. next_index' \in Nat /\ next_index' >= next_index /\ next_index' >= CurTail
  BY <1>1, <1>3, <1>4
<1>6. local_bins' = [local_bins EXCEPT ![w] = local_bins[w]]
  BY <1>1, <1>3, SameBins
<1>7. my[w].batch \in Seq(Nodes)
  BY <1>3 DEF WorkerType
<1>8. /\ u \in Nodes /\ Tail(my[w].batch) \in Seq(Nodes) /\ Contains(my[w].batch, u)
      /\ \A y : Contains(my[w].batch, y) <=> y = u \/ Contains(Tail(my[w].batch), y)
  BY <1>1, <1>7, HeadAndTail
<1>9. DOMAIN weight[u] \subseteq Nodes
  BY <1>3, <1>8, WeightFacts
<1> HIDE DEF u
<1>10. r \in WorkerType
  BY <1>3, <1>8, <1>9 DEF Relaxes, WorkerType
<1>11. /\ r.iter = my[w].iter /\ r.i = my[w].i /\ r.end = my[w].end /\ r.batch = my[w].batch
       /\ r.edge = "none" /\ r.pc = "fusion" /\ r.u = u /\ r.todo = DOMAIN weight[u]
  BY <1>1, <1>3 DEF Relaxes, WorkerType
<1> HIDE DEF r
<1>12. m \in WorkerType
  BY <1>8, <1>10, <1>11 DEF WorkerType
<1>13. /\ m.iter = my[w].iter /\ m.i = my[w].i /\ m.end = my[w].end
       /\ m.batch = Tail(my[w].batch)
       /\ m.edge = "none" /\ m.pc = "fusion" /\ m.u = u /\ m.todo = DOMAIN weight[u]
  BY <1>10, <1>11 DEF WorkerType
<1> HIDE DEF m
<1>14. PlaceOK(m) /\ EdgeOK(m)
  BY <1>1, <1>3, <1>13 DEF PlaceOK, EdgeOK
<1>15. Above(m)
  BY <1>3, <1>8, <1>13 DEF Above
<1>16. m.pc \in InAPhase \ {"voted"} /\ m.pc # "done"
  BY <1>13 DEF InAPhase
<1>17. my'[w] = m /\ Iter' = Iter
  BY <1>1, <1>2, <1>3, <1>12, <1>13, <1>16, Moves
<1>18. CurTail' = CurTail
  BY <1>1, <1>17 DEF CurTail
<1>19. ASSUME NEW x \in Nodes, NEW v \in DOMAIN weight[x],
              Tense(x, v), Unclaimed(x) \/ Owes(w, x, v)
       PROVE  Unclaimed(x)' \/ Owes(w, x, v)'
  <2>1. CASE Unclaimed(x)
    BY <1>1, <1>18, <2>1 DEF Unclaimed
  <2>2. CASE x = u
    BY <1>13, <1>17, <1>19, <2>2 DEF Owes, Relaxed
  <2>3. CASE x # u /\ Owes(w, x, v)
    <3>1. ~Relaxed(w, x, v)
      BY <1>1 DEF Relaxed
    <3>2. Contains(my[w].batch, x) => Contains(m.batch, x)
      BY <1>8, <1>13, <2>3
    <3> QED
      BY <1>1, <1>13, <1>17, <2>3, <3>1, <3>2 DEF Owes, bin_of, args
  <2> QED
    BY <1>19, <2>1, <2>2, <2>3
<1>20. \A i \in m.i .. m.end - 1 : i \in my[w].i .. my[w].end - 1 \/ i \in next_index .. CurTail - 1
  BY <1>13
<1> QED
  BY <1>1, <1>2, <1>3, <1>5, <1>6, <1>12, <1>13, <1>14, <1>15, <1>16, <1>19, <1>20, OwnMove

--------------------------------------------------------------------------------
(* A family of subsets of a finite set has a smallest one; ...              *)
LEMMA SmallestSubset ==
  ASSUME NEW S, IsFiniteSet(S), NEW F, F \subseteq SUBSET S, F # {}
  PROVE  \E T \in F : \A U \in F : U \subseteq T => U = T
<1>1. F \subseteq FiniteSubsetsOf(S)
  BY FS_FiniteSubsetsOfFinite
<1>2. PICK T \in F : \A U \in F : <<U, T>> \notin StrictSubsetOrdering(S)
  BY <1>1, FS_StrictSubsetOrderingWellFounded, WFMin
<1>3. \A U \in F : U \subseteq T => U = T
  BY <1>2 DEF StrictSubsetOrdering
<1> QED
  BY <1>3

(* ... hence a non-empty set of numbers has a least one.                     *)
LEMMA SmallestNumber ==
  ASSUME NEW F, F \subseteq Nat, F # {}
  PROVE  \E m \in F : \A n \in F : m <= n
<1>1. PICK top \in F : TRUE
  OBVIOUS
<1> DEFINE S == 0 .. top
           G == {T \in SUBSET S : \E n \in F : T = 0 .. n}
<1>2. PICK T \in G : \A U \in G : U \subseteq T => U = T
  <2>1. S \in G /\ G \subseteq SUBSET S
    BY <1>1
  <2>2. IsFiniteSet(S)
    BY <1>1, FS_Interval
  <2> HIDE DEF G, S
  <2> QED
    BY <2>1, <2>2, SmallestSubset
<1>3. PICK m \in F : T = 0 .. m
  BY <1>2
<1>4. ASSUME NEW n \in F, n < m PROVE FALSE
  <2>1. 0 .. n \subseteq T /\ 0 .. n \in G /\ m \notin 0 .. n /\ m \in T
    BY <1>2, <1>3, <1>4
  <2> QED
    BY <1>2, <2>1
<1> QED
  BY <1>4

LEMMA LeastFacts ==
  ASSUME NEW S, S \subseteq Nat, S # {}
  PROVE  Least(S) \in S /\ Least(S) \in Nat /\ \A c \in S : Least(S) <= c
<1>1. \E b \in S : \A c \in S : b <= c
  BY SmallestNumber
<1>2. Least(S) \in S /\ \A c \in S : Least(S) <= c
  BY <1>1 DEF Least
<1> QED
  BY <1>2

LEMMA VoteIInv ==
  ASSUME IInv, NEW w \in Workers, UNCHANGED args, Vote(w)
  PROVE  IInv'
<1> DEFINE m == [my[w] EXCEPT !.pc = "voted"]
           b0 == Least({shared_indexes[1 - Iter]} \cup Candidates(w))
<1>1. /\ my[w].pc = "vote" /\ my' = [my EXCEPT ![w] = m]
      /\ UNCHANGED <<args, dist, frontier, frontier_tails, next_index, single_taken, local_bins>>
  BY DEF Vote, At, Goto
<1>2. my[w].pc \in InAPhase
  BY <1>1 DEF InAPhase
<1>3. /\ Types /\ Together /\ LocalsOK /\ RelaxPhase /\ ~Copying /\ BinsFit /\ SlotsWritten
      /\ NoTenseEdgeForgotten
      /\ my[w] \in WorkerType /\ local_bins[w] \in Seq(Seq(Nodes))
      /\ PlaceOK(my[w]) /\ EdgeOK(my[w]) /\ WorksAbove(w)
      /\ curr_bin_index(w) = CurBin /\ CurBin \in Nat /\ CurTail \in Nat /\ next_index \in Nat
  BY <1>2, InvFacts DEF IInv
<1>4. m \in WorkerType
  BY <1>3 DEF WorkerType, InAPhase
<1>5. /\ m.iter = my[w].iter /\ m.i = my[w].i /\ m.end = my[w].end
      /\ m.batch = my[w].batch /\ m.u = my[w].u /\ m.edge = my[w].edge /\ m.v = my[w].v
      /\ m.todo = my[w].todo /\ m.old_dist = my[w].old_dist /\ m.new_dist = my[w].new_dist
      /\ m.pc = "voted"
  BY <1>3 DEF WorkerType
<1> HIDE DEF m
<1>6. m.pc \in InAPhase
  BY <1>5 DEF InAPhase
<1>7. /\ my' \in [Workers -> WorkerType]
      /\ my'[w] = m /\ \A x \in Workers \ {w} : my'[x] = my[x]
      /\ Iter' = Iter /\ Copying' = Copying /\ Together'
  BY <1>1, <1>2, <1>3, <1>4, <1>5, <1>6, Moves
<1>8. Iter \in 0 .. 1 /\ 1 - Iter \in 0 .. 1 /\ 1 - Iter # Iter /\ next(w) = 1 - Iter /\ NextBin \in Nat
  BY <1>3, IterFacts, CommonView
<1>9. /\ Candidates(w) \subseteq Nat
      /\ \A b \in Nat : b >= CurBin /\ Bin(local_bins[w], b) # <<>> => b \in Candidates(w)
  <2>1. Candidates(w) = {b \in CurBin .. Len(local_bins[w]) - 1 : Bin(local_bins[w], b) # <<>>}
    BY <1>3 DEF Candidates
  <2>2. Len(local_bins[w]) \in Nat
    BY <1>3
  <2>3. \A b \in Nat : Bin(local_bins[w], b) # <<>> => b < Len(local_bins[w])
    BY DEF Bin
  <2> QED
    BY <1>3, <2>1, <2>2, <2>3
<1>10. shared_indexes' = [shared_indexes EXCEPT ![1 - Iter] = b0]
  BY <1>8 DEF Vote
<1>11. b0 \in Nat /\ b0 <= NextBin /\ \A b \in Candidates(w) : b0 <= b
  <2> DEFINE S == {NextBin} \cup Candidates(w)
  <2>1. S \subseteq Nat /\ S # {}
    BY <1>8, <1>9
  <2>2. b0 = Least(S)
    BY DEF NextBin
  <2>3. Least(S) \in S /\ \A c \in S : Least(S) <= c
    BY <2>1, LeastFacts
  <2> HIDE DEF b0
  <2> QED
    BY <2>1, <2>2, <2>3
<1> HIDE DEF b0
<1>12. /\ shared_indexes' \in [0 .. 1 -> Nat] /\ CurBin' = CurBin /\ NextBin' = b0
       /\ CurTail' = CurTail /\ NextTail' = NextTail
  BY <1>1, <1>3, <1>7, <1>8, <1>10, <1>11 DEF Types, CurBin, NextBin, CurTail, NextTail
<1>13. /\ weight' = weight /\ delta' = delta /\ source' = source /\ dist' = dist
       /\ local_bins' = local_bins /\ frontier' = frontier /\ next_index' = next_index
       /\ single_taken' = single_taken /\ frontier_tails' = frontier_tails
  BY <1>1 DEF args
<1>14. Types'
  BY <1>3, <1>7, <1>12, <1>13 DEF Types
<1>15. BinsFit'
  BY <1>3, <1>13 DEF BinsFit
<1>16. LocalsOK'
  <2> SUFFICES ASSUME NEW x \in Workers PROVE PlaceOK(my'[x]) /\ EdgeOK(my[x])'
    BY DEF LocalsOK
  <2>1. PlaceOK(my[x]) /\ EdgeOK(my[x])
    BY <1>3 DEF LocalsOK
  <2>2. CASE x = w
    <3>1. PlaceOK(m)
      BY <1>1, <1>3, <1>5 DEF PlaceOK, Relaxing
    <3>2. EdgeOK(my[w])'
      BY <1>3, <1>5, <1>7, <1>13 DEF EdgeOK
    <3> QED
      BY <1>7, <2>2, <3>1, <3>2
  <2>3. CASE x # w
    BY <1>7, <1>13, <2>1, <2>3 DEF EdgeOK
  <2> QED
    BY <2>2, <2>3
<1>17. \A x \in Workers : /\ my'[x].batch = my[x].batch /\ my'[x].edge = my[x].edge
                          /\ my'[x].todo = my[x].todo /\ my'[x].u = my[x].u /\ my'[x].v = my[x].v
                          /\ my'[x].new_dist = my[x].new_dist
                          /\ my'[x].i = my[x].i /\ my'[x].end = my[x].end
  BY <1>5, <1>7
<1>18. RelaxPhase'
  <2>1. AllAbove'
    BY <1>3, <1>12, <1>13 DEF RelaxPhase, AllAbove, Tense
  <2>2. ASSUME NEW x \in Workers PROVE WorksAbove(x)'
    <3>1. WorksAbove(x)
      BY <1>3 DEF RelaxPhase
    <3> QED
      BY <1>12, <1>13, <1>17, <3>1 DEF WorksAbove, Relaxing
  <2>3. (NextTail = 0)'
    BY <1>3, <1>12 DEF RelaxPhase
  <2>4. ASSUME NEW x \in Workers, my'[x].pc \in {"fusion", "vote", "voted"} PROVE next_index >= CurTail
    <3>1. my[x].pc \in {"fusion", "vote", "voted"}
      BY <1>1, <1>7, <2>4
    <3> QED
      BY <1>3, <3>1 DEF RelaxPhase
  <2>5. ASSUME NEW x \in Workers, my'[x].pc = "voted",
               NEW b \in Nat, b >= CurBin, Bin(local_bins[x], b) # <<>>
        PROVE  b0 <= b
    <3>1. CASE x = w
      BY <1>9, <1>11, <2>5, <3>1
    <3>2. CASE x # w
      <4>1. NextBin <= b
        BY <1>3, <1>7, <2>5, <3>2 DEF RelaxPhase
      <4> QED
        BY <1>8, <1>11, <4>1
    <3> QED
      BY <3>1, <3>2
  <2>6. ASSUME NEW x \in Workers, my'[x].pc = "done" PROVE CurBin = kMaxBin
    BY <1>3, <1>5, <1>7, <2>6 DEF RelaxPhase
  <2> QED
    BY <1>12, <1>13, <2>1, <2>2, <2>3, <2>4, <2>5, <2>6 DEF RelaxPhase
<1>19. SlotsWritten'
  <2>1. \A x \in Workers : my[x].pc # "undefined"
    BY <1>3, Phases DEF InAPhase
  <2>2. Slots \subseteq DOMAIN frontier
    BY <1>3, <2>1 DEF SlotsWritten
  <2>3. (Types /\ Together /\ ~Copying => Slots = ToTake)'
    BY SlotsToTake, PTL
  <2>4. ToTake' = ToTake
    BY <1>12, <1>13, <1>17 DEF ToTake
  <2>5. Slots' = Slots
    BY <1>3, <1>7, <1>14, <2>3, <2>4, SlotsToTake
  <2> QED
    BY <1>13, <2>2, <2>5 DEF SlotsWritten
<1>20. NoTenseEdgeForgotten'
  <2>1. EdgesOwed
    BY <1>3, OwedIsNotForgotten
  <2>2. EdgesOwed'
    <3> SUFFICES ASSUME NEW a \in Nodes, NEW b \in DOMAIN weight[a], Tense(a, b)'
                 PROVE  Unclaimed(a)' \/ \E x \in Workers : Owes(x, a, b)'
      BY <1>13 DEF EdgesOwed
    <3>1. Tense(a, b)
      BY <1>13 DEF Tense
    <3>2. PICK x \in Workers : Unclaimed(a) \/ Owes(x, a, b)
      BY <2>1, <3>1 DEF EdgesOwed
    <3>3. CASE Unclaimed(a)
      BY <1>12, <1>13, <3>3 DEF Unclaimed
    <3>4. CASE Owes(x, a, b)
      BY <1>13, <1>17, <3>4 DEF Owes, Relaxed, bin_of
    <3> QED
      BY <3>2, <3>3, <3>4
  <2>3. (Types /\ Together /\ ~Copying => (NoTenseEdgeForgotten <=> EdgesOwed))'
    BY OwedIsNotForgotten, PTL
  <2> QED
    BY <1>3, <1>7, <1>14, <2>2, <2>3
<1> QED
  BY <1>3, <1>7, <1>14, <1>15, <1>16, <1>18, <1>19, <1>20 DEF IInv

--------------------------------------------------------------------------------
(* At the first barrier whatever is tense waits in a local bin that its      *)
(* owner has voted for, or in a higher one.                                  *)
LEMMA FirstBarrierIInv ==
  ASSUME IInv, FirstBarrier
  PROVE  IInv'
<1>1. /\ \A w \in Workers : my[w].pc = "voted"
      /\ my' = [w \in Workers |-> [my[w] EXCEPT !.pc = "single"]]
      /\ next_index' = 0 /\ single_taken' = FALSE
      /\ weight' = weight /\ source' = source /\ delta' = delta /\ dist' = dist
      /\ frontier' = frontier /\ shared_indexes' = shared_indexes
      /\ frontier_tails' = frontier_tails /\ local_bins' = local_bins
  BY DEF FirstBarrier, AllAt, At, args
<1>2. PICK z \in Workers : TRUE
  BY SSSPAssumption
<1>3. /\ Types /\ Together /\ LocalsOK /\ RelaxPhase /\ ~Copying /\ BinsFit /\ SlotsWritten
      /\ NoTenseEdgeForgotten /\ my \in [Workers -> WorkerType]
      /\ CurBin \in Nat /\ CurTail \in Nat /\ next_index \in Nat
  <2>1. my[z].pc \in InAPhase
    BY <1>1 DEF InAPhase
  <2> QED
    BY <2>1, InvFacts DEF IInv, Types
<1>4. Iter \in 0 .. 1 /\ NextBin \in Nat /\ NextTail \in Nat /\ (CHOOSE w \in Workers : TRUE) \in Workers
  BY <1>3, IterFacts
<1>5. ASSUME NEW w \in Workers
      PROVE  /\ my'[w] \in WorkerType /\ my'[w].pc = "single"
             /\ my'[w].iter = my[w].iter /\ my'[w].i = my[w].i /\ my'[w].end = my[w].end
             /\ my'[w].batch = my[w].batch /\ my'[w].u = my[w].u /\ my'[w].edge = my[w].edge
             /\ my'[w].v = my[w].v /\ my'[w].todo = my[w].todo
             /\ my'[w].old_dist = my[w].old_dist /\ my'[w].new_dist = my[w].new_dist
  <2>1. my[w] \in WorkerType /\ my'[w] = [my[w] EXCEPT !.pc = "single"]
    BY <1>1, <1>3
  <2> QED
    BY <2>1 DEF WorkerType, InBPhase
<1>6. my' \in [Workers -> WorkerType]
  <2>1. my' = [w \in Workers |-> my'[w]]
    BY <1>1
  <2> QED
    BY <1>5, <2>1
<1>7. Iter' = Iter /\ Copying'
  BY <1>2, <1>4, <1>5 DEF Iter, Copying
<1>8. CurBin' = CurBin /\ NextBin' = NextBin /\ CurTail' = CurTail /\ NextTail' = NextTail
  BY <1>1, <1>7 DEF CurBin, NextBin, CurTail, NextTail
<1>9. Together'
  <2>1. \A w \in Workers : my'[w].iter = Iter'
    BY <1>3, <1>5, <1>7 DEF Together
  <2>2. \A w \in Workers : my'[w].pc \in InBPhase
    BY <1>5 DEF InBPhase
  <2> QED
    BY <2>1, <2>2 DEF Together
<1>10. Types'
  BY <1>1, <1>3, <1>6 DEF Types
<1>11. BinsFit'
  BY <1>1, <1>3 DEF BinsFit
<1>12. ASSUME NEW w \in Workers
       PROVE  /\ PlaceOK(my[w]) /\ EdgeOK(my[w]) /\ my[w].i = 0 /\ my[w].end = 0
              /\ my[w].batch = <<>> /\ my[w].edge = "none" /\ my[w].todo = {}
  BY <1>1, <1>3 DEF LocalsOK, PlaceOK, Relaxing
<1>13. LocalsOK'
  <2> SUFFICES ASSUME NEW w \in Workers PROVE PlaceOK(my'[w]) /\ EdgeOK(my[w])'
    BY DEF LocalsOK
  <2>1. PlaceOK(my'[w])
    BY <1>5, <1>12 DEF PlaceOK, Relaxing
  <2>2. EdgeOK(my[w])'
    BY <1>1, <1>5, <1>12 DEF EdgeOK
  <2> QED
    BY <2>1, <2>2
<1>14. ASSUME NEW u \in Nodes, NEW v \in DOMAIN weight[u], Tense(u, v)
       PROVE  /\ dist[u] >= delta * NextBin
              /\ \E w \in Workers : Contains(Bin(local_bins[w], bin_of(u)), u)
  <2>1. EdgesOwed
    BY <1>3, OwedIsNotForgotten
  <2>2. PICK w \in Workers : Unclaimed(u) \/ Owes(w, u, v)
    BY <1>2, <1>14, <2>1 DEF EdgesOwed
  <2>3. ~Unclaimed(u)
    <3>1. next_index >= CurTail
      BY <1>1, <1>2, <1>3 DEF RelaxPhase
    <3>2. next_index .. CurTail - 1 = {}
      BY <1>3, <3>1
    <3> QED
      BY <3>2 DEF Unclaimed
  <2>4. /\ ~Contains(my[w].batch, u) /\ ~Relaxed(w, u, v)
        /\ my[w].i .. my[w].end - 1 = {}
    BY <1>12, NothingIsEmpty DEF Relaxed
  <2>5. Contains(Bin(local_bins[w], bin_of(u)), u)
    BY <2>2, <2>3, <2>4 DEF Owes
  <2>6. dist[u] \in Nat /\ delta \in Nat \ {0} /\ local_bins[w] \in Seq(Seq(Nodes))
    BY <1>3 DEF Types
  <2>7. dist[u] >= delta * CurBin
    BY <1>3, <1>14 DEF RelaxPhase, AllAbove
  <2>8. bin_of(u) \in Nat /\ bin_of(u) >= CurBin
    BY <1>3, <2>6, <2>7, BinBounds DEF bin_of
  <2>9. Bin(local_bins[w], bin_of(u)) # <<>>
    BY <2>5, NothingIsEmpty
  <2>10. NextBin <= bin_of(u)
    BY <1>1, <1>3, <2>8, <2>9 DEF RelaxPhase
  <2>11. dist[u] >= delta * NextBin
    BY <1>4, <2>6, <2>10, BinBounds DEF bin_of
  <2> QED
    BY <2>5, <2>11
<1>15. CopyPhase'
  <2>1. ASSUME NEW u \in Nodes, NEW v \in DOMAIN weight[u], Tense(u, v)'
        PROVE  dist[u] >= delta * NextBin
    BY <1>1, <1>14, <2>1 DEF Tense
  <2> QED
    BY <1>1, <1>5, <1>8, <2>1 DEF CopyPhase
<1>16. Slots' = {}
  <2>1. (Types /\ Together /\ LocalsOK /\ Copying /\ next_index = 0 => Slots = Filled)'
    BY SlotsFilled, PTL
  <2>2. 0 .. NextTail' - 1 = {}
    BY <1>3, <1>8 DEF RelaxPhase
  <2>3. Filled' = {}
    BY <2>2 DEF Filled
  <2> QED
    BY <1>1, <1>7, <1>9, <1>10, <1>13, <2>1, <2>3
<1>17. SlotsWritten'
  BY <1>16 DEF SlotsWritten
<1>18. NoTenseEdgeForgotten'
  <2> SUFFICES ASSUME NEW u \in Nodes, NEW v \in DOMAIN weight[u], Tense(u, v)'
               PROVE  Waits(u)'
    BY <1>1 DEF NoTenseEdgeForgotten
  <2>1. Tense(u, v)
    BY <1>1 DEF Tense
  <2>2. PICK w \in Workers : Contains(Bin(local_bins[w], bin_of(u)), u)
    BY <1>14, <2>1
  <2> QED
    BY <1>1, <2>2 DEF Waits, bin_of
<1> QED
  BY <1>7, <1>9, <1>10, <1>11, <1>13, <1>15, <1>17, <1>18 DEF IInv

LEMMA SecondBarrierIInv ==
  ASSUME IInv, SecondBarrier
  PROVE  IInv'
<1>1. /\ \A w \in Workers : my[w].pc = "copied"
      /\ my' = [w \in Workers |-> [my[w] EXCEPT !.pc = "while", !.iter = next(w)]]
      /\ weight' = weight /\ source' = source /\ delta' = delta /\ dist' = dist
      /\ frontier' = frontier /\ shared_indexes' = shared_indexes
      /\ frontier_tails' = frontier_tails /\ local_bins' = local_bins
      /\ next_index' = next_index /\ single_taken' = single_taken
  BY DEF SecondBarrier, AllAt, At, args, shared
<1>2. PICK z \in Workers : TRUE
  BY SSSPAssumption
<1>3. /\ Types /\ Together /\ LocalsOK /\ BinsFit /\ SlotsWritten /\ NoTenseEdgeForgotten
      /\ Copying /\ CopyPhase /\ my \in [Workers -> WorkerType]
  <2>1. my[z].pc \in InBPhase
    BY <1>1 DEF InBPhase
  <2> QED
    BY <2>1, Phases DEF IInv, Types
<1>4. /\ Iter \in 0 .. 1 /\ 1 - Iter \in 0 .. 1 /\ 1 - Iter # Iter /\ 1 - (1 - Iter) = Iter
      /\ CurBin \in Nat /\ NextBin \in Nat /\ CurTail \in Nat /\ NextTail \in Nat
      /\ (CHOOSE w \in Workers : TRUE) \in Workers
  BY <1>3, IterFacts
<1>5. ASSUME NEW w \in Workers
      PROVE  /\ my'[w] \in WorkerType /\ my'[w].pc = "while"
             /\ my'[w].iter = 1 - Iter /\ my'[w].i = my[w].i /\ my'[w].end = my[w].end
             /\ my'[w].batch = my[w].batch /\ my'[w].u = my[w].u /\ my'[w].edge = my[w].edge
             /\ my'[w].v = my[w].v /\ my'[w].todo = my[w].todo
             /\ my'[w].old_dist = my[w].old_dist /\ my'[w].new_dist = my[w].new_dist
  <2>1. my[w] \in WorkerType /\ my'[w] = [my[w] EXCEPT !.pc = "while", !.iter = 1 - Iter]
    BY <1>1, <1>3, CommonView
  <2> QED
    BY <1>4, <2>1 DEF WorkerType, InAPhase
<1>6. my' \in [Workers -> WorkerType]
  <2>1. my' = [w \in Workers |-> my'[w]]
    BY <1>1
  <2> QED
    BY <1>5, <2>1
<1>7. Iter' = 1 - Iter
  BY <1>4, <1>5 DEF Iter
<1>8. ~Copying'
  BY <1>5 DEF Copying
<1>9. CurBin' = NextBin /\ NextBin' = CurBin /\ CurTail' = NextTail /\ NextTail' = CurTail
  BY <1>1, <1>4, <1>7 DEF CurBin, NextBin, CurTail, NextTail
<1>10. Together'
  BY <1>5, <1>7, <1>8 DEF Together
<1>11. Types'
  BY <1>1, <1>3, <1>6 DEF Types
<1>12. BinsFit'
  BY <1>1, <1>3 DEF BinsFit
<1>13. ASSUME NEW w \in Workers
       PROVE  /\ PlaceOK(my[w]) /\ EdgeOK(my[w]) /\ my[w].i = 0 /\ my[w].end = 0
              /\ my[w].batch = <<>> /\ my[w].edge = "none" /\ my[w].todo = {}
  BY <1>1, <1>3 DEF LocalsOK, PlaceOK, Relaxing
<1>14. LocalsOK'
  <2> SUFFICES ASSUME NEW w \in Workers PROVE PlaceOK(my'[w]) /\ EdgeOK(my[w])'
    BY DEF LocalsOK
  <2>1. PlaceOK(my'[w])
    BY <1>5, <1>13 DEF PlaceOK, Relaxing
  <2>2. EdgeOK(my[w])'
    <3>1. my'[w].edge = "none" /\ my'[w].todo = {}
      BY <1>5, <1>13
    <3> QED
      BY <3>1 DEF EdgeOK
  <2> QED
    BY <2>1, <2>2
<1>15. single_taken /\ CurTail = 0
  BY <1>1, <1>2, <1>3 DEF CopyPhase
<1>16. RelaxPhase'
  <2>1. AllAbove'
    BY <1>1, <1>3, <1>9 DEF CopyPhase, AllAbove, Tense
  <2>2. ASSUME NEW w \in Workers PROVE WorksAbove(w)'
    <3>1. Bin(local_bins[w], NextBin) = <<>>
      BY <1>1, <1>3 DEF CopyPhase
    <3>2. Bin(local_bins'[w], CurBin') = <<>>
      BY <1>1, <1>9, <3>1
    <3>3. my'[w].edge = "none" /\ my'[w].todo = {} /\ my'[w].batch = <<>>
      BY <1>5, <1>13
    <3> QED
      BY <3>2, <3>3, NothingIsEmpty DEF WorksAbove, Relaxing
  <2> QED
    BY <1>5, <1>9, <1>15, <2>1, <2>2 DEF RelaxPhase
<1>17. Slots' = Slots
  <2>1. (Types /\ Together /\ ~Copying => Slots = ToTake)'
    BY SlotsToTake, PTL
  <2>2. Slots = Filled
    BY <1>3, SlotsFilled DEF CopyPhase
  <2>3. Filled = 0 .. NextTail - 1
    BY <1>1 DEF Filled
  <2>4. ToTake' = 0 .. NextTail - 1
    <3> DEFINE P == UNION {my'[x].i .. my'[x].end - 1 : x \in Workers}
    <3>1. P = {}
      BY <1>5, <1>13
    <3>2. next_index' = 0
      BY <1>1, <1>3 DEF CopyPhase
    <3>3. ToTake' = P \cup (next_index' .. CurTail' - 1)
      BY DEF ToTake
    <3> HIDE DEF P
    <3> QED
      BY <1>9, <3>1, <3>2, <3>3
  <2> QED
    BY <1>8, <1>10, <1>11, <2>1, <2>2, <2>3, <2>4
<1>18. SlotsWritten'
  <2>1. Slots \subseteq DOMAIN frontier
    BY <1>1, <1>3 DEF SlotsWritten
  <2> QED
    BY <1>1, <1>17, <2>1 DEF SlotsWritten
<1>19. NoTenseEdgeForgotten'
  <2> SUFFICES ASSUME NEW u \in Nodes, NEW v \in DOMAIN weight[u], Tense(u, v)'
               PROVE  Waits(u)'
    BY <1>1 DEF NoTenseEdgeForgotten
  <2>1. Tense(u, v)
    BY <1>1 DEF Tense
  <2>2. Waits(u)
    <3>1. \A w \in Workers : ~Relaxed(w, u, v)
      BY <1>13 DEF Relaxed
    <3> QED
      BY <1>3, <2>1, <3>1 DEF NoTenseEdgeForgotten
  <2> QED
    BY <1>1, <1>5, <1>17, <2>2 DEF Waits, bin_of
<1> QED
  BY <1>8, <1>10, <1>11, <1>12, <1>14, <1>16, <1>18, <1>19 DEF IInv

--------------------------------------------------------------------------------
(* The second phase.                                                         *)
LEMMA CopyFacts ==
  ASSUME IInv, NEW w \in Workers, my[w].pc \in InBPhase
  PROVE  /\ Types /\ Together /\ LocalsOK /\ BinsFit /\ Copying /\ CopyPhase /\ SlotsWritten
         /\ NoTenseEdgeForgotten /\ my[w] \in WorkerType /\ my \in [Workers -> WorkerType]
         /\ local_bins[w] \in Seq(Seq(Nodes)) /\ Len(local_bins[w]) <= kDistInf
         /\ curr(w) = Iter /\ next(w) = 1 - Iter /\ next_bin_index(w) = NextBin
         /\ Iter \in 0 .. 1 /\ 1 - Iter \in 0 .. 1 /\ 1 - Iter # Iter
         /\ CurBin \in Nat /\ NextBin \in Nat /\ NextTail \in Nat /\ next_index = 0
         /\ Slots = Filled
<1>1. Types /\ Together /\ LocalsOK /\ BinsFit /\ SlotsWritten /\ NoTenseEdgeForgotten
  BY DEF IInv
<1>2. Copying /\ CopyPhase
  BY <1>1, Phases DEF IInv
<1>3. next_index = 0
  BY <1>2 DEF CopyPhase
<1>4. /\ my[w] \in WorkerType /\ my \in [Workers -> WorkerType]
      /\ local_bins[w] \in Seq(Seq(Nodes)) /\ Len(local_bins[w]) <= kDistInf
  BY <1>1 DEF Types, BinsFit
<1>5. Slots = Filled
  BY <1>1, <1>2, <1>3, SlotsFilled
<1> QED
  BY <1>1, <1>2, <1>3, <1>4, <1>5, CommonView, IterFacts

(* What a thread moves in the second phase is a place and where to copy.     *)
LEMMA CopierMoves ==
  ASSUME IInv, NEW w \in Workers, my[w].pc \in InBPhase,
         NEW p \in InBPhase, NEW c \in Nat,
         my' = [my EXCEPT ![w] = [my[w] EXCEPT !.pc = p, !.copy_start = c]],
         UNCHANGED <<args, dist, next_index>>
  PROVE  /\ my' \in [Workers -> WorkerType] /\ \A x \in Workers \ {w} : my'[x] = my[x]
         /\ my'[w].pc = p /\ my'[w].copy_start = c
         /\ Iter' = Iter /\ Copying' /\ Together' /\ LocalsOK'
         /\ \A x \in Workers : my'[x].i .. my'[x].end - 1 = {} /\ my'[x].batch = <<>>
                                 /\ my'[x].edge = "none" /\ my'[x].todo = {}
<1> DEFINE m == [my[w] EXCEPT !.pc = p, !.copy_start = c]
<1>1. Types /\ Together /\ LocalsOK /\ Copying /\ my[w] \in WorkerType
  BY CopyFacts
<1>2. m \in WorkerType
  BY <1>1 DEF WorkerType
<1>3. /\ m.pc = p /\ m.copy_start = c /\ m.iter = my[w].iter /\ m.i = my[w].i /\ m.end = my[w].end
      /\ m.batch = my[w].batch /\ m.edge = my[w].edge /\ m.todo = my[w].todo
  BY <1>1 DEF WorkerType
<1>4. my' = [my EXCEPT ![w] = m]
  OBVIOUS
<1> HIDE DEF m
<1>5. my[w].pc \notin InAPhase /\ m.pc \notin InAPhase
  BY <1>3 DEF InAPhase, InBPhase
<1>6. /\ my' \in [Workers -> WorkerType]
      /\ my'[w] = m /\ \A x \in Workers \ {w} : my'[x] = my[x]
      /\ Iter' = Iter /\ Copying' = Copying /\ Together'
  BY <1>1, <1>2, <1>3, <1>4, <1>5, Moves
<1>7. ASSUME NEW x \in Workers
      PROVE  /\ my'[x].i = 0 /\ my'[x].end = 0 /\ my'[x].batch = <<>>
             /\ my'[x].edge = "none" /\ my'[x].todo = {}
  <2>1. my[x].pc \in InBPhase
    BY <1>1, Phases
  <2>2. /\ my[x].i = 0 /\ my[x].end = 0 /\ my[x].batch = <<>>
        /\ my[x].edge = "none" /\ my[x].todo = {}
    BY <1>1, <2>1 DEF LocalsOK, PlaceOK, Relaxing, InBPhase
  <2> QED
    BY <1>3, <1>6, <2>2
<1>8. LocalsOK'
  <2> SUFFICES ASSUME NEW x \in Workers PROVE PlaceOK(my'[x]) /\ EdgeOK(my[x])'
    BY DEF LocalsOK
  <2>1. PlaceOK(my'[x])
    BY <1>7 DEF PlaceOK, Relaxing
  <2>2. EdgeOK(my[x])'
    BY <1>7 DEF EdgeOK
  <2> QED
    BY <2>1, <2>2
<1>9. \A x \in Workers : my'[x].i .. my'[x].end - 1 = {}
  BY <1>7
<1> QED
  BY <1>1, <1>3, <1>6, <1>7, <1>8, <1>9

(* Nothing tense is forgotten as long as it is in a bin or in a slot.        *)
LEMMA WaitingStays ==
  ASSUME IInv, NEW w \in Workers, my[w].pc \in InBPhase, UNCHANGED <<args, dist>>,
         \A u \in Nodes :
           \/ \E x \in Workers : Contains(Bin(local_bins[x], bin_of(u)), u)
           \/ \E i \in Slots \cap DOMAIN frontier : frontier[i] = u
           => \/ \E x \in Workers : Contains(Bin(local_bins'[x], bin_of(u)), u)
              \/ \E i \in Slots' \cap DOMAIN frontier' : frontier'[i] = u
  PROVE  NoTenseEdgeForgotten'
<1> SUFFICES ASSUME NEW u \in Nodes, NEW v \in DOMAIN weight'[u], Tense(u, v)'
             PROVE  Waits(u)'
  BY DEF NoTenseEdgeForgotten
<1>1. weight' = weight /\ dist' = dist /\ delta' = delta
  BY DEF args
<1>2. v \in DOMAIN weight[u] /\ Tense(u, v)
  BY <1>1 DEF Tense
<1>3. Types /\ Together /\ LocalsOK /\ Copying /\ NoTenseEdgeForgotten
  BY CopyFacts
<1>4. ASSUME NEW x \in Workers PROVE ~Relaxed(x, u, v) /\ ~Contains(my[x].batch, u)
  <2>1. my[x].pc \in InBPhase
    BY <1>3, Phases
  <2>2. my[x].batch = <<>> /\ my[x].edge = "none" /\ my[x].todo = {}
    BY <1>3, <2>1 DEF LocalsOK, PlaceOK, Relaxing, InBPhase
  <2> QED
    BY <2>2, NothingIsEmpty DEF Relaxed
<1>5. Waits(u)
  BY <1>2, <1>3, <1>4 DEF NoTenseEdgeForgotten
<1>6. bin_of(u)' = bin_of(u)
  BY <1>1 DEF bin_of
<1> QED
  BY <1>4, <1>5, <1>6 DEF Waits

(* The single resets the half that is used up, and leaves the next one.      *)
LEMMA SingleIInv ==
  ASSUME IInv, NEW w \in Workers, UNCHANGED args, Single(w)
  PROVE  IInv'
<1>1. /\ my[w].pc = "single" /\ my' = [my EXCEPT ![w].pc = "reserve"]
      /\ weight' = weight /\ source' = source /\ delta' = delta /\ dist' = dist
      /\ frontier' = frontier /\ next_index' = next_index /\ local_bins' = local_bins
      /\ single_taken'
  BY DEF Single, At, Goto, args
<1>2. my[w].pc \in InBPhase /\ "reserve" \in InBPhase
  BY <1>1 DEF InBPhase
<1>3. /\ Types /\ Together /\ LocalsOK /\ BinsFit /\ Copying /\ CopyPhase /\ SlotsWritten
      /\ my[w] \in WorkerType /\ my \in [Workers -> WorkerType]
      /\ curr(w) = Iter /\ Iter \in 0 .. 1 /\ 1 - Iter \in 0 .. 1 /\ 1 - Iter # Iter
      /\ NextTail \in Nat /\ next_index = 0 /\ Slots = Filled
  BY <1>2, CopyFacts
<1>4. PICK c \in Nat : c = my[w].copy_start
  BY <1>3 DEF WorkerType
<1>5. /\ my' = [my EXCEPT ![w] = [my[w] EXCEPT !.pc = "reserve", !.copy_start = c]]
      /\ UNCHANGED <<args, dist, next_index>>
  BY <1>1, <1>3, <1>4 DEF WorkerType, args
<1>6. /\ my' \in [Workers -> WorkerType] /\ \A x \in Workers \ {w} : my'[x] = my[x]
      /\ my'[w].pc = "reserve"
      /\ Iter' = Iter /\ Copying' /\ Together' /\ LocalsOK'
  BY <1>2, <1>5, CopierMoves
<1>7. /\ shared_indexes' \in [0 .. 1 -> Nat] /\ frontier_tails' \in [0 .. 1 -> Nat]
      /\ NextBin' = NextBin /\ NextTail' = NextTail
      /\ CurBin' = kMaxBin /\ CurTail' = 0
  <2>1. CASE single_taken
    <3>1. shared_indexes' = shared_indexes /\ frontier_tails' = frontier_tails
      BY <2>1 DEF Single
    <3>2. CurBin = kMaxBin /\ CurTail = 0
      BY <1>3, <2>1 DEF CopyPhase
    <3> QED
      BY <1>3, <1>6, <3>1, <3>2 DEF Types, CurBin, NextBin, CurTail, NextTail
  <2>2. CASE ~single_taken
    <3>1. /\ shared_indexes' = [shared_indexes EXCEPT ![Iter] = kMaxBin]
          /\ frontier_tails' = [frontier_tails EXCEPT ![Iter] = 0]
      BY <1>3, <2>2 DEF Single
    <3> QED
      BY <1>3, <1>6, <3>1, SSSPAssumption DEF Types, CurBin, NextBin, CurTail, NextTail
  <2> QED
    BY <2>1, <2>2
<1>8. single_taken' \in BOOLEAN
  <2>1. single_taken' = single_taken \/ single_taken' = TRUE
    BY DEF Single
  <2> QED
    BY <1>3, <2>1 DEF Types
<1>9. Types'
  BY <1>1, <1>3, <1>6, <1>7, <1>8 DEF Types
<1>10. BinsFit'
  BY <1>1, <1>3 DEF BinsFit
<1>11. \A x \in Workers : my[x].pc = "copy" <=> my'[x].pc = "copy"
  BY <1>1, <1>6
<1>12. \A x \in Workers : my[x].pc = "copy" => CopyRange(x)' = CopyRange(x)
  BY <1>1, <1>6, <1>7 DEF CopyRange
<1>13. CopyPhase'
  <2>1. \A u \in Nodes : \A v \in DOMAIN weight'[u] : Tense(u, v)' => dist'[u] >= delta' * NextBin'
    BY <1>1, <1>3, <1>7 DEF CopyPhase, Tense
  <2>2. next_index' = 0
    BY <1>1, <1>3
  <2>3. \A x \in Workers : my'[x].pc = "copy" => \A i \in CopyRange(x)' : i < NextTail'
    BY <1>3, <1>7, <1>11, <1>12 DEF CopyPhase
  <2>4. \A x, y \in Workers : x # y /\ my'[x].pc = "copy" /\ my'[y].pc = "copy"
          => CopyRange(x)' \cap CopyRange(y)' = {}
    BY <1>3, <1>11, <1>12 DEF CopyPhase
  <2>5. \A x \in Workers : my'[x].pc = "copied" => Bin(local_bins'[x], NextBin') = <<>>
    BY <1>1, <1>3, <1>6, <1>7 DEF CopyPhase
  <2> QED
    BY <1>1, <1>7, <2>1, <2>2, <2>3, <2>4, <2>5 DEF CopyPhase
<1>14. Slots' = Slots
  <2>1. (Types /\ Together /\ LocalsOK /\ Copying /\ next_index = 0 => Slots = Filled)'
    BY SlotsFilled, PTL
  <2>2. Filled' = Filled
    BY <1>7, <1>11, <1>12 DEF Filled
  <2> QED
    BY <1>1, <1>3, <1>6, <1>9, <2>1, <2>2
<1>15. SlotsWritten'
  <2>1. (\A x \in Workers : my'[x].pc # "undefined") => \A x \in Workers : my[x].pc # "undefined"
    BY <1>1, <1>6
  <2> QED
    BY <1>1, <1>3, <1>14, <2>1 DEF SlotsWritten
<1>16. NoTenseEdgeForgotten'
  BY <1>1, <1>2, <1>14, WaitingStays DEF args
<1> QED
  BY <1>6, <1>9, <1>10, <1>13, <1>15, <1>16 DEF IInv

(* A reservation begins where the others' end, so that no two overlap.       *)
LEMMA ReserveIInv ==
  ASSUME IInv, NEW w \in Workers, UNCHANGED args, Reserve(w)
  PROVE  IInv'
<1> DEFINE n == Len(Bin(local_bins[w], NextBin))
<1>1. my[w].pc \in InBPhase /\ "copy" \in InBPhase /\ my[w].pc = "reserve"
  BY DEF Reserve, At, InBPhase
<1>2. /\ Types /\ Together /\ LocalsOK /\ BinsFit /\ Copying /\ CopyPhase /\ SlotsWritten
      /\ my[w] \in WorkerType /\ my \in [Workers -> WorkerType]
      /\ local_bins[w] \in Seq(Seq(Nodes))
      /\ next(w) = 1 - Iter /\ Iter \in 0 .. 1 /\ 1 - Iter \in 0 .. 1 /\ 1 - Iter # Iter
      /\ next_bin_index(w) = NextBin /\ NextBin \in Nat
      /\ NextTail \in Nat /\ next_index = 0 /\ Slots = Filled
  BY <1>1, CopyFacts
<1>3. n \in Nat
  <2>1. Bin(local_bins[w], NextBin) \in Seq(Nodes)
    BY <1>2, NthBin
  <2> QED
    BY <2>1
<1>4. /\ my' = [my EXCEPT ![w] = [my[w] EXCEPT !.pc = "copy", !.copy_start = NextTail]]
      /\ frontier_tails' = [frontier_tails EXCEPT ![1 - Iter] = @ + n]
      /\ weight' = weight /\ source' = source /\ delta' = delta /\ dist' = dist
      /\ frontier' = frontier /\ next_index' = next_index /\ local_bins' = local_bins
      /\ shared_indexes' = shared_indexes /\ single_taken' = single_taken
  BY <1>2 DEF Reserve, NextTail, args
<1> HIDE DEF n
<1>5. /\ my' \in [Workers -> WorkerType] /\ \A x \in Workers \ {w} : my'[x] = my[x]
      /\ my'[w].pc = "copy" /\ my'[w].copy_start = NextTail
      /\ Iter' = Iter /\ Copying' /\ Together' /\ LocalsOK'
  BY <1>1, <1>2, <1>4, CopierMoves DEF args
<1>6. /\ frontier_tails' \in [0 .. 1 -> Nat]
      /\ NextBin' = NextBin /\ NextTail' = NextTail + n /\ CurBin' = CurBin /\ CurTail' = CurTail
  BY <1>2, <1>3, <1>4, <1>5 DEF Types, CurBin, NextBin, CurTail, NextTail
<1>7. Types'
  BY <1>2, <1>4, <1>5, <1>6 DEF Types
<1>8. BinsFit'
  BY <1>2, <1>4 DEF BinsFit
<1>9. CopyRange(w)' = NextTail .. NextTail + n - 1
  BY <1>4, <1>5, <1>6 DEF CopyRange, n
<1>10. ASSUME NEW x \in Workers, x # w, my'[x].pc = "copy"
       PROVE  /\ my[x].pc = "copy" /\ CopyRange(x)' = CopyRange(x)
              /\ \A i \in CopyRange(x) : i < NextTail
  <2>1. my[x].pc = "copy" /\ CopyRange(x)' = CopyRange(x)
    BY <1>4, <1>5, <1>6, <1>10 DEF CopyRange
  <2> QED
    BY <1>2, <2>1 DEF CopyPhase
<1>11. CopyPhase'
  <2>1. \A u \in Nodes : \A v \in DOMAIN weight'[u] : Tense(u, v)' => dist'[u] >= delta' * NextBin'
    BY <1>2, <1>4, <1>6 DEF CopyPhase, Tense
  <2>2. next_index' = 0 /\ single_taken' /\ CurBin' = kMaxBin /\ CurTail' = 0
    BY <1>1, <1>2, <1>4, <1>6 DEF CopyPhase
  <2>3. ASSUME NEW x \in Workers, my'[x].pc = "copy", NEW i \in CopyRange(x)' PROVE i < NextTail'
    <3>1. CASE x = w
      BY <1>2, <1>3, <1>6, <1>9, <2>3, <3>1
    <3>2. CASE x # w
      <4>1. i < NextTail /\ i \in Int
        <5>1. i \in CopyRange(x)
          BY <1>10, <2>3, <3>2
        <5>2. i \in Int
          BY <5>1 DEF CopyRange
        <5> QED
          BY <1>10, <2>3, <3>2, <5>1, <5>2
      <4> QED
        BY <1>2, <1>3, <1>6, <4>1
    <3> QED
      BY <3>1, <3>2
  <2>4. ASSUME NEW x \in Workers, NEW y \in Workers, x # y, my'[x].pc = "copy", my'[y].pc = "copy"
        PROVE  CopyRange(x)' \cap CopyRange(y)' = {}
    <3>1. ASSUME NEW z \in Workers, z # w, my'[z].pc = "copy"
          PROVE  CopyRange(z)' \cap CopyRange(w)' = {}
      <4>1. \A i \in CopyRange(z)' : i < NextTail
        BY <1>10, <3>1
      <4> QED
        BY <1>2, <1>9, <4>1
    <3>2. CASE x = w
      BY <2>4, <3>1, <3>2
    <3>3. CASE y = w
      BY <2>4, <3>1, <3>3
    <3>4. CASE x # w /\ y # w
      <4>1. /\ my[x].pc = "copy" /\ CopyRange(x)' = CopyRange(x)
            /\ my[y].pc = "copy" /\ CopyRange(y)' = CopyRange(y)
        BY <1>10, <2>4, <3>4
      <4> QED
        BY <1>2, <2>4, <4>1 DEF CopyPhase
    <3> QED
      BY <3>2, <3>3, <3>4
  <2>5. \A x \in Workers : my'[x].pc = "copied" => Bin(local_bins'[x], NextBin') = <<>>
    BY <1>2, <1>4, <1>5, <1>6 DEF CopyPhase
  <2> QED
    BY <2>1, <2>2, <2>3, <2>4, <2>5 DEF CopyPhase
<1>12. Slots' = Slots
  <2>1. (Types /\ Together /\ LocalsOK /\ Copying /\ next_index = 0 => Slots = Filled)'
    BY SlotsFilled, PTL
  <2>2. \A x \in Workers \ {w} : /\ my[x].pc = "copy" <=> my'[x].pc = "copy"
                                 /\ my'[x].pc = "copy" => CopyRange(x)' = CopyRange(x)
    BY <1>5, <1>10
  <2>3. ASSUME NEW i \in Filled PROVE i \in Filled'
    <3>1. /\ i \in 0 .. NextTail - 1 /\ i \in 0 .. NextTail' - 1 /\ i \notin CopyRange(w)'
          /\ \A x \in Workers : my[x].pc = "copy" => i \notin CopyRange(x)
      BY <1>2, <1>3, <1>6, <1>9, <2>3 DEF Filled
    <3> QED
      BY <2>2, <3>1 DEF Filled
  <2>4. ASSUME NEW i \in Filled' PROVE i \in Filled
    <3>1. /\ i \in 0 .. NextTail' - 1
          /\ \A x \in Workers : my'[x].pc = "copy" => i \notin CopyRange(x)'
      BY <2>4 DEF Filled
    <3>2. i \in 0 .. NextTail - 1
      BY <1>2, <1>3, <1>5, <1>6, <1>9, <3>1
    <3>3. my[w].pc # "copy"
      BY <1>1
    <3> QED
      BY <2>2, <3>1, <3>2, <3>3 DEF Filled
  <2> QED
    BY <1>2, <1>4, <1>5, <1>7, <2>1, <2>3, <2>4
<1>13. SlotsWritten'
  <2>1. (\A x \in Workers : my'[x].pc # "undefined") => \A x \in Workers : my[x].pc # "undefined"
    BY <1>1, <1>5
  <2> QED
    BY <1>2, <1>4, <1>12, <2>1 DEF SlotsWritten
<1>14. NoTenseEdgeForgotten'
  BY <1>1, <1>4, <1>12, WaitingStays DEF args
<1> QED
  BY <1>5, <1>7, <1>8, <1>11, <1>13, <1>14 DEF IInv

(* The copy that exceeds the frontier: the thread goes no further.           *)
LEMMA CopyTooMuchIInv ==
  ASSUME IInv, NEW w \in Workers, At(w, "copy"), Goto(w, "undefined"),
         UNCHANGED <<args, dist, shared, local_bins>>
  PROVE  IInv'
<1>1. /\ my[w].pc = "copy" /\ my' = [my EXCEPT ![w].pc = "undefined"]
      /\ weight' = weight /\ source' = source /\ delta' = delta /\ dist' = dist
      /\ frontier' = frontier /\ next_index' = next_index /\ local_bins' = local_bins
      /\ single_taken' = single_taken /\ shared_indexes' = shared_indexes
      /\ frontier_tails' = frontier_tails
  BY DEF At, Goto, args, shared
<1>2. my[w].pc \in InBPhase /\ "undefined" \in InBPhase
  BY <1>1 DEF InBPhase
<1>3. /\ Types /\ Together /\ LocalsOK /\ BinsFit /\ Copying /\ CopyPhase
      /\ my[w] \in WorkerType /\ my \in [Workers -> WorkerType]
      /\ NextTail \in Nat /\ next_index = 0 /\ Slots = Filled
  BY <1>2, CopyFacts
<1>4. PICK c \in Nat : c = my[w].copy_start
  BY <1>3 DEF WorkerType
<1>5. /\ my' = [my EXCEPT ![w] = [my[w] EXCEPT !.pc = "undefined", !.copy_start = c]]
      /\ UNCHANGED <<args, dist, next_index>>
  BY <1>1, <1>3, <1>4 DEF WorkerType, args
<1>6. /\ my' \in [Workers -> WorkerType] /\ \A x \in Workers \ {w} : my'[x] = my[x]
      /\ my'[w].pc = "undefined"
      /\ Iter' = Iter /\ Copying' /\ Together' /\ LocalsOK'
  BY <1>2, <1>5, CopierMoves
<1>7. NextBin' = NextBin /\ NextTail' = NextTail /\ CurBin' = CurBin /\ CurTail' = CurTail
  BY <1>1, <1>6 DEF CurBin, NextBin, CurTail, NextTail
<1>8. Types'
  BY <1>1, <1>3, <1>6 DEF Types
<1>9. BinsFit'
  BY <1>1, <1>3 DEF BinsFit
<1>10. \A x \in Workers : my'[x].pc = "copy" => my[x].pc = "copy" /\ CopyRange(x)' = CopyRange(x)
  BY <1>1, <1>6, <1>7 DEF CopyRange
<1>11. CopyPhase'
  <2>1. \A u \in Nodes : \A v \in DOMAIN weight'[u] : Tense(u, v)' => dist'[u] >= delta' * NextBin'
    BY <1>1, <1>3, <1>7 DEF CopyPhase, Tense
  <2>2. next_index' = 0 /\ single_taken' /\ CurBin' = kMaxBin /\ CurTail' = 0
    BY <1>1, <1>3, <1>7 DEF CopyPhase
  <2>3. \A x \in Workers : my'[x].pc = "copy" => \A i \in CopyRange(x)' : i < NextTail'
    BY <1>3, <1>7, <1>10 DEF CopyPhase
  <2>4. \A x, y \in Workers : x # y /\ my'[x].pc = "copy" /\ my'[y].pc = "copy"
          => CopyRange(x)' \cap CopyRange(y)' = {}
    BY <1>3, <1>10 DEF CopyPhase
  <2>5. \A x \in Workers : my'[x].pc = "copied" => Bin(local_bins'[x], NextBin') = <<>>
    BY <1>1, <1>3, <1>6, <1>7 DEF CopyPhase
  <2> QED
    BY <2>1, <2>2, <2>3, <2>4, <2>5 DEF CopyPhase
<1>12. SlotsWritten'
  BY <1>6 DEF SlotsWritten
<1>13. \A i \in Slots : i \in Slots'
  <2>1. (Types /\ Together /\ LocalsOK /\ Copying /\ next_index = 0 => Slots = Filled)'
    BY SlotsFilled, PTL
  <2>2. ASSUME NEW i \in Filled PROVE i \in Filled'
    BY <1>7, <1>10, <2>2 DEF Filled
  <2> QED
    BY <1>1, <1>3, <1>6, <1>8, <2>1, <2>2
<1>14. NoTenseEdgeForgotten'
  BY <1>1, <1>2, <1>13, WaitingStays DEF args
<1> QED
  BY <1>6, <1>8, <1>9, <1>11, <1>12, <1>14 DEF IInv

(* The copy that fits: the bin becomes a range of slots.                     *)
LEMMA CopyFitsFacts ==
  ASSUME IInv, NEW w \in Workers, At(w, "copy"),
         local_bins' = IF Bin(local_bins[w], NextBin) = <<>> THEN local_bins
                       ELSE [local_bins EXCEPT ![w] = WithBin(@, NextBin, <<>>)]
  PROVE  /\ local_bins' \in [Workers -> Seq(Seq(Nodes))]
         /\ \A x \in Workers \ {w} : local_bins'[x] = local_bins[x]
         /\ Len(local_bins'[w]) <= kDistInf
         /\ Bin(local_bins'[w], NextBin) = <<>>
         /\ \A b \in Nat : b # NextBin => Bin(local_bins'[w], b) = Bin(local_bins[w], b)
<1>1. /\ local_bins[w] \in Seq(Seq(Nodes)) /\ Len(local_bins[w]) <= kDistInf /\ NextBin \in Nat
      /\ local_bins \in [Workers -> Seq(Seq(Nodes))]
  <2>1. my[w].pc \in InBPhase
    BY DEF At, InBPhase
  <2> QED
    BY <2>1, CopyFacts DEF Types
<1>2. CASE Bin(local_bins[w], NextBin) = <<>>
  BY <1>1, <1>2
<1>3. CASE Bin(local_bins[w], NextBin) # <<>>
  <2> DEFINE W == WithBin(local_bins[w], NextBin, <<>>)
  <2>1. /\ W \in Seq(Seq(Nodes)) /\ Len(W) <= Len(local_bins[w]) /\ Bin(W, NextBin) = <<>>
        /\ \A b \in Nat : b # NextBin => Bin(W, b) = Bin(local_bins[w], b)
    BY <1>1, <1>3, EmptiedFacts
  <2>2. local_bins' = [local_bins EXCEPT ![w] = W]
    BY <1>3
  <2> HIDE DEF W
  <2>3. local_bins'[w] = W /\ \A x \in Workers \ {w} : local_bins'[x] = local_bins[x]
    BY <1>1, <2>2
  <2>4. local_bins' \in [Workers -> Seq(Seq(Nodes))]
    BY <1>1, <2>1, <2>2
  <2>5. Len(W) \in Nat /\ Len(local_bins[w]) \in Nat
    BY <1>1, <2>1
  <2>6. Len(W) <= kDistInf
    BY <1>1, <2>1, <2>5, SSSPAssumption
  <2> QED
    BY <2>1, <2>3, <2>4, <2>6
<1> QED
  BY <1>2, <1>3

(* Its vertices wait in the slots from now on, and no longer in the bin.     *)
LEMMA CopyFitsIInv ==
  ASSUME IInv, NEW w \in Workers, At(w, "copy"), NEW bin \in Seq(Nodes),
         bin = Bin(local_bins[w], NextBin),
         frontier' = [i \in DOMAIN frontier \cup CopyRange(w) |->
                        IF i \in CopyRange(w) THEN bin[i - my[w].copy_start + 1] ELSE frontier[i]],
         local_bins' = IF bin = <<>> THEN local_bins
                       ELSE [local_bins EXCEPT ![w] = WithBin(@, NextBin, <<>>)],
         my' = [my EXCEPT ![w] = [my[w] EXCEPT !.pc = "copied", !.copy_start = 0]],
         UNCHANGED <<args, dist, shared_indexes, frontier_tails, next_index, single_taken>>
  PROVE  IInv'
<1>1. /\ my[w].pc = "copy"
      /\ weight' = weight /\ source' = source /\ delta' = delta /\ dist' = dist
      /\ next_index' = next_index /\ single_taken' = single_taken
      /\ shared_indexes' = shared_indexes /\ frontier_tails' = frontier_tails
  BY DEF At, args
<1>2. my[w].pc \in InBPhase /\ "copied" \in InBPhase
  BY <1>1 DEF InBPhase
<1>3. /\ Types /\ Together /\ LocalsOK /\ BinsFit /\ Copying /\ CopyPhase /\ SlotsWritten
      /\ my[w] \in WorkerType /\ my \in [Workers -> WorkerType]
      /\ NextTail \in Nat /\ NextBin \in Nat /\ next_index = 0 /\ Slots = Filled
  BY <1>2, CopyFacts
<1>4. /\ my' \in [Workers -> WorkerType] /\ \A x \in Workers \ {w} : my'[x] = my[x]
      /\ my'[w].pc = "copied"
      /\ Iter' = Iter /\ Copying' /\ Together' /\ LocalsOK'
  <2>1. UNCHANGED <<args, dist, next_index>> /\ 0 \in Nat
    BY <1>1 DEF args
  <2> QED
    BY <1>2, <2>1, CopierMoves
<1>5. /\ local_bins' \in [Workers -> Seq(Seq(Nodes))]
      /\ \A x \in Workers \ {w} : local_bins'[x] = local_bins[x]
      /\ Len(local_bins'[w]) <= kDistInf
      /\ Bin(local_bins'[w], NextBin) = <<>>
      /\ \A b \in Nat : b # NextBin => Bin(local_bins'[w], b) = Bin(local_bins[w], b)
  BY CopyFitsFacts
<1>6. NextBin' = NextBin /\ NextTail' = NextTail /\ CurBin' = CurBin /\ CurTail' = CurTail
  BY <1>1, <1>4 DEF CurBin, NextBin, CurTail, NextTail
<1>7. my[w].copy_start \in Nat /\ Len(bin) \in Nat
  BY <1>3 DEF WorkerType
<1>8. CopyRange(w) = my[w].copy_start .. my[w].copy_start + Len(bin) - 1
  BY DEF CopyRange
<1>9. \A i \in CopyRange(w) : i \in Nat /\ i - my[w].copy_start + 1 \in 1 .. Len(bin)
  BY <1>7, <1>8
<1>10. /\ DOMAIN frontier' = DOMAIN frontier \cup CopyRange(w)
       /\ \A i \in CopyRange(w) : frontier'[i] = bin[i - my[w].copy_start + 1]
       /\ \A i \in DOMAIN frontier \ CopyRange(w) : frontier'[i] = frontier[i]
  OBVIOUS
<1>11. Types'
  <2>1. DOMAIN frontier' \subseteq Nat
    BY <1>3, <1>9, <1>10 DEF Types
  <2>2. ASSUME NEW i \in DOMAIN frontier' PROVE frontier'[i] \in Nodes
    <3>1. CASE i \in CopyRange(w)
      <4>1. i - my[w].copy_start + 1 \in 1 .. Len(bin)
        BY <1>9, <3>1
      <4>2. frontier'[i] = bin[i - my[w].copy_start + 1]
        BY <1>10, <3>1
      <4> QED
        BY <4>1, <4>2
    <3>2. CASE i \notin CopyRange(w)
      BY <1>3, <1>10, <2>2, <3>2 DEF Types
    <3> QED
      BY <3>1, <3>2
  <2> QED
    BY <1>1, <1>3, <1>4, <1>5, <2>1, <2>2 DEF Types
<1>12. BinsFit'
  BY <1>3, <1>5 DEF BinsFit
<1>13. ASSUME NEW x \in Workers, my'[x].pc = "copy"
       PROVE  x # w /\ my[x].pc = "copy" /\ CopyRange(x)' = CopyRange(x)
  BY <1>4, <1>5, <1>6, <1>13 DEF CopyRange
<1>14. CopyPhase'
  <2>1. \A u \in Nodes : \A v \in DOMAIN weight'[u] : Tense(u, v)' => dist'[u] >= delta' * NextBin'
    BY <1>1, <1>3, <1>6 DEF CopyPhase, Tense
  <2>2. next_index' = 0 /\ single_taken' /\ CurBin' = kMaxBin /\ CurTail' = 0
    BY <1>1, <1>3, <1>6 DEF CopyPhase
  <2>3. \A x \in Workers : my'[x].pc = "copy" => \A i \in CopyRange(x)' : i < NextTail'
    BY <1>3, <1>6, <1>13 DEF CopyPhase
  <2>4. \A x, y \in Workers : x # y /\ my'[x].pc = "copy" /\ my'[y].pc = "copy"
          => CopyRange(x)' \cap CopyRange(y)' = {}
    BY <1>3, <1>13 DEF CopyPhase
  <2>5. ASSUME NEW x \in Workers, my'[x].pc = "copied" PROVE Bin(local_bins'[x], NextBin') = <<>>
    <3>1. CASE x = w
      BY <1>5, <1>6, <3>1
    <3>2. CASE x # w
      BY <1>3, <1>4, <1>5, <1>6, <2>5, <3>2 DEF CopyPhase
    <3> QED
      BY <3>1, <3>2
  <2> QED
    BY <2>1, <2>2, <2>3, <2>4, <2>5 DEF CopyPhase
<1>15. Slots' = Slots \cup CopyRange(w) /\ Slots \cap CopyRange(w) = {}
  <2>1. (Types /\ Together /\ LocalsOK /\ Copying /\ next_index = 0 => Slots = Filled)'
    BY SlotsFilled, PTL
  <2>2. \A x \in Workers \ {w} : my[x].pc = "copy" <=> my'[x].pc = "copy"
    BY <1>4
  <2>3. \A i \in CopyRange(w) : i \in 0 .. NextTail - 1
    BY <1>1, <1>3, <1>9 DEF CopyPhase
  <2>4. \A i \in Filled : i \in Filled' /\ i \notin CopyRange(w)
    BY <1>1, <1>6, <1>13 DEF Filled
  <2>5. ASSUME NEW i \in CopyRange(w) PROVE i \in Filled'
    <3>1. \A x \in Workers : my'[x].pc = "copy" => i \notin CopyRange(x)'
      <4> SUFFICES ASSUME NEW x \in Workers, my'[x].pc = "copy" PROVE i \notin CopyRange(x)'
        OBVIOUS
      <4>1. x # w /\ my[x].pc = "copy" /\ CopyRange(x)' = CopyRange(x)
        BY <1>13
      <4>2. CopyRange(x) \cap CopyRange(w) = {}
        BY <1>1, <1>3, <4>1 DEF CopyPhase
      <4> QED
        BY <4>1, <4>2
    <3> QED
      BY <1>6, <2>3, <3>1 DEF Filled
  <2>6. ASSUME NEW i \in Filled', i \notin CopyRange(w) PROVE i \in Filled
    <3>1. /\ i \in 0 .. NextTail' - 1
          /\ \A x \in Workers : my'[x].pc = "copy" => i \notin CopyRange(x)'
      BY <2>6 DEF Filled
    <3>2. ASSUME NEW x \in Workers, my[x].pc = "copy" PROVE i \notin CopyRange(x)
      BY <1>13, <2>2, <2>6, <3>1, <3>2
    <3> QED
      BY <1>6, <3>1, <3>2 DEF Filled
  <2> QED
    BY <1>1, <1>3, <1>4, <1>11, <2>1, <2>4, <2>5, <2>6
<1>16. SlotsWritten'
  <2>1. (\A x \in Workers : my'[x].pc # "undefined") => \A x \in Workers : my[x].pc # "undefined"
    BY <1>1, <1>4
  <2> QED
    BY <1>3, <1>10, <1>15, <2>1 DEF SlotsWritten
<1>17. NoTenseEdgeForgotten'
  <2>1. ASSUME NEW u \in Nodes, NEW x \in Workers, Contains(Bin(local_bins[x], bin_of(u)), u)
        PROVE  \/ Contains(Bin(local_bins'[x], bin_of(u)), u)
               \/ \E i \in Slots' \cap DOMAIN frontier' : frontier'[i] = u
    <3>1. CASE x # w
      BY <1>5, <2>1, <3>1
    <3>2. CASE bin_of(u) # NextBin
      <4>1. bin_of(u) \in Nat
        BY <1>3, DivisionFacts DEF Types, bin_of
      <4> QED
        BY <1>5, <2>1, <3>2, <4>1
    <3>3. CASE x = w /\ bin_of(u) = NextBin
      <4>1. PICK j \in 1 .. Len(bin) : bin[j] = u
        BY <2>1, <3>3 DEF Contains
      <4>2. PICK i \in Int : i = my[w].copy_start + j - 1
        BY <1>7, <4>1
      <4>3. i \in CopyRange(w) /\ i - my[w].copy_start + 1 = j
        BY <1>7, <1>8, <4>1, <4>2
      <4>4. frontier'[i] = u
        BY <1>10, <4>1, <4>3
      <4> QED
        BY <1>10, <1>15, <4>3, <4>4
    <3> QED
      BY <3>1, <3>2, <3>3
  <2>2. \A i \in Slots \cap DOMAIN frontier :
          i \in Slots' \cap DOMAIN frontier' /\ frontier'[i] = frontier[i]
    BY <1>10, <1>15
  <2>3. \A u \in Nodes :
          \/ \E x \in Workers : Contains(Bin(local_bins[x], bin_of(u)), u)
          \/ \E i \in Slots \cap DOMAIN frontier : frontier[i] = u
          => \/ \E x \in Workers : Contains(Bin(local_bins'[x], bin_of(u)), u)
             \/ \E i \in Slots' \cap DOMAIN frontier' : frontier'[i] = u
    <3> SUFFICES ASSUME NEW u \in Nodes,
                        \/ \E x \in Workers : Contains(Bin(local_bins[x], bin_of(u)), u)
                        \/ \E i \in Slots \cap DOMAIN frontier : frontier[i] = u
                 PROVE  \/ \E x \in Workers : Contains(Bin(local_bins'[x], bin_of(u)), u)
                        \/ \E i \in Slots' \cap DOMAIN frontier' : frontier'[i] = u
      OBVIOUS
    <3>1. CASE \E x \in Workers : Contains(Bin(local_bins[x], bin_of(u)), u)
      BY <2>1, <3>1
    <3>2. CASE \E i \in Slots \cap DOMAIN frontier : frontier[i] = u
      BY <2>2, <3>2
    <3> QED
      BY <3>1, <3>2
  <2>4. UNCHANGED <<args, dist>>
    BY <1>1 DEF args
  <2> QED
    BY <1>2, <2>3, <2>4, WaitingStays
<1> QED
  BY <1>4, <1>11, <1>12, <1>14, <1>16, <1>17 DEF IInv

LEMMA CopyIInv ==
  ASSUME IInv, NEW w \in Workers, UNCHANGED args, Copy(w)
  PROVE  IInv'
<1>1. my[w].pc \in InBPhase /\ At(w, "copy")
  BY DEF Copy, At, InBPhase
<1>2. /\ my[w] \in WorkerType /\ next_bin_index(w) = NextBin
      /\ local_bins[w] \in Seq(Seq(Nodes)) /\ NextBin \in Nat
  BY <1>1, CopyFacts
<1>3. PICK bin \in Seq(Nodes) : bin = Bin(local_bins[w], NextBin)
  BY <1>2, NthBin
<1>4. CopyRange(w) = my[w].copy_start .. my[w].copy_start + Len(bin) - 1
  BY <1>3 DEF CopyRange
<1>5. CASE my[w].copy_start + Len(bin) <= num_edges_directed
  <2>1. my' = [my EXCEPT ![w] = [my[w] EXCEPT !.pc = "copied", !.copy_start = 0]]
    BY <1>2, <1>3, <1>5 DEF Copy
  <2>2. frontier' = [i \in DOMAIN frontier \cup CopyRange(w) |->
                      IF i \in CopyRange(w) THEN bin[i - my[w].copy_start + 1] ELSE frontier[i]]
    BY <1>2, <1>3, <1>4, <1>5 DEF Copy
  <2>3. local_bins' = IF bin = <<>> THEN local_bins
                      ELSE [local_bins EXCEPT ![w] = WithBin(@, NextBin, <<>>)]
    BY <1>2, <1>3, <1>5 DEF Copy
  <2>4. UNCHANGED <<args, dist, shared_indexes, frontier_tails, next_index, single_taken>>
    BY DEF Copy
  <2> QED
    BY <1>1, <1>3, <2>1, <2>2, <2>3, <2>4, CopyFitsIInv
<1>6. CASE ~(my[w].copy_start + Len(bin) <= num_edges_directed)
  <2>1. Goto(w, "undefined") /\ UNCHANGED <<args, dist, shared, local_bins>>
    BY <1>2, <1>3, <1>6 DEF Copy, shared
  <2> QED
    BY <1>1, <2>1, CopyTooMuchIInv
<1> QED
  BY <1>5, <1>6

--------------------------------------------------------------------------------
(* Nothing in the invariant looks beyond the variables.                      *)
LEMMA StutterIInv == IInv /\ UNCHANGED vars => IInv'
<1> SUFFICES ASSUME IInv, UNCHANGED vars PROVE IInv'
  OBVIOUS
<1>1. /\ weight' = weight /\ source' = source /\ delta' = delta /\ dist' = dist
      /\ frontier' = frontier /\ shared_indexes' = shared_indexes
      /\ frontier_tails' = frontier_tails /\ next_index' = next_index
      /\ single_taken' = single_taken /\ local_bins' = local_bins /\ my' = my
  BY DEF vars, args, shared
<1>2. Iter' = Iter /\ Copying' = Copying
  BY <1>1 DEF Iter, Copying
<1>3. CurBin' = CurBin /\ NextBin' = NextBin /\ CurTail' = CurTail /\ NextTail' = NextTail
  BY <1>1, <1>2 DEF CurBin, NextBin, CurTail, NextTail
<1>4. Types' /\ BinsFit'
  BY <1>1 DEF IInv, Types, BinsFit
<1>5. LocalsOK'
  BY <1>1 DEF IInv, LocalsOK, EdgeOK
<1>6. Together'
  BY <1>1, <1>2 DEF IInv, Together
<1>7. ~Copying' => RelaxPhase'
  BY <1>1, <1>2, <1>3 DEF IInv, RelaxPhase, AllAbove, WorksAbove, Tense
<1>8. Copying' => CopyPhase'
  BY <1>1, <1>2, <1>3 DEF IInv, CopyPhase, CopyRange, Tense
<1>9. Slots' = Slots
  <2>1. \A w \in Workers : next_bin_index(w)' = next_bin_index(w) /\ At(w, "copy")' = At(w, "copy")
    BY <1>1 DEF next_bin_index, next, At
  <2> QED
    BY <1>1, <1>2, <2>1 DEF Slots
<1>10. SlotsWritten'
  BY <1>1, <1>9 DEF IInv, SlotsWritten
<1>11. NoTenseEdgeForgotten'
  <2>1. \A u \in Nodes : Waits(u)' = Waits(u)
    BY <1>1, <1>9 DEF Waits, bin_of
  <2> QED
    BY <1>1, <2>1 DEF IInv, NoTenseEdgeForgotten, Tense, Relaxed
<1> QED
  BY <1>4, <1>5, <1>6, <1>7, <1>8, <1>10, <1>11 DEF IInv

LEMMA CompareAndSwapIInv ==
  ASSUME IInv, NEW w \in Workers, UNCHANGED args, CompareAndSwap(w)
  PROVE  IInv'
BY SwapFailsIInv, SwapSucceedsIInv

(* The invariant holds at every step of every run: in particular whoever    *)
(* takes a vertex from the frontier finds one there (SlotsWritten), and no   *)
(* thread is in one phase while another is in the other (Together).          *)
THEOREM SSSPInvariant == Spec => []IInv
<1>1. ASSUME IInv, [Next]_vars PROVE IInv'
  <2>1. CASE UNCHANGED vars
    BY <1>1, <2>1, StutterIInv
  <2>2. CASE FirstBarrier
    BY <1>1, <2>2, FirstBarrierIInv
  <2>3. CASE SecondBarrier
    BY <1>1, <2>3, SecondBarrierIInv
  <2>4. ASSUME NEW w \in Workers, WorkerStep(w) PROVE IInv'
    <3>0. UNCHANGED args
      BY <2>4 DEF WorkerStep
    <3>1. CASE WhileTest(w)
      BY <1>1, <3>0, <3>1, WhileTestIInv
    <3>2. CASE ClaimChunk(w)
      BY <1>1, <3>0, <3>2, ClaimChunkIInv
    <3>3. CASE TakeVertex(w)
      BY <1>1, <3>0, <3>3, TakeVertexIInv
    <3>4. CASE ReadOldDist(w)
      BY <1>1, <3>0, <3>4, ReadOldDistIInv
    <3>5. CASE ReadNewDist(w)
      BY <1>1, <3>0, <3>5, ReadNewDistIInv
    <3>6. CASE CompareAndSwap(w)
      BY <1>1, <3>0, <3>6, CompareAndSwapIInv
    <3>7. CASE RereadOldDist(w)
      BY <1>1, <3>0, <3>7, RereadOldDistIInv
    <3>8. CASE Fuse(w)
      BY <1>1, <3>0, <3>8, FuseIInv
    <3>9. CASE TakeFused(w)
      BY <1>1, <3>0, <3>9, TakeFusedIInv
    <3>10. CASE Vote(w)
      BY <1>1, <3>0, <3>10, VoteIInv
    <3>11. CASE Single(w)
      BY <1>1, <3>0, <3>11, SingleIInv
    <3>12. CASE Reserve(w)
      BY <1>1, <3>0, <3>12, ReserveIInv
    <3>13. CASE Copy(w)
      BY <1>1, <3>0, <3>13, CopyIInv
    <3> QED
      BY <2>4, <3>1, <3>2, <3>3, <3>4, <3>5, <3>6, <3>7, <3>8, <3>9, <3>10, <3>11, <3>12, <3>13
      DEF WorkerStep
  <2> QED
    BY <1>1, <2>1, <2>2, <2>3, <2>4 DEF Next
<1> QED
  BY <1>1, InitIInv, PTL DEF Spec

(* sssp.cc:69-83,109-127: whatever the threads race for, the tail of an edge *)
(* that can still lower a distance waits in a bin, a batch or the frontier,  *)
(* or is being relaxed.                                                      *)
THEOREM NoTenseEdgeIsForgotten == Spec => []NoTenseEdgeForgotten
<1>1. IInv => NoTenseEdgeForgotten
  BY DEF IInv
<1> QED
  BY <1>1, SSSPInvariant, PTL

--------------------------------------------------------------------------------
(* The refinement.                                                           *)

LEMMA NotDoneYet == ~AllAt("done") /\ ~AllAt("done")' => AllAt("done")' = AllAt("done")
  BY DEF AllAt

(* The loop test moves no thread to another phase.                           *)
LEMMA TriesOrLeaves ==
  ASSUME IInv, NEW w \in Workers, NEW old_dist, NEW new_dist, TryOrLeave(w, old_dist, new_dist)
  PROVE  my'[w].pc = my[w].pc
<1>1. Types /\ LocalsOK
  BY DEF IInv
<1>2. my \in [Workers -> WorkerType] /\ my[w] \in WorkerType
  BY <1>1 DEF Types
<1>3. EdgeDone(w).pc = my[w].pc
  BY <1>1, EdgeDoneFacts
<1>4. CASE new_dist < old_dist
  BY <1>2, <1>4 DEF TryOrLeave, WorkerType
<1>5. CASE ~(new_dist < old_dist)
  BY <1>2, <1>3, <1>5 DEF TryOrLeave
<1> QED
  BY <1>4, <1>5

(* The steps that are neither the loop test nor a swap that succeeds.        *)
LEMMA OtherSteps ==
  ASSUME IInv, NEW w \in Workers, UNCHANGED args,
         \/ ClaimChunk(w) \/ TakeVertex(w) \/ ReadOldDist(w) \/ ReadNewDist(w)
         \/ CompareAndSwap(w) /\ dist[my[w].v] # my[w].old_dist
         \/ RereadOldDist(w) \/ Fuse(w) \/ TakeFused(w) \/ Vote(w)
         \/ Single(w) \/ Reserve(w) \/ Copy(w)
  PROVE  dist' = dist /\ my[w].pc # "done" /\ my'[w].pc # "done"
<1>1. /\ my \in [Workers -> WorkerType] /\ my[w] \in WorkerType
      /\ Relaxing(my[w]) => my[w].pc \in {"frontier", "fusion"}
  BY DEF IInv, Types, LocalsOK, PlaceOK
<1>2. CASE ClaimChunk(w)
  BY <1>1, <1>2 DEF ClaimChunk, At, WorkerType
<1>3. CASE TakeVertex(w)
  BY <1>1, <1>3 DEF TakeVertex, Relaxes, At, WorkerType
<1>4. CASE ReadOldDist(w)
  <2>1. PICK v \in my[w].todo :
          my' = [my EXCEPT ![w].todo = @ \ {v}, ![w].v = v, ![w].old_dist = dist[v], ![w].edge = "new"]
    BY <1>4 DEF ReadOldDist
  <2>2. my'[w].pc = my[w].pc
    BY <1>1, <2>1 DEF WorkerType
  <2>3. my[w].pc \in {"frontier", "fusion"}
    BY <1>1, <2>1 DEF Relaxing
  <2> QED
    BY <1>4, <2>2, <2>3 DEF ReadOldDist
<1>5. CASE ReadNewDist(w)
  BY <1>1, <1>5, TriesOrLeaves DEF ReadNewDist, Relaxing
<1>6. CASE CompareAndSwap(w) /\ dist[my[w].v] # my[w].old_dist
  BY <1>1, <1>6 DEF CompareAndSwap, Relaxing, WorkerType
<1>7. CASE RereadOldDist(w)
  BY <1>1, <1>7, TriesOrLeaves DEF RereadOldDist, Relaxing
<1>8. CASE Fuse(w)
  <2> DEFINE bin == Bin(local_bins[w], curr_bin_index(w))
  <2>1. my[w].pc = "fusion" /\ dist' = dist
    BY <1>8 DEF Fuse, At
  <2>2. CASE bin # <<>> /\ Len(bin) < kBinSizeThreshold
    <3>1. my' = [my EXCEPT ![w].batch = bin]
      BY <1>8, <2>2 DEF Fuse
    <3> HIDE DEF bin
    <3>2. my'[w].pc = my[w].pc
      BY <1>1, <3>1 DEF WorkerType
    <3> QED
      BY <2>1, <3>2
  <2>3. CASE ~(bin # <<>> /\ Len(bin) < kBinSizeThreshold)
    <3>1. my' = [my EXCEPT ![w].pc = "vote"]
      BY <1>8, <2>3 DEF Fuse, Goto
    <3>2. my'[w].pc = "vote"
      BY <1>1, <3>1 DEF WorkerType
    <3> QED
      BY <2>1, <3>2
  <2> QED
    BY <2>2, <2>3
<1>9. CASE TakeFused(w)
  BY <1>1, <1>9 DEF TakeFused, Relaxes, At, WorkerType
<1>10. CASE Vote(w)
  BY <1>1, <1>10 DEF Vote, Goto, At, WorkerType
<1>11. CASE Single(w)
  BY <1>1, <1>11 DEF Single, Goto, At, WorkerType
<1>12. CASE Reserve(w)
  BY <1>1, <1>12 DEF Reserve, At, WorkerType
<1>13. CASE Copy(w)
  BY <1>1, <1>13 DEF Copy, Goto, At, WorkerType
<1> QED
  BY <1>2, <1>3, <1>4, <1>5, <1>6, <1>7, <1>8, <1>9, <1>10, <1>11, <1>12, <1>13

(* A swap that succeeds relaxes the edge, with a candidate that may be old.  *)
LEMMA SwapRelaxes ==
  ASSUME IInv, NEW w \in Workers, UNCHANGED args, CompareAndSwap(w), dist[my[w].v] = my[w].old_dist
  PROVE  SP!Relax(my[w].u, my[w].v) /\ my[w].u \in Nodes /\ my[w].v \in Nodes
<1> DEFINE u == my[w].u
           v == my[w].v
<1>1. /\ dist' = [dist EXCEPT ![v] = my[w].new_dist] /\ dist'[v] = my[w].new_dist
      /\ my[w].new_dist < dist[v] /\ my[w].new_dist \in Nat
      /\ dist[u] + weight[u][v] <= my[w].new_dist
      /\ my' = [my EXCEPT ![w] = EdgeDone(w)] /\ my[w].edge = "cas"
  BY SwapFacts
<1>2. /\ u \in Nodes /\ v \in Nodes /\ v \in DOMAIN weight[u]
      /\ my[w].pc \in {"frontier", "fusion"} /\ Types /\ LocalsOK
  BY <1>1, EdgeFacts
<1>3. my'[w].pc = my[w].pc
  BY <1>1, <1>2, EdgeDoneFacts DEF Types
<1>4. ~AllAt("done") /\ ~AllAt("done")'
  BY <1>2, <1>3 DEF AllAt, At
<1> HIDE DEF u, v
<1>5. UNCHANGED <<weight, source, AllAt("done")>>
  BY <1>4, NotDoneYet DEF args
<1>6. dist' = [dist EXCEPT ![v] = dist'[v]]
  BY <1>1
<1> QED
  BY <1>1, <1>2, <1>4, <1>5, <1>6 DEF SP!Relax, u, v

(* The loop ends with the bin kMaxBin, above which no distance lies.         *)
LEMMA LoopEnds ==
  ASSUME IInv, NEW w \in Workers, UNCHANGED args, WhileTest(w)
  PROVE  SP!Finish \/ UNCHANGED SP!vars
<1>1. /\ my[w].pc = "while" /\ my[w].pc \in InAPhase
      /\ weight' = weight /\ source' = source /\ dist' = dist
      /\ my' = [my EXCEPT ![w].pc = IF curr_bin_index(w) = kMaxBin THEN "done" ELSE "frontier"]
  BY DEF WhileTest, At, Goto, InAPhase, args
<1>2. Types /\ Together /\ RelaxPhase /\ my[w] \in WorkerType /\ CurBin \in Nat
  BY <1>1, InvFacts
<1>3. curr_bin_index(w) = CurBin
  BY <1>2, CommonView
<1>4. ~AllAt("done")
  BY <1>1 DEF AllAt, At
<1>5. CASE AllAt("done")'
  <2>1. my'[w].pc = "done"
    BY <1>5 DEF AllAt, At
  <2>2. CurBin = kMaxBin
    BY <1>1, <1>2, <1>3, <2>1 DEF Types, WorkerType
  <2>3. ASSUME NEW u \in Nodes, NEW v \in DOMAIN weight[u], Tense(u, v) PROVE FALSE
    <3>1. dist[u] >= delta * CurBin
      BY <1>2, <2>3 DEF RelaxPhase, AllAbove
    <3>2. /\ delta \in Nat \ {0} /\ v \in Nodes /\ weight[u][v] \in Nat
          /\ dist[u] \in 0 .. kDistInf /\ dist[v] \in 0 .. kDistInf
      <4>1. v \in Nodes /\ weight[u][v] \in Nat
        BY <1>2, WeightFacts
      <4> QED
        BY <1>2, <4>1 DEF Types
    <3>3. CurBin <= delta * CurBin /\ delta * CurBin \in Nat
      BY <1>2, <3>2, ProductGrows
    <3>4. dist[u] >= kDistInf
      <4>1. kMaxBin <= delta * CurBin /\ delta * CurBin <= dist[u]
        BY <2>2, <3>1, <3>2, <3>3
      <4>2. kDistInf \in Nat /\ kMaxBin \in Nat /\ kDistInf <= kMaxBin
        BY SSSPAssumption
      <4> QED
        BY <3>2, <3>3, <4>1, <4>2
    <3>5. dist[u] + weight[u][v] < dist[v]
      BY <2>3 DEF Tense
    <3> QED
      BY <3>2, <3>4, <3>5, SSSPAssumption
  <2>4. SP!Finish
    BY <1>1, <1>5, <2>3 DEF SP!Finish, SP!Tense, Tense
  <2> QED
    BY <2>4
<1>6. CASE ~AllAt("done")'
  BY <1>1, <1>4, <1>6, NotDoneYet DEF SP!vars
<1> QED
  BY <1>5, <1>6

(* sssp.cc:69-83,104: every step relaxes one edge, ends the search when no   *)
(* edge is tense, or changes nothing that matters; a distance is never       *)
(* raised and never stored lower than the edges justify.                     *)
THEOREM RelaxesShortestPaths == Spec => ImplementsShortestPaths
<1>1. Init => SP!Init
  <2> SUFFICES ASSUME Init PROVE SP!Init
    OBVIOUS
  <2>1. Types
    BY InitIInv DEF IInv
  <2>2. SP!WeightsOK
    BY <2>1, SSSPAssumption DEF Types, SP!WeightsOK
  <2>3. ~AllAt("done")
    BY SSSPAssumption DEF Init, NewWorker, AllAt, At
  <2> QED
    BY <2>2, <2>3, SSSPAssumption DEF Init, SP!Init
<1>2. ASSUME IInv, [Next]_vars PROVE [SP!Next]_SP!vars
  <2>1. CASE UNCHANGED vars
    BY <2>1 DEF vars, args, SP!vars, AllAt, At
  <2>2. CASE FirstBarrier
    <3>1. ~AllAt("done") /\ ~AllAt("done")'
      <4>1. PICK w \in Workers : my[w] \in WorkerType
        BY <1>2, SSSPAssumption DEF IInv, Types
      <4>2. my[w].pc = "voted" /\ my'[w].pc # "done"
        BY <2>2, <4>1 DEF FirstBarrier, AllAt, At, WorkerType
      <4> QED
        BY <4>1, <4>2 DEF AllAt, At
    <3> QED
      BY <2>2, <3>1, NotDoneYet DEF FirstBarrier, args, SP!vars
  <2>3. CASE SecondBarrier
    <3>1. ~AllAt("done") /\ ~AllAt("done")'
      <4>1. PICK w \in Workers : my[w] \in WorkerType
        BY <1>2, SSSPAssumption DEF IInv, Types
      <4>2. my[w].pc = "copied" /\ my'[w].pc # "done"
        BY <2>3, <4>1 DEF SecondBarrier, AllAt, At, WorkerType
      <4> QED
        BY <4>1, <4>2 DEF AllAt, At
    <3> QED
      BY <2>3, <3>1, NotDoneYet DEF SecondBarrier, args, SP!vars
  <2>4. ASSUME NEW w \in Workers, WorkerStep(w) PROVE [SP!Next]_SP!vars
    <3>1. UNCHANGED args /\ weight' = weight /\ source' = source
      BY <2>4 DEF WorkerStep, args
    <3>2. CASE WhileTest(w)
      BY <1>2, <3>1, <3>2, LoopEnds DEF SP!Next
    <3>3. CASE CompareAndSwap(w) /\ dist[my[w].v] = my[w].old_dist
      BY <1>2, <3>1, <3>3, SwapRelaxes DEF SP!Next
    <3>4. CASE ~WhileTest(w) /\ ~(CompareAndSwap(w) /\ dist[my[w].v] = my[w].old_dist)
      <4>1. dist' = dist /\ my[w].pc # "done" /\ my'[w].pc # "done"
        BY <1>2, <2>4, <3>1, <3>4, OtherSteps DEF WorkerStep
      <4>2. ~AllAt("done") /\ ~AllAt("done")'
        BY <4>1 DEF AllAt, At
      <4> QED
        BY <3>1, <4>1, <4>2, NotDoneYet DEF SP!vars
    <3> QED
      BY <3>2, <3>3, <3>4
  <2> QED
    BY <1>2, <2>1, <2>2, <2>3, <2>4 DEF Next
<1> QED
  BY <1>1, <1>2, SSSPInvariant, PTL DEF Spec, ImplementsShortestPaths, SP!Spec

--------------------------------------------------------------------------------
(* Relaxing edges in any order, with distances of the tail that may be out   *)
(* of date, never stores a distance that is too low, and when no edge is     *)
(* tense the distances are the shortest ones, on any graph.  This is about   *)
(* the steps of ShortestPaths and nothing else of the program.               *)

RelaxTypes ==
  /\ SP!WeightsOK
  /\ source \in Nodes /\ kDistInf \in Nat
  /\ dist \in [Nodes -> 0 .. kDistInf]

(* Of relaxation as such: nothing changes once the search is over.           *)
RelaxInv ==
  /\ RelaxTypes
  /\ dist[source] = 0
  /\ SP!NeverTooLow
  /\ AllAt("done") => \A u \in Nodes : \A v \in DOMAIN weight[u] : ~SP!Tense(u, v)

LEMMA InitRelax == SP!Init => RelaxInv
<1> SUFFICES ASSUME SP!Init PROVE RelaxInv
  OBVIOUS
<1>1. RelaxTypes
  <2>1. dist \in [Nodes -> 0 .. kDistInf]
    BY DEF SP!Init
  <2> QED
    BY <2>1 DEF SP!Init, RelaxTypes
<1>2. dist[source] = 0
  BY DEF SP!Init
<1>3. SP!NeverTooLow
  <2> SUFFICES ASSUME NEW p \in SP!Potentials, NEW v \in Nodes PROVE p[v] <= dist[v]
    BY DEF SP!NeverTooLow
  <2>1. p[source] = 0 /\ p[v] \in 0 .. kDistInf
    BY DEF SP!Potentials, SP!IsPotential
  <2> QED
    BY <2>1 DEF SP!Init
<1> QED
  BY <1>1, <1>2, <1>3 DEF RelaxInv, SP!Init

(* The new distance of v is bounded from below by a potential of its tail.   *)
LEMMA RelaxKeeps ==
  ASSUME RelaxInv, NEW u \in Nodes, NEW v \in Nodes, SP!Relax(u, v)
  PROVE  RelaxInv'
<1> DEFINE d == dist'[v]
<1>1. /\ dist' = [dist EXCEPT ![v] = d] /\ d \in Nat
      /\ v \in DOMAIN weight[u] /\ dist[u] + weight[u][v] <= d /\ d < dist[v]
      /\ UNCHANGED <<weight, source, AllAt("done")>> /\ ~AllAt("done")
  BY DEF SP!Relax
<1> HIDE DEF d
<1>2. /\ SP!WeightsOK /\ source \in Nodes /\ kDistInf \in Nat
      /\ dist \in [Nodes -> 0 .. kDistInf] /\ weight[u][v] \in Nat
  BY <1>1 DEF RelaxInv, RelaxTypes, SP!WeightsOK
<1>3. RelaxTypes'
  <2>1. dist' \in [Nodes -> 0 .. kDistInf]
    BY <1>1, <1>2
  <2> QED
    BY <1>1, <1>2, <2>1 DEF RelaxTypes, SP!WeightsOK, RelaxInv
<1>4. (dist[source] = 0)'
  <2>1. v # source
    BY <1>1, <1>2 DEF RelaxInv
  <2> QED
    BY <1>1, <1>2, <2>1 DEF RelaxInv
<1>5. SP!NeverTooLow'
  <2>1. SP!Potentials' = SP!Potentials
    BY <1>1 DEF SP!Potentials, SP!IsPotential
  <2> SUFFICES ASSUME NEW p \in SP!Potentials, NEW w \in Nodes PROVE p[w] <= dist'[w]
    BY <2>1 DEF SP!NeverTooLow
  <2>2. /\ p[u] \in 0 .. kDistInf /\ p[v] \in 0 .. kDistInf
        /\ p[u] <= dist[u] /\ p[w] <= dist[w]
        /\ p[v] <= p[u] + weight[u][v]
    BY <1>1 DEF RelaxInv, SP!NeverTooLow, SP!Potentials, SP!IsPotential
  <2>3. CASE w = v
    BY <1>1, <1>2, <2>2, <2>3
  <2>4. CASE w # v
    BY <1>1, <1>2, <2>2, <2>4
  <2> QED
    BY <2>3, <2>4
<1> QED
  BY <1>1, <1>3, <1>4, <1>5 DEF RelaxInv

LEMMA FinishKeeps == ASSUME RelaxInv, SP!Finish PROVE RelaxInv'
  BY DEF RelaxInv, RelaxTypes, SP!Finish, SP!WeightsOK, SP!NeverTooLow, SP!Potentials,
         SP!IsPotential, SP!Tense

(* The bounds hold at every step.                                            *)
THEOREM RelaxationInvariant == SP!Spec => []RelaxInv
<1>1. RelaxInv /\ UNCHANGED SP!vars => RelaxInv'
  BY DEF RelaxInv, RelaxTypes, SP!vars, SP!WeightsOK, SP!NeverTooLow, SP!Potentials,
         SP!IsPotential, SP!Tense
<1>2. RelaxInv /\ [SP!Next]_SP!vars => RelaxInv'
  BY <1>1, RelaxKeeps, FinishKeeps DEF SP!Next
<1> QED
  BY InitRelax, <1>2, PTL DEF SP!Spec

(* sssp.cc:69-83: no stale distance makes a relaxation store too little.     *)
THEOREM DistancesAreJustified == SP!Spec => []SP!NeverTooLow
<1>1. RelaxInv => SP!NeverTooLow
  BY DEF RelaxInv
<1> QED
  BY <1>1, RelaxationInvariant, PTL

(* sssp.cc:163-193: a search that ends has found the shortest distances.     *)
THEOREM SearchIsCorrect == SP!Spec => []SP!GreatestWhenDone
<1>1. RelaxInv => SP!GreatestWhenDone
  <2> SUFFICES ASSUME RelaxInv, AllAt("done") PROVE dist \in SP!Potentials /\ SP!NeverTooLow
    BY DEF SP!GreatestWhenDone
  <2>1. ASSUME NEW u \in Nodes, NEW v \in DOMAIN weight[u]
        PROVE  dist[v] <= dist[u] + weight[u][v]
    <3>1. /\ v \in Nodes /\ weight[u][v] \in Nat
          /\ dist[u] \in 0 .. kDistInf /\ dist[v] \in 0 .. kDistInf /\ kDistInf \in Nat
          /\ ~(dist[u] + weight[u][v] < dist[v])
      BY DEF RelaxInv, RelaxTypes, SP!WeightsOK, SP!Tense
    <3> QED
      BY <3>1
  <2> QED
    BY <2>1 DEF SP!Potentials, SP!IsPotential, RelaxInv, RelaxTypes
<1> QED
  BY <1>1, RelaxationInvariant, PTL

--------------------------------------------------------------------------------
(* The distances that the serial search finds.                               *)

Start == [v \in Nodes |-> IF v = source THEN 0 ELSE kDistInf]

(* What one round over all edges makes of the distances d.                   *)
Improved(d) ==
  [v \in Nodes |-> Least({d[v]} \cup {d[u] + weight[u][v] :
                                         u \in {x \in Nodes : v \in DOMAIN weight[x]}})]

(* Round as an equation.                                                     *)
AreRounds(n, f) == f = [k \in 0 .. n |-> IF k = 0 THEN Start ELSE Improved(f[k - 1])]

(* Some function satisfies it.                                               *)
LEMMA RoundsExist ==
  ASSUME NEW n \in Nat
  PROVE  \E f : AreRounds(n, f)
<1> SUFFICES ASSUME ~\E f : AreRounds(n, f) PROVE FALSE
  OBVIOUS
<1> DEFINE F == {m \in Nat : ~\E f : AreRounds(m, f)}
<1>1. PICK m \in F : \A l \in F : m <= l
  <2>1. F \subseteq Nat /\ F # {}
    OBVIOUS
  <2> HIDE DEF F
  <2> QED
    BY <2>1, SmallestNumber
<1>2. CASE m = 0
  <2>1. AreRounds(0, [k \in 0 .. 0 |-> Start])
    BY DEF AreRounds
  <2> QED
    BY <1>1, <1>2, <2>1
<1>3. CASE m # 0
  <2>1. m \in Nat /\ m - 1 \in Nat /\ m - 1 \notin F
    BY <1>1, <1>3
  <2>2. PICK f : AreRounds(m - 1, f)
    BY <2>1
  <2> DEFINE g == [k \in 0 .. m |-> IF k < m THEN f[k] ELSE Improved(f[m - 1])]
  <2>3. ASSUME NEW k \in 0 .. m
        PROVE  g[k] = IF k = 0 THEN Start ELSE Improved(g[k - 1])
    <3>1. CASE k = m
      <4>1. g[k - 1] = f[m - 1]
        BY <2>1, <3>1
      <4> QED
        BY <1>3, <3>1, <4>1
    <3>2. CASE k # m
      <4>1. k \in 0 .. m - 1 /\ k < m
        BY <2>1, <3>2
      <4>2. f[k] = IF k = 0 THEN Start ELSE Improved(f[k - 1])
        BY <2>2, <4>1 DEF AreRounds
      <4>3. k # 0 => g[k - 1] = f[k - 1]
        BY <2>1, <4>1
      <4> QED
        BY <4>1, <4>2, <4>3
    <3> QED
      BY <3>1, <3>2
  <2>4. g = [k \in 0 .. m |-> g[k]]
    OBVIOUS
  <2> HIDE DEF g
  <2>5. g = [k \in 0 .. m |-> IF k = 0 THEN Start ELSE Improved(g[k - 1])]
    BY <2>3, <2>4
  <2>6. AreRounds(m, g)
    BY <2>5 DEF AreRounds
  <2> QED
    BY <1>1, <2>6
<1> QED
  BY <1>2, <1>3

(* Round does.                                                               *)
LEMMA RoundsImprove == AreRounds(num_nodes, Round)
<1>1. num_nodes \in Nat
  BY SSSPAssumption
<1>2. PICK f : AreRounds(num_nodes, f)
  BY <1>1, RoundsExist
<1>3. \E r : r = [k \in 0 .. num_nodes |->
              IF k = 0 THEN [v \in Nodes |-> IF v = source THEN 0 ELSE kDistInf]
              ELSE [v \in Nodes |-> Least({r[k - 1][v]} \cup {r[k - 1][u] + weight[u][v] :
                                             u \in {x \in Nodes : v \in DOMAIN weight[x]}})]]
  BY <1>2 DEF AreRounds, Start, Improved
<1>4. Round = [k \in 0 .. num_nodes |->
              IF k = 0 THEN [v \in Nodes |-> IF v = source THEN 0 ELSE kDistInf]
              ELSE [v \in Nodes |-> Least({Round[k - 1][v]} \cup {Round[k - 1][u] + weight[u][v] :
                                             u \in {x \in Nodes : v \in DOMAIN weight[x]}})]]
  BY <1>3 DEF Round
<1> QED
  BY <1>4 DEF AreRounds, Start, Improved

(* A round keeps a distance or finds one over an edge, whichever is lower.   *)
LEMMA ImprovedFacts ==
  ASSUME Types, NEW d \in [Nodes -> 0 .. kDistInf], NEW v \in Nodes
  PROVE  /\ Improved(d)[v] \in 0 .. kDistInf /\ Improved(d)[v] <= d[v]
         /\ \A u \in Nodes : v \in DOMAIN weight[u] => Improved(d)[v] <= d[u] + weight[u][v]
         /\ \/ Improved(d)[v] = d[v]
            \/ \E u \in Nodes : v \in DOMAIN weight[u] /\ Improved(d)[v] = d[u] + weight[u][v]
<1> DEFINE S == {d[v]} \cup {d[u] + weight[u][v] : u \in {x \in Nodes : v \in DOMAIN weight[x]}}
<1>1. S \subseteq Nat /\ S # {}
  <2>1. \A u \in Nodes : v \in DOMAIN weight[u] => weight[u][v] \in Nat
    BY WeightFacts
  <2> QED
    BY <2>1, SSSPAssumption
<1>2. Improved(d)[v] = Least(S)
  BY DEF Improved
<1>3. d[v] \in S /\ \A u \in Nodes : v \in DOMAIN weight[u] => d[u] + weight[u][v] \in S
  OBVIOUS
<1>4. \A c \in S : c = d[v] \/ \E u \in Nodes : v \in DOMAIN weight[u] /\ c = d[u] + weight[u][v]
  OBVIOUS
<1> HIDE DEF S
<1>5. Least(S) \in S /\ Least(S) \in Nat /\ \A c \in S : Least(S) <= c
  BY <1>1, LeastFacts
<1>6. Improved(d)[v] <= d[v] /\ d[v] \in 0 .. kDistInf /\ kDistInf \in Nat /\ Improved(d)[v] \in Nat
  BY <1>2, <1>3, <1>5, SSSPAssumption
<1>7. Improved(d)[v] \in 0 .. kDistInf
  BY <1>6
<1> QED
  BY <1>2, <1>3, <1>4, <1>5, <1>6, <1>7

LEMMA NextRound ==
  ASSUME NEW k \in 0 .. num_nodes
  PROVE  /\ k = 0 => Round[k] = Start
         /\ k # 0 => Round[k] = Improved(Round[k - 1])
  BY RoundsImprove DEF AreRounds

LEMMA RoundTypes ==
  ASSUME Types, NEW k \in 0 .. num_nodes
  PROVE  Round[k] \in [Nodes -> 0 .. kDistInf] /\ Round[k][source] = 0
<1>1. Start \in [Nodes -> 0 .. kDistInf] /\ source \in Nodes /\ Start[source] = 0
  <2>1. kDistInf \in Nat /\ source \in Nodes
    BY SSSPAssumption DEF Types
  <2> QED
    BY <2>1 DEF Start
<1> DEFINE F == {j \in 0 .. num_nodes :
                   ~(Round[j] \in [Nodes -> 0 .. kDistInf] /\ Round[j][source] = 0)}
<1> SUFFICES ASSUME k \in F PROVE FALSE
  OBVIOUS
<1>2. PICK m \in F : \A l \in F : m <= l
  <2>1. F \subseteq Nat /\ F # {}
    BY SSSPAssumption
  <2> HIDE DEF F
  <2> QED
    BY <2>1, SmallestNumber
<1>3. CASE m = 0
  BY <1>1, <1>2, <1>3, NextRound
<1>4. CASE m # 0
  <2>1. m - 1 \in 0 .. num_nodes /\ m - 1 \notin F
    BY <1>2, <1>4, SSSPAssumption
  <2>2. Round[m] = Improved(Round[m - 1])
    BY <1>2, <1>4, NextRound
  <2>3. PICK d \in [Nodes -> 0 .. kDistInf] : d = Round[m - 1] /\ d[source] = 0
    BY <2>1
  <2>4. \A v \in Nodes : Improved(d)[v] \in 0 .. kDistInf /\ Improved(d)[v] <= d[v]
    BY ImprovedFacts
  <2>5. Improved(d) \in [Nodes -> 0 .. kDistInf]
    <3>1. Improved(d) = [v \in Nodes |-> Improved(d)[v]]
      BY DEF Improved
    <3> QED
      BY <2>4, <3>1
  <2>6. Improved(d)[source] = 0
    BY <1>1, <2>3, <2>4
  <2> QED
    BY <1>2, <2>2, <2>3, <2>5, <2>6
<1> QED
  BY <1>3, <1>4

(* No round falls below a potential, and the rounds know no distance below   *)
(* the current bin that the threads do not know.                             *)
LEMMA RoundBounds ==
  ASSUME Types, NEW k \in 0 .. num_nodes, NEW v \in Nodes
  PROVE  /\ \A p \in SP!Potentials : p[v] <= Round[k][v]
         /\ dist[source] = 0 /\ AllAbove /\ Round[k][v] < delta * CurBin => dist[v] <= Round[k][v]
<1> DEFINE OK(j) ==
      /\ \A p \in SP!Potentials : \A x \in Nodes : p[x] <= Round[j][x]
      /\ dist[source] = 0 /\ AllAbove =>
           \A x \in Nodes : Round[j][x] < delta * CurBin => dist[x] <= Round[j][x]
<1> DEFINE F == {j \in 0 .. num_nodes : ~OK(j)}
<1> SUFFICES ASSUME k \in F PROVE FALSE
  OBVIOUS
<1>1. PICK m \in F : \A l \in F : m <= l
  <2>1. F \subseteq Nat /\ F # {}
    BY SSSPAssumption
  <2> HIDE DEF F
  <2> QED
    BY <2>1, SmallestNumber
<1>2. m \in 0 .. num_nodes /\ ~OK(m) /\ Round[m] \in [Nodes -> 0 .. kDistInf]
  BY <1>1, RoundTypes
<1>3. \A x \in Nodes : dist[x] \in 0 .. kDistInf
  BY DEF Types
<1>4. ASSUME NEW p \in SP!Potentials
      PROVE  /\ p[source] = 0 /\ \A x \in Nodes : p[x] \in 0 .. kDistInf
             /\ \A x \in Nodes : \A y \in DOMAIN weight[x] : p[y] <= p[x] + weight[x][y]
  BY DEF SP!Potentials, SP!IsPotential
<1>5. kDistInf \in Nat /\ source \in Nodes /\ delta * CurBin \in Nat
  BY IterFacts, ProductGrows, SSSPAssumption DEF Types
<1> HIDE DEF F
<1>6. CASE m = 0
  <2>1. \A x \in Nodes : Round[m][x] = IF x = source THEN 0 ELSE kDistInf
    BY <1>2, <1>6, NextRound DEF Start
  <2>2. \A p \in SP!Potentials : \A x \in Nodes : p[x] <= Round[m][x]
    BY <1>4, <1>5, <2>1
  <2>3. dist[source] = 0 => \A x \in Nodes : dist[x] <= Round[m][x]
    BY <1>3, <1>5, <2>1
  <2> QED
    BY <1>2, <2>2, <2>3
<1>7. CASE m # 0
  <2>1. m - 1 \in 0 .. num_nodes /\ m - 1 \notin F
    BY <1>1, <1>2, <1>7, SSSPAssumption
  <2>2. OK(m - 1)
    BY <2>1 DEF F
  <2>3. PICK d \in [Nodes -> 0 .. kDistInf] : d = Round[m - 1]
    BY <2>1, RoundTypes
  <2>4. Round[m] = Improved(d)
    BY <1>2, <1>7, <2>3, NextRound
  <2>5. ASSUME NEW x \in Nodes
        PROVE  \/ Round[m][x] = d[x]
               \/ \E u \in Nodes : x \in DOMAIN weight[u] /\ Round[m][x] = d[u] + weight[u][x]
    BY <2>4, ImprovedFacts
  <2>6. \A u \in Nodes : \A x \in DOMAIN weight[u] : weight[u][x] \in Nat /\ x \in Nodes
    BY WeightFacts
  <2>7. ASSUME NEW p \in SP!Potentials, NEW x \in Nodes PROVE p[x] <= Round[m][x]
    <3>1. \A y \in Nodes : p[y] <= d[y] /\ p[y] \in Nat /\ d[y] \in Nat
      BY <1>4, <1>5, <2>2, <2>3
    <3>2. CASE Round[m][x] = d[x]
      BY <3>1, <3>2
    <3>3. CASE \E u \in Nodes : x \in DOMAIN weight[u] /\ Round[m][x] = d[u] + weight[u][x]
      <4>1. PICK u \in Nodes : x \in DOMAIN weight[u] /\ Round[m][x] = d[u] + weight[u][x]
        BY <3>3
      <4>2. p[x] <= p[u] + weight[u][x] /\ weight[u][x] \in Nat
        BY <1>4, <2>6, <4>1
      <4>3. p[u] <= d[u] /\ p[u] \in Nat /\ d[u] \in Nat /\ p[x] \in Nat
        BY <3>1
      <4> QED
        BY <4>1, <4>2, <4>3
    <3> QED
      BY <2>5, <3>2, <3>3
  <2>8. ASSUME dist[source] = 0, AllAbove, NEW x \in Nodes, Round[m][x] < delta * CurBin
        PROVE  dist[x] <= Round[m][x]
    <3>1. \A y \in Nodes : /\ d[y] < delta * CurBin => dist[y] <= d[y]
                           /\ dist[y] \in Nat /\ d[y] \in Nat
      BY <1>3, <1>5, <2>2, <2>3, <2>8
    <3>2. CASE Round[m][x] = d[x]
      BY <2>8, <3>1, <3>2
    <3>3. CASE \E u \in Nodes : x \in DOMAIN weight[u] /\ Round[m][x] = d[u] + weight[u][x]
      <4>1. PICK u \in Nodes : x \in DOMAIN weight[u] /\ Round[m][x] = d[u] + weight[u][x]
        BY <3>3
      <4>2. weight[u][x] \in Nat /\ d[u] \in Nat /\ dist[u] \in Nat /\ dist[x] \in Nat
        BY <2>6, <3>1, <4>1
      <4>3. d[u] < delta * CurBin
        BY <1>5, <2>8, <4>1, <4>2
      <4>4. dist[u] <= d[u]
        BY <3>1, <4>3
      <4>5. ~Tense(u, x)
        BY <1>5, <2>8, <4>1, <4>2, <4>3, <4>4 DEF AllAbove
      <4>6. dist[x] <= dist[u] + weight[u][x]
        BY <4>2, <4>5 DEF Tense
      <4> QED
        BY <4>1, <4>2, <4>4, <4>6
    <3> QED
      BY <2>5, <3>2, <3>3
  <2>9. OK(m)
    BY <2>7, <2>8
  <2> QED
    BY <1>2, <2>9
<1> QED
  BY <1>6, <1>7

LEMMA GreatestNumber ==
  ASSUME NEW n \in Nat, NEW S \in SUBSET (0 .. n), S # {}
  PROVE  \E m \in S : \A x \in S : x <= m
<1> DEFINE F == {n - x : x \in S}
<1>1. PICK g \in F : \A h \in F : g <= h
  <2>1. F \subseteq Nat
    <3>1. \A x \in S : x \in 0 .. n
      OBVIOUS
    <3> QED
      BY <3>1
  <2>2. F # {}
    OBVIOUS
  <2> HIDE DEF F
  <2> QED
    BY <2>1, <2>2, SmallestNumber
<1>2. PICK m \in S : g = n - m
  BY <1>1
<1>3. ASSUME NEW x \in S PROVE x <= m
  <2>1. n - m <= n - x
    BY <1>1, <1>2
  <2>2. x \in 0 .. n /\ m \in 0 .. n
    OBVIOUS
  <2> QED
    BY <2>1, <2>2
<1> QED
  BY <1>2, <1>3

(* Among the functions that no edge contradicts there is a greatest one.     *)
LEMMA GreatestPotential ==
  ASSUME Types
  PROVE  \E G \in SP!Potentials : \A p \in SP!Potentials : \A v \in Nodes : p[v] <= G[v]
<1>1. kDistInf \in Nat /\ source \in Nodes
  BY SSSPAssumption DEF Types
<1>2. \A u \in Nodes : \A v \in DOMAIN weight[u] : weight[u][v] \in Nat /\ v \in Nodes
  BY WeightFacts
<1>3. ASSUME NEW p
      PROVE  p \in SP!Potentials <=>
               /\ p \in [Nodes -> 0 .. kDistInf] /\ p[source] = 0
               /\ \A u \in Nodes : \A v \in DOMAIN weight[u] : p[v] <= p[u] + weight[u][v]
  BY DEF SP!Potentials, SP!IsPotential
<1> DEFINE P == SP!Potentials
           Values(v) == {p[v] : p \in P}
           IsTop(v, m) == m \in Values(v) /\ \A x \in Values(v) : x <= m
           G == [v \in Nodes |-> CHOOSE m : IsTop(v, m)]
<1>4. P # {}
  <2> DEFINE zero == [v \in Nodes |-> 0]
  <2>1. zero \in [Nodes -> 0 .. kDistInf] /\ \A v \in Nodes : zero[v] = 0
    BY <1>1
  <2> HIDE DEF zero
  <2>2. zero \in P
    BY <1>1, <1>2, <1>3, <2>1
  <2> QED
    BY <2>2
<1> HIDE DEF P
<1>5. ASSUME NEW v \in Nodes
      PROVE  /\ G[v] \in 0 .. kDistInf
             /\ \E p \in P : G[v] = p[v]
             /\ \A p \in P : p[v] <= G[v]
  <2>1. Values(v) \in SUBSET (0 .. kDistInf) /\ Values(v) # {}
    BY <1>3, <1>4 DEF P
  <2>2. \E m : IsTop(v, m)
    <3> HIDE DEF Values
    <3> QED
      BY <1>1, <2>1, GreatestNumber
  <2>3. IsTop(v, G[v])
    <3> HIDE DEF IsTop
    <3> QED
      BY <2>2
  <2> HIDE DEF G
  <2> QED
    BY <2>1, <2>3
<1>6. G \in [Nodes -> 0 .. kDistInf]
  <2>1. G = [v \in Nodes |-> G[v]]
    OBVIOUS
  <2> HIDE DEF G
  <2> QED
    BY <1>5, <2>1
<1> HIDE DEF G
<1>7. G[source] = 0
  BY <1>1, <1>3, <1>5 DEF P
<1>8. ASSUME NEW u \in Nodes, NEW v \in DOMAIN weight[u] PROVE G[v] <= G[u] + weight[u][v]
  <2>1. v \in Nodes /\ weight[u][v] \in Nat
    BY <1>2
  <2>2. PICK p \in P : G[v] = p[v]
    BY <1>5, <2>1
  <2>3. p[v] <= p[u] + weight[u][v] /\ p[u] \in 0 .. kDistInf /\ p[v] \in 0 .. kDistInf
    BY <1>3, <2>1 DEF P
  <2>4. p[u] <= G[u] /\ G[u] \in 0 .. kDistInf
    BY <1>5
  <2> QED
    BY <1>1, <2>1, <2>2, <2>3, <2>4
<1>9. G \in P
  BY <1>3, <1>6, <1>7, <1>8 DEF P
<1> QED
  BY <1>5, <1>9 DEF P

(* A round that finds no further vertex its distance has found them all:     *)
(* otherwise the greatest potential could be raised on the others.           *)
LEMMA RoundsProgress ==
  ASSUME Types, NEW G \in SP!Potentials,
         \A p \in SP!Potentials : \A v \in Nodes : p[v] <= G[v],
         NEW k \in 0 .. num_nodes - 1,
         \A v \in Nodes : Round[k + 1][v] = G[v] => Round[k][v] = G[v]
  PROVE  \A v \in Nodes : Round[k][v] = G[v]
<1>1. /\ kDistInf \in Nat /\ source \in Nodes
      /\ k \in 0 .. num_nodes /\ k + 1 \in 0 .. num_nodes /\ k + 1 # 0 /\ (k + 1) - 1 = k
  BY SSSPAssumption DEF Types
<1>2. \A u \in Nodes : \A v \in DOMAIN weight[u] : weight[u][v] \in Nat /\ v \in Nodes
  BY WeightFacts
<1>3. PICK d \in [Nodes -> 0 .. kDistInf] : d = Round[k]
  BY <1>1, RoundTypes
<1>4. PICK e \in [Nodes -> 0 .. kDistInf] : e = Round[k + 1]
  BY <1>1, RoundTypes
<1>5. e = Improved(d)
  BY <1>1, <1>3, <1>4, NextRound
<1>6. \A v \in Nodes : /\ e[v] <= d[v] /\ G[v] <= e[v] /\ G[v] <= d[v]
                       /\ G[v] \in Nat /\ e[v] \in Nat /\ d[v] \in Nat /\ d[v] <= kDistInf
  <2>1. \A v \in Nodes : e[v] <= d[v]
    BY <1>5, ImprovedFacts
  <2>2. \A v \in Nodes : G[v] <= e[v] /\ G[v] <= d[v]
    BY <1>1, <1>3, <1>4, RoundBounds
  <2>3. \A v \in Nodes : G[v] \in 0 .. kDistInf
    BY DEF SP!Potentials
  <2> QED
    BY <1>1, <2>1, <2>2, <2>3
<1>7. \A u \in Nodes : \A v \in DOMAIN weight[u] : e[v] <= d[u] + weight[u][v]
  BY <1>2, <1>5, ImprovedFacts
<1>8. \A v \in Nodes : e[v] = G[v] => d[v] = G[v]
  BY <1>3, <1>4
<1>9. G[source] = 0 /\ \A u \in Nodes : \A v \in DOMAIN weight[u] : G[v] <= G[u] + weight[u][v]
  BY DEF SP!Potentials, SP!IsPotential
<1>10. d[source] = G[source]
  BY <1>1, <1>3, <1>9, RoundTypes
<1> DEFINE p == [v \in Nodes |-> IF d[v] = G[v] THEN G[v] ELSE G[v] + 1]
<1>11. p \in SP!Potentials
  <2>1. p \in [Nodes -> 0 .. kDistInf]
    <3> SUFFICES ASSUME NEW v \in Nodes
                 PROVE  (IF d[v] = G[v] THEN G[v] ELSE G[v] + 1) \in 0 .. kDistInf
      OBVIOUS
    <3> QED
      BY <1>1, <1>6
  <2>2. p[source] = 0
    BY <1>1, <1>9, <1>10
  <2>3. ASSUME NEW u \in Nodes, NEW v \in DOMAIN weight[u] PROVE p[v] <= p[u] + weight[u][v]
    <3>1. /\ v \in Nodes /\ weight[u][v] \in Nat /\ G[u] \in Nat /\ G[v] \in Nat
          /\ G[v] <= G[u] + weight[u][v] /\ e[v] \in Nat
      BY <1>2, <1>6, <1>9
    <3>2. /\ p[u] = IF d[u] = G[u] THEN G[u] ELSE G[u] + 1
          /\ p[v] = IF d[v] = G[v] THEN G[v] ELSE G[v] + 1
      BY <3>1
    <3>3. CASE d[v] = G[v] \/ d[u] # G[u]
      BY <3>1, <3>2, <3>3
    <3>4. CASE d[v] # G[v] /\ d[u] = G[u]
      <4>1. G[v] < e[v]
        BY <1>6, <1>8, <3>1, <3>4
      <4>2. e[v] <= G[u] + weight[u][v]
        BY <1>7, <3>4
      <4> QED
        BY <3>1, <3>2, <3>4, <4>1, <4>2
    <3> QED
      BY <3>3, <3>4
  <2> HIDE DEF p
  <2> QED
    BY <2>1, <2>2, <2>3 DEF SP!Potentials, SP!IsPotential
<1>12. ASSUME NEW v \in Nodes, d[v] # G[v] PROVE FALSE
  <2>1. p[v] = G[v] + 1 /\ p[v] <= G[v] /\ G[v] \in Nat
    BY <1>6, <1>11, <1>12
  <2> QED
    BY <2>1
<1> QED
  BY <1>3, <1>12

(* As many rounds as there are vertices find the greatest potential.         *)
LEMMA RoundsSuffice ==
  ASSUME Types, NEW G \in SP!Potentials,
         \A p \in SP!Potentials : \A v \in Nodes : p[v] <= G[v]
  PROVE  \A v \in Nodes : Distance[v] = G[v]
<1>1. /\ num_nodes \in Nat \ {0} /\ source \in Nodes /\ G[source] = 0
      /\ \A v \in Nodes : G[v] \in 0 .. kDistInf
  BY SSSPAssumption DEF Types, SP!Potentials, SP!IsPotential
<1>2. IsFiniteSet(Nodes) /\ Cardinality(Nodes) = num_nodes
  <2>1. 0 \in Int /\ num_nodes - 1 \in Int /\ ~(0 > num_nodes - 1) /\ num_nodes - 1 - 0 + 1 = num_nodes
    BY <1>1
  <2> QED
    BY <2>1, FS_Interval DEF Nodes
<1> DEFINE S(j) == {v \in Nodes : Round[j][v] = G[v]}
           OK(j) == S(j) = Nodes \/ Cardinality(S(j)) >= j + 1
           F == {j \in 0 .. num_nodes : ~OK(j)}
<1>3. ASSUME NEW j \in 0 .. num_nodes
      PROVE  /\ S(j) \subseteq Nodes /\ IsFiniteSet(S(j)) /\ Cardinality(S(j)) \in Nat
             /\ Cardinality(S(j)) <= num_nodes /\ source \in S(j)
  <2>1. S(j) \in SUBSET Nodes
    OBVIOUS
  <2>2. source \in S(j)
    BY <1>1, RoundTypes
  <2> HIDE DEF S
  <2>3. IsFiniteSet(S(j)) /\ Cardinality(S(j)) <= num_nodes
    BY <1>2, <2>1, FS_Subset
  <2> QED
    BY <2>1, <2>2, <2>3, FS_CardinalityType
<1>4. ASSUME F # {} PROVE FALSE
  <2>1. PICK m \in F : \A l \in F : m <= l
    <3>1. F \subseteq Nat
      BY <1>1
    <3> HIDE DEF F
    <3> QED
      BY <1>4, <3>1, SmallestNumber
  <2>2. m \in 0 .. num_nodes /\ ~OK(m)
    BY <2>1
  <2>3. CASE m = 0
    <3>1. {source} \in SUBSET S(m) /\ Cardinality({source}) = 1
      BY <1>3, <2>2, FS_Singleton
    <3> HIDE DEF S
    <3>2. 1 <= Cardinality(S(m))
      BY <1>3, <2>2, <3>1, FS_Subset
    <3> QED
      BY <1>3, <2>2, <2>3, <3>2
  <2>4. CASE m # 0
    <3>1. PICK k \in 0 .. num_nodes - 1 : m = k + 1
      BY <1>1, <2>2, <2>4
    <3>2. k \in 0 .. num_nodes /\ k + 1 \in 0 .. num_nodes /\ k + 1 # 0 /\ (k + 1) - 1 = k
      BY <1>1
    <3>3. OK(k)
      <4>1. k \notin F
        BY <2>1, <3>1, <3>2
      <4> QED
        BY <3>2, <4>1
    <3>4. S(k) \subseteq S(m)
      <4> SUFFICES ASSUME NEW v \in Nodes, Round[k][v] = G[v] PROVE Round[k + 1][v] = G[v]
        BY <3>1
      <4>1. PICK d \in [Nodes -> 0 .. kDistInf] : d = Round[k]
        BY <3>2, RoundTypes
      <4>2. Round[k + 1] = Improved(d)
        BY <3>2, <4>1, NextRound
      <4>3. Improved(d)[v] <= d[v] /\ Improved(d)[v] \in 0 .. kDistInf
        BY ImprovedFacts
      <4>4. G[v] <= Round[k + 1][v]
        BY <3>2, RoundBounds
      <4>5. d[v] = G[v] /\ G[v] \in 0 .. kDistInf
        BY <1>1, <4>1
      <4> HIDE DEF S, OK, F
      <4> QED
        BY <4>2, <4>3, <4>4, <4>5
    <3>5. CASE S(m) \subseteq S(k)
      <4>1. \A v \in Nodes : Round[k + 1][v] = G[v] => Round[k][v] = G[v]
        BY <3>1, <3>5
      <4>2. \A v \in Nodes : Round[k][v] = G[v]
        BY <4>1, RoundsProgress
      <4>3. S(k) = Nodes
        BY <4>2
      <4> HIDE DEF S
      <4> QED
        BY <2>2, <3>4, <3>5, <4>3
    <3>6. CASE ~(S(m) \subseteq S(k))
      <4> HIDE DEF S
      <4>1. S(k) \in SUBSET S(m) /\ S(k) # S(m) /\ S(k) # Nodes
        BY <1>3, <2>2, <3>4, <3>6
      <4>2. Cardinality(S(k)) <= Cardinality(S(m)) /\ Cardinality(S(m)) # Cardinality(S(k))
        BY <1>3, <2>2, <4>1, FS_Subset
      <4>3. Cardinality(S(k)) >= k + 1
        BY <3>3, <4>1
      <4>4. Cardinality(S(k)) \in Nat /\ Cardinality(S(m)) \in Nat
        BY <1>3, <2>2, <3>2
      <4>5. Cardinality(S(m)) >= m + 1
        BY <3>1, <3>2, <4>2, <4>3, <4>4
      <4> QED
        BY <2>2, <4>5
    <3> QED
      BY <3>5, <3>6
  <2> QED
    BY <2>3, <2>4
<1>5. S(num_nodes) = Nodes
  <2>1. num_nodes \in 0 .. num_nodes
    BY <1>1
  <2>2. F = {}
    BY <1>4
  <2> HIDE DEF S
  <2>3. OK(num_nodes)
    <3> HIDE DEF OK
    <3> QED
      BY <2>1, <2>2
  <2> QED
    BY <1>1, <1>3, <2>1, <2>3
<1> QED
  BY <1>5 DEF Distance

(* What the refinement says of the distances.                                *)
LEMMA RelaxationLink == Spec => []RelaxInv
  BY RelaxesShortestPaths, RelaxationInvariant, PTL DEF ImplementsShortestPaths

(* sssp.cc:40-50: whatever lies below the current bin has the distance that  *)
(* the serial search finds, bucket fusion and stale bins included.           *)
THEOREM LowerBinsSettled == Spec => []LowerBinsAreSettled
<1>1. IInv /\ RelaxInv => LowerBinsAreSettled
  <2> SUFFICES ASSUME IInv, RelaxInv, ~Copying,
                      NEW v \in Nodes, Distance[v] < delta * CurBin
               PROVE  dist[v] = Distance[v]
    BY DEF LowerBinsAreSettled, CurBin
  <2>1. Types /\ AllAbove
    BY DEF IInv, RelaxPhase
  <2>2. dist[source] = 0 /\ \A p \in SP!Potentials : p[v] <= dist[v]
    BY DEF RelaxInv, SP!NeverTooLow
  <2>3. PICK G \in SP!Potentials : \A p \in SP!Potentials : \A x \in Nodes : p[x] <= G[x]
    BY <2>1, GreatestPotential
  <2>4. Distance[v] = G[v]
    BY <2>1, <2>3, RoundsSuffice
  <2>5. num_nodes \in 0 .. num_nodes
    BY SSSPAssumption
  <2>6. dist[v] <= Distance[v]
    BY <2>1, <2>2, <2>5, RoundBounds DEF Distance
  <2>7. dist[v] \in Int /\ Distance[v] \in Int
    BY <2>1, <2>5, RoundTypes DEF Types, Distance
  <2> QED
    BY <2>2, <2>4, <2>6, <2>7
<1> QED
  BY <1>1, SSSPInvariant, RelaxationLink, PTL

(* sssp.cc:163-193: the distances that DeltaStep ends with are those of the  *)
(* serial search that SSSPVerifier runs.                                     *)
THEOREM FinalDistances == Spec => [](AllAt("done") => dist = Distance)
<1>1. IInv /\ RelaxInv => (AllAt("done") => dist = Distance)
  <2> SUFFICES ASSUME IInv, RelaxInv, AllAt("done") PROVE dist = Distance
    OBVIOUS
  <2>1. Types /\ num_nodes \in 0 .. num_nodes
    BY SSSPAssumption DEF IInv
  <2>2. Distance \in [Nodes -> 0 .. kDistInf] /\ dist \in [Nodes -> 0 .. kDistInf]
    BY <2>1, RoundTypes DEF Distance, Types
  <2>3. PICK G \in SP!Potentials : \A p \in SP!Potentials : \A x \in Nodes : p[x] <= G[x]
    BY <2>1, GreatestPotential
  <2>4. \A v \in Nodes : Distance[v] = G[v]
    BY <2>1, <2>3, RoundsSuffice
  <2>5. \A v \in Nodes : G[v] <= dist[v]
    BY DEF RelaxInv, SP!NeverTooLow
  <2>6. \A v \in Nodes : dist[v] <= G[v]
    <3>1. ASSUME NEW u \in Nodes, NEW x \in DOMAIN weight[u] PROVE dist[x] <= dist[u] + weight[u][x]
      <4>1. x \in Nodes /\ weight[u][x] \in Nat /\ dist[u] \in 0 .. kDistInf /\ dist[x] \in 0 .. kDistInf
        BY <2>1, <2>2, WeightFacts
      <4>2. ~(dist[u] + weight[u][x] < dist[x])
        BY DEF RelaxInv, SP!Tense
      <4> QED
        BY <4>1, <4>2
    <3>2. dist[source] = 0
      BY DEF RelaxInv
    <3>3. dist \in SP!Potentials
      BY <2>2, <3>1, <3>2 DEF SP!Potentials, SP!IsPotential
    <3> QED
      BY <2>3, <3>3
  <2>7. \A v \in Nodes : dist[v] = Distance[v]
    <3> SUFFICES ASSUME NEW v \in Nodes PROVE dist[v] = Distance[v]
      OBVIOUS
    <3>1. dist[v] \in Int /\ G[v] = Distance[v] /\ Distance[v] \in Int
      BY <2>2, <2>4
    <3> QED
      BY <2>5, <2>6, <3>1
  <2> QED
    BY <2>2, <2>7
<1> QED
  BY <1>1, SSSPInvariant, RelaxationLink, PTL

=================================================================================
