------------------------------ MODULE MCMakeGraph ------------------------------
(* MakeGraph for TLC: the random numbers, and what graphs are made from.     *)
EXTENDS MakeGraph

RandomNumber(seed, k) == ((seed % 97) * 7919 + (k + 1) * 4729 + (seed % 97) * k * 31) % 301
Swap(n) == [i \in 0 .. n - 1 |-> (3 * i + 1) % n]

Options(weighted, in_place, relabel) ==
  {o \in [symmetrize_ : BOOLEAN, in_place_ : in_place, weighted : {weighted}, relabel : relabel] :
     o.relabel => o.symmetrize_}

Input(list, o) ==
  [el |-> list, symmetrize_ |-> o.symmetrize_, in_place_ |-> o.in_place_,
   weighted |-> o.weighted, relabel |-> o.relabel]

File(suffix, banner, lines) ==
  [name |-> "file", suffix |-> suffix, banner |-> banner, lines |-> lines]

NoBanner == [field |-> "none", symmetry |-> "none"]
Plus(e) == <<e[1] + 1, e[2] + 1>> \o SubSeq(e, 3, Len(e))

(* The files of every format that list the edges of l.                       *)
PlainFile(l) ==
  File(IF \E k \in DOMAIN l : Len(l[k]) = 3 THEN ".wel" ELSE ".el", NoBanner,
       [k \in DOMAIN l |-> Row(l[k])])

GrFile(l) ==
  File(".gr", NoBanner,
       <<Comment>> \o [k \in DOMAIN l |-> Row(Plus(l[k]) \o IF Len(l[k]) = 3 THEN <<>> ELSE <<7>>)])

MetisFile(l) ==
  LET weights == \E k \in DOMAIN l : Len(l[k]) = 3
      own(u) == SelectSeq(l, LAMBDA e : e[1] = u)
      row(u) == Row(FlattenSeq([k \in DOMAIN own(u) |-> Tail(Plus(own(u)[k]))]))
  IN  File(".graph", NoBanner,
           <<Comment, Row(<<3, Len(l)>> \o IF weights THEN <<1>> ELSE <<>>)>>
             \o <<row(0), Comment, row(1), row(2)>>)

MtxFile(l, symmetry) ==
  File(".mtx", [symmetry |-> symmetry,
                field |-> IF \E k \in DOMAIN l : Len(l[k]) = 3 THEN "integer" ELSE "pattern"],
       <<Comment, Row(<<3, 3, Len(l)>>)>> \o [k \in DOMAIN l |-> Row(Plus(l[k]))] \o <<Row(<<>>)>>)

BothWays(l) == l \o [k \in DOMAIN l |-> <<l[k][2], l[k][1]>> \o SubSeq(l[k], 3, Len(l[k]))]

OtherFiles(l, o) ==
  {<<Input(l, o), GrFile(l)>>, <<Input(l, o), MetisFile(l)>>,
   <<Input(l, o), MtxFile(l, "general")>>, <<Input(BothWays(l), o), MtxFile(l, "symmetric")>>}

Lists(V, maxlen) == SeqOf(V \X V, maxlen)
WeightedLists(V, maxlen) == SeqOf(V \X V \X {1, 2}, maxlen)

(* Every set of edges on four vertices without loops, once.                  *)
NoLoops == SelectSeq([k \in 1 .. 16 |-> <<(k - 1) \div 4, (k - 1) % 4>>], LAMBDA e : e[1] # e[2])
EdgeSets == {SelectSeq(NoLoops, LAMBDA e : e \in E) : E \in SUBSET ToSet(NoLoops)}

Plain == Options(FALSE, {FALSE}, {FALSE})
Weighted == Options(TRUE, {FALSE}, {FALSE})

(* Every list of up to three edges on three vertices, loops and duplicates   *)
(* included, and for the build in place every set of edges on four vertices; *)
(* every weighted list of two edges on three or three edges on two vertices; *)
(* every list without weights for a program that wants them; and every list  *)
(* of two edges, or one with a weight, in the other formats.                 *)
FromFiles == {
  {<<Input(l, o), PlainFile(l)>> : l \in Lists(0 .. 2, 3), o \in Options(FALSE, BOOLEAN, BOOLEAN)},
  {<<Input(l, o), PlainFile(l)>> : l \in EdgeSets, o \in Options(FALSE, {TRUE}, {FALSE})},
  {<<Input(l, o), PlainFile(l)>> : l \in WeightedLists(0 .. 2, 2), o \in Weighted},
  {<<Input(l, o), PlainFile(l)>> : l \in WeightedLists(0 .. 1, 3), o \in Weighted},
  {<<Input([k \in DOMAIN l |-> Append(l[k], 1)], o), PlainFile(l)>> :
     l \in Lists(0 .. 2, 2), o \in Weighted},
  UNION {OtherFiles(l, o) : l \in Lists(0 .. 2, 2), o \in Plain},
  UNION {OtherFiles(l, o) : l \in WeightedLists(0 .. 2, 1), o \in Weighted}}

(* ParseArgs symmetrizes whatever is generated.                              *)
FromGenerator == {
  {<<Input(<<>>, o), [name |-> "scale",
                      job |-> [kind |-> k, scale |-> 2, num_nodes |-> 4, length |-> 4,
                               left_first |-> f]]>> :
     k \in {"uniform", "rmat"}, f \in BOOLEAN,
     o \in {p \in Options(FALSE, BOOLEAN, BOOLEAN) \cup Weighted : p.symmetrize_}}}

MCRequests == FromFiles \cup FromGenerator

================================================================================
