----------------------------- MODULE TriangleCount -----------------------------
(***************************************************************************)
(* Counting the triangles of an undirected graph: src/src/tc.cc, on the      *)
(* arrays the builder made, csr.index and csr.neighs.  The threads only read *)
(* the graph and add up, so the count is a function of it.                   *)
(***************************************************************************)
EXTENDS Integers, FiniteSets, FiniteSetsExt, Functions

LOCAL Vertices(csr) == 0 .. Cardinality(DOMAIN csr.index) - 2
LOCAL Cells(csr, n) == csr.index[n] .. csr.index[n + 1] - 1

(* What a loop over the list of n visits before it breaks at an id above     *)
(* bound.                                                                    *)
Visits(csr, n, bound) ==
  {i \in Cells(csr, n) : \A j \in csr.index[n] .. i : csr.neighs[j] <= bound}

(* Faulty variant: the scan goes on to the last id below w.                  *)
AdvanceBelow(csr, it, w) ==
  Max({it} \cup {i \in it .. Cardinality(DOMAIN csr.neighs) - 1 : csr.neighs[i] < w})

(* The inner loop: it moves on while its cell holds less than w, which       *)
(* nothing but the contents of memory stops.                                 *)
Advance(csr, it, w) ==
  Min({i \in it .. Cardinality(DOMAIN csr.neighs) - 1 : csr.neighs[i] >= w}
        \cup {Cardinality(DOMAIN csr.neighs)})

(* Where it is, from the start of v's list on, after every w that u and the  *)
(* break at v leave.                                                         *)
Scan(csr, u, v) ==
  LET It[i \in csr.index[u] - 1 .. csr.index[u + 1] - 1] ==
        IF i < csr.index[u] THEN csr.index[v] ELSE Advance(csr, It[i - 1], csr.neighs[i])
  IN  [i \in Visits(csr, u, v) |-> It[i]]

(* The pairs <<u, v>> whose lists are intersected.                           *)
Pairs(csr) ==
  UNION {{<<u, csr.neighs[i]>> : i \in Visits(csr, u, u)} : u \in Vertices(csr)}

OrderedCount(csr) ==
  LET hits(u, v) == LET it == Scan(csr, u, v) IN {i \in DOMAIN it : csr.neighs[it[i]] = csr.neighs[i]}
  IN  MapThenSumSet(LAMBDA p : Cardinality(hits(p[1], p[2])), Pairs(csr))

(* Every scan ends on a cell of the list that it is a scan of.               *)
ScansStayInLists(csr) ==
  \A p \in Pairs(csr) : \A i \in DOMAIN Scan(csr, p[1], p[2]) :
    Scan(csr, p[1], p[2])[i] \in Cells(csr, p[2])

(* The serial count by std::set_intersection, six times every triangle.      *)
TCVerifier(csr, test_total) ==
  LET N(u) == {csr.neighs[i] : i \in Cells(csr, u)}
      edges == {e \in Vertices(csr) \X Vertices(csr) : e[2] \in N(e[1])}
  IN  MapThenSumSet(LAMBDA e : Cardinality(N(e[1]) \cap N(e[2])), edges) \div 6 = test_total

================================================================================
