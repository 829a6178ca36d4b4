------------------------------- MODULE GraphFile -------------------------------
(***************************************************************************)
(* Graphs in files: src/src/reader.h and src/src/writer.h.                   *)
(*                                                                          *)
(* A text file is a sequence of lines.  A line is a comment (of any kind the *)
(* format has) or a row, the sequence of its numbers.  A serialized graph    *)
(* is the sequence of the values that are written one after the other.       *)
(* An edge is <<u, v>>, or <<u, v, w>> if the format has weights.            *)
(***************************************************************************)
EXTENDS Integers, Sequences, FiniteSets, SequencesExt

Comment == [kind |-> "comment", fields |-> <<>>]
Row(fields) == [kind |-> "row", fields |-> fields]

IsRow(line) == line.kind = "row"
Rows(file) == SelectSeq(file, IsRow)

(* Numbers taken n at a time, as long as there are n.                        *)
Groups(numbers, n) ==
  [k \in 1 .. Len(numbers) \div n |-> SubSeq(numbers, n * (k - 1) + 1, n * k)]

(* in >> reads numbers across lines and stops at what is not a number.       *)
LeadingNumbers(file) ==
  LET rows == {n \in 0 .. Len(file) : \A k \in 1 .. n : IsRow(file[k])}
      last == CHOOSE n \in rows : \A m \in rows : m <= n
  IN  FlattenSeq([k \in 1 .. last |-> file[k].fields])

ReadInEL(file) == Groups(LeadingNumbers(file), 2)
ReadInWEL(file) == Groups(LeadingNumbers(file), 3)

(* Vertices of the other formats are numbered from 1.                        *)
FromOne(e) == [k \in DOMAIN e |-> IF k <= 2 THEN e[k] - 1 ELSE e[k]]

(* Rows are the lines that begin with "a"; all others are ignored.           *)
ReadInGR(file) == [k \in DOMAIN Rows(file) |-> FromOne(Rows(file)[k].fields)]

(* The first row is the header: vertices, edges and, perhaps, fmt.  A row    *)
(* that is empty belongs to a vertex without neighbours; in place of one     *)
(* that is missing, line still holds the last that was read.  Rows end in a  *)
(* blank, as in test/graphs: without it the library's >> std::ws fails at    *)
(* the end of the row, and its last neighbour is lost.                       *)
ReadInMetis(file) ==
  LET header == Rows(file)[1].fields
      read_weights == Len(header) >= 3 /\ header[3] = 1
      line(u) == Rows(file)[IF u + 2 > Len(Rows(file)) THEN Len(Rows(file)) ELSE u + 2]
      list(u) == Groups(line(u).fields, IF read_weights THEN 2 ELSE 1)
  IN  FlattenSeq([n \in 1 .. header[1] |->
                    [k \in DOMAIN list(n - 1) |-> FromOne(<<n>> \o list(n - 1)[k])]])

(* banner holds what the first line says: pattern has no weights, and every  *)
(* entry of a symmetric matrix is an edge both ways, even on the diagonal.   *)
(* The first row has the sizes, which must be equal; empty rows are skipped. *)
ReadInMTX(banner, file) ==
  LET rows == SelectSeq(Rows(file), LAMBDA line : line.fields # <<>>)
      entry(k) == FromOne(SubSeq(rows[k + 1].fields, 1, IF banner.field = "pattern" THEN 2 ELSE 3))
      back(e) == <<e[2], e[1]>> \o SubSeq(e, 3, Len(e))
  IN  FlattenSeq([k \in 1 .. Len(rows) - 1 |->
                    IF banner.symmetry = "symmetric" THEN <<entry(k), back(entry(k))>>
                    ELSE <<entry(k)>>])

(* ReadFile looks at the suffix.                                             *)
ReadFile(suffix, banner, file) ==
  CASE suffix = ".el" -> ReadInEL(file)
    [] suffix = ".wel" -> ReadInWEL(file)
    [] suffix = ".gr" -> ReadInGR(file)
    [] suffix = ".graph" -> ReadInMetis(file)
    [] suffix = ".mtx" -> ReadInMTX(banner, file)

--------------------------------------------------------------------------------
(* A graph has the directions "out" and, if it is directed, "in"; each has   *)
(* the arrays index (of num_nodes + 1 offsets) and neighs, from 0 on.        *)

directed(g) == "in" \in DOMAIN g
num_nodes(g) == Cardinality(DOMAIN g["out"].index) - 1

num_edges(g) ==
  LET cells == g["out"].index[num_nodes(g)] - g["out"].index[0]
  IN  IF directed(g) THEN cells ELSE cells \div 2

num_edges_directed(g) == IF directed(g) THEN num_edges(g) ELSE 2 * num_edges(g)

VertexOffsets(csr) == [n \in DOMAIN csr.index |-> csr.index[n] - csr.index[0]]

(* length values of an array, from index first on, as they are in memory.    *)
Values(array, first, length) == [k \in 1 .. length |-> array[first + k - 1]]

(* Faulty variant: the number of edges, not of the cells they take.          *)
edges_to_write_once(g) == num_edges(g)

edges_to_write(g) == num_edges_directed(g)

WriteSerializedGraph(g) ==
  LET arrays(csr) == Values(VertexOffsets(csr), 0, num_nodes(g) + 1)
                       \o Values(csr.neighs, csr.index[0], edges_to_write(g))
  IN  <<IF directed(g) THEN 1 ELSE 0, edges_to_write(g), num_nodes(g)>>
        \o arrays(g["out"])
        \o IF directed(g) THEN arrays(g["in"]) ELSE <<>>

(* Numbers are read from the places where the sizes say they are; an index   *)
(* is made from the offsets and the new array.                               *)
ReadSerializedGraph(file) ==
  LET cells == file[2]
      nodes == file[3]
      csr(at) == [index |-> [n \in 0 .. nodes |-> file[at + n]],
                  neighs |-> [i \in 0 .. cells - 1 |-> file[at + nodes + 1 + i]]]
  IN  [direction \in IF file[1] = 1 THEN {"out", "in"} ELSE {"out"} |->
         IF direction = "out" THEN csr(4) ELSE csr(4 + nodes + 1 + cells)]

(* A row for every cell of every list: its vertex, or its vertex and weight. *)
Numbers(cell, weighted) == IF weighted THEN cell ELSE <<cell>>

WriteEL(g, weighted) ==
  FlattenSeq([n \in 1 .. num_nodes(g) |->
                LET csr == g["out"] IN
                [k \in 1 .. csr.index[n] - csr.index[n - 1] |->
                   Row(<<n - 1>> \o Numbers(csr.neighs[csr.index[n - 1] + k - 1], weighted))]])

================================================================================
