------------------------------- MODULE MakeGraph -------------------------------
(***************************************************************************)
(* From the command line to a graph and what is done with it: MakeGraph of   *)
(* src/src/builder.h reads a file (GraphFile) or has a list generated        *)
(* (Generator), has weights inserted where there are none, and builds the    *)
(* graph (Builder), which tc counts triangles on (TriangleCount) and the     *)
(* converter writes to a file (GraphFile again).                             *)
(***************************************************************************)
EXTENDS Builder, GraphFile, Generator, TriangleCount

CONSTANTS
  Requests          \* sets of pairs of an input for Builder and a source, which is
                    \* a text file (suffix, banner, lines) or a job for Generator

ASSUME MakeGraphAssumption == \A R \in Requests : \A r \in R : IsInput(r[1])

VARIABLES stage     \* the source, then what is done with the list of edges

mg_vars == <<vars, gen_vars, stage>>

Stage(name) == [name |-> name]

MGInit ==
  /\ \E R \in Requests : \E r \in R : StartFrom(r[1]) /\ stage = r[2]
  /\ GenInit

(* Weights are inserted if the program wants them and the list has none; in  *)
(* an unweighted program InsertWeights does nothing.                         *)
UseList(needs_weights) ==
  IF input.weighted /\ needs_weights
  THEN stage' = Stage("insert weights") /\ Begin([kind |-> "weights", length |-> Len(el')])
  ELSE /\ stage' = Stage("build")
       /\ job' = NoJob /\ items' = <<>> /\ blocks' = {} /\ rng' = [w \in GenWorkers |-> Unseeded]

(* An edge of the program's type: a missing weight is 1, and in an           *)
(* unweighted program a weight is dropped.                                   *)
ToEdge(e) == IF ~input.weighted THEN SubSeq(e, 1, 2) ELSE IF Len(e) = 2 THEN e \o <<1>> ELSE e

(* input.el is what the file lists: it stays as it is.                       *)
ReadEdges ==
  /\ stage.name = "file"
  /\ LET list == ReadFile(stage.suffix, stage.banner, stage.lines)
     IN  /\ el' = [k \in DOMAIN list |-> ToEdge(list[k])]
         /\ UseList(\A k \in DOMAIN list : Len(list[k]) = 2)
  /\ UNCHANGED <<args, pc, building, untaken, my, in_place_vars>>

GenerateEL ==
  /\ stage.name = "scale"
  /\ stage' = Stage("generate") /\ Begin(stage.job)
  /\ UNCHANGED vars

FillBlock(w) ==
  /\ stage.name \in {"generate", "insert weights"}
  /\ Fill(w)
  /\ UNCHANGED <<vars, stage>>

UseGenerated ==
  /\ stage.name = "generate" /\ Made
  /\ el' = [k \in DOMAIN Result |-> ToEdge(Result[k])]
  /\ input' = [input EXCEPT !.el = el']
  /\ UseList(TRUE)
  /\ UNCHANGED <<pc, building, untaken, my, in_place_vars>>

UseWeights ==
  /\ stage.name = "insert weights" /\ Made
  /\ el' = [k \in DOMAIN el |-> <<el[k][1], el[k][2], items[k]>>]
  /\ input' = [input EXCEPT !.el = el']
  /\ UseList(FALSE)
  /\ UNCHANGED <<pc, building, untaken, my, in_place_vars>>

MakeGraphFromEL ==
  /\ stage.name = "build"
  /\ Next
  /\ UNCHANGED <<gen_vars, stage>>

MGNext ==
  \/ ReadEdges
  \/ GenerateEL
  \/ \E w \in GenWorkers : FillBlock(w)
  \/ UseGenerated
  \/ UseWeights
  \/ MakeGraphFromEL

MGSpec == MGInit /\ [][MGNext]_mg_vars

--------------------------------------------------------------------------------
(* Sets of three vertices that are all adjacent.                             *)
Triangles ==
  LET E == {e \in ToSet(input.el) : e[1] # e[2]}
      adjacent(u, v) == \E e \in E : {e[1], e[2]} = {u, v}
  IN  {T \in SUBSET Nodes : Cardinality(T) = 3 /\ \A u, v \in T : u # v => adjacent(u, v)}

(* tc.cc:30-43,52-71: every triangle is counted once, however the graph was  *)
(* made and relabelled or not, the verifier agrees, and no scan of a list    *)
(* leaves it although it has no bound of its own.                            *)
CountIsExact ==
  pc = "done" /\ symmetrize_ /\ ~input.weighted =>
    /\ OrderedCount(graph["out"]) = Cardinality(Triangles)
    /\ TCVerifier(graph["out"], Cardinality(Triangles))
    /\ ScansStayInLists(graph["out"])

(* converter.cc: a graph that is written as a serialized graph is read back  *)
(* as it was, with all its arrays; and as an edge list it lists its edges.   *)
FilesKeepTheGraph ==
  pc = "done" =>
    LET text == WriteEL(graph, input.weighted)
        list == IF input.weighted THEN ReadInWEL(text) ELSE ReadInEL(text)
        own(n) == SelectSeq(list, LAMBDA e : e[1] = n)
    IN  /\ ReadSerializedGraph(WriteSerializedGraph(graph)) = graph
        /\ \A n \in Nodes :
             [k \in DOMAIN own(n) |-> Tail(own(n)[k])]
               = [k \in DOMAIN List(graph["out"], n) |-> Numbers(List(graph["out"], n)[k], input.weighted)]

================================================================================
