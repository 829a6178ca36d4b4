---------------------------------- MODULE CCSV ----------------------------------
(***************************************************************************)
(* Connected components by Shiloach and Vishkin: src/src/cc_sv.cc.  Unlike   *)
(* Afforest it hooks with a plain store after a separate test, so a hook can *)
(* overwrite another one; the flag change sends everyone round again.        *)
(*                                                                          *)
(* Both regions use OpenMP's static schedule, which gives a worker a fixed   *)
(* block of vertices; here it is any function from vertices to workers.      *)
(***************************************************************************)
EXTENDS Labelling

CONSTANT Workers

ASSUME WorkersAssumption == IsFiniteSet(Workers) /\ Workers # {}

VARIABLES
  change,
  pc,           \* the region main is in: "hook", "compress", "done"
  owner,        \* the static schedule
  todo,         \* the vertices that no worker has begun in this region
  my            \* the local variables of every worker

vars == <<graph, comp, change, pc, owner, todo, my>>

NewWorker == [pc |-> "vertex", edges |-> {}, n |-> 0, v |-> 0, comp_u |-> 0, comp_v |-> 0]

Init ==
  /\ InitLabels
  /\ change = FALSE
  /\ pc = "hook"
  /\ owner \in [Nodes -> Workers]
  /\ todo = Nodes
  /\ my = [w \in Workers |-> NewWorker]

(* The vertex a worker is to look at next: the first one left of its block.  *)
Takes(w, u) == u \in todo /\ owner[u] = w /\ \A n \in todo : owner[n] = w => u <= n

Idle(w) == my[w].pc = "vertex" /\ my[w].edges = {}

--------------------------------------------------------------------------------
(* The hooking region.                                                       *)

TakeVertex(w) ==
  /\ pc = "hook" /\ Idle(w)
  /\ \E u \in Nodes :
       /\ Takes(w, u)
       /\ todo' = todo \ {u}
       /\ my' = [my EXCEPT ![w].edges = {<<u, v>> : v \in out_neigh[u]}]
  /\ UNCHANGED <<comp, change>>

ReadCompU(w) ==
  /\ my[w].pc = "vertex"
  /\ \E e \in my[w].edges :
       my' = [my EXCEPT ![w].edges = @ \ {e}, ![w].v = e[2], ![w].comp_u = comp[e[1]],
                        ![w].pc = "readv"]
  /\ UNCHANGED <<comp, change, todo>>

EdgeDone(w) == [NewWorker EXCEPT !.edges = my[w].edges]

ReadCompV(w) ==
  /\ my[w].pc = "readv"
  /\ LET comp_v == comp[my[w].v] IN
       my' = IF comp_v = my[w].comp_u
             THEN [my EXCEPT ![w] = EdgeDone(w)]
             ELSE [my EXCEPT ![w].comp_v = comp_v, ![w].v = 0, ![w].pc = "test"]
  /\ UNCHANGED <<comp, change, todo>>

HighComp(w) == IF my[w].comp_u > my[w].comp_v THEN my[w].comp_u ELSE my[w].comp_v

LowComp(w) == my[w].comp_u + (my[w].comp_v - HighComp(w))

(* Only a vertex that is its own label is hooked.                            *)
TestRoot(w) ==
  /\ my[w].pc = "test"
  /\ my' = IF comp[HighComp(w)] = HighComp(w)
           THEN [my EXCEPT ![w].pc = "hook"]
           ELSE [my EXCEPT ![w] = EdgeDone(w)]
  /\ UNCHANGED <<comp, change, todo>>

(* Faulty variant: the hook is not reported.                                 *)
HookUnreported(w) ==
  /\ my[w].pc = "hook"
  /\ comp' = [comp EXCEPT ![HighComp(w)] = LowComp(w)]
  /\ my' = [my EXCEPT ![w] = EdgeDone(w)]
  /\ UNCHANGED <<change, todo>>

(* The store, whatever has become of the label that was tested.              *)
Hook(w) ==
  /\ my[w].pc = "hook"
  /\ comp' = [comp EXCEPT ![HighComp(w)] = LowComp(w)]
  /\ change' = TRUE
  /\ my' = [my EXCEPT ![w] = EdgeDone(w)]
  /\ UNCHANGED todo

--------------------------------------------------------------------------------
(* The compressing region.                                                   *)

(* The loop test; comp[n] is written by the owner of n only.                 *)
CompressTest(w) ==
  /\ pc = "compress" /\ Idle(w)
  /\ \E n \in Nodes :
       /\ Takes(w, n)
       /\ IF comp[n] = comp[comp[n]]
          THEN todo' = todo \ {n} /\ UNCHANGED my
          ELSE /\ my' = [my EXCEPT ![w].n = n, ![w].v = comp[comp[n]], ![w].pc = "shorten"]
               /\ UNCHANGED todo
  /\ UNCHANGED <<comp, change>>

(* The assignment reads comp[comp[n]] again, or uses what the test has read. *)
CompressStore(w) ==
  /\ my[w].pc = "shorten"
  /\ \E label \in {my[w].v, comp[comp[my[w].n]]} : comp' = [comp EXCEPT ![my[w].n] = label]
  /\ my' = [my EXCEPT ![w] = NewWorker]
  /\ UNCHANGED <<change, todo>>

--------------------------------------------------------------------------------
(* ShiloachVishkin.                                                          *)

Joined(region) == pc = region /\ todo = {} /\ \A w \in Workers : Idle(w)

(* Faulty variant: the flag is cleared after the hooks, not before them.     *)
EndHookingClears ==
  /\ Joined("hook")
  /\ change' = FALSE
  /\ pc' = "compress" /\ todo' = Nodes
  /\ UNCHANGED <<comp, my>>

EndHooking ==
  /\ Joined("hook")
  /\ pc' = "compress" /\ todo' = Nodes
  /\ UNCHANGED <<comp, change, my>>

(* Faulty variant: the flag is not cleared.                                  *)
NextIterationUncleared ==
  /\ Joined("compress") /\ change
  /\ pc' = "hook" /\ todo' = Nodes
  /\ UNCHANGED <<comp, change, my>>

(* while (change), which clears the flag.                                    *)
NextIteration ==
  /\ Joined("compress") /\ change
  /\ change' = FALSE
  /\ pc' = "hook" /\ todo' = Nodes
  /\ UNCHANGED <<comp, my>>

Return ==
  /\ Joined("compress") /\ ~change
  /\ pc' = "done"
  /\ UNCHANGED <<comp, change, todo, my>>

--------------------------------------------------------------------------------
MainStep ==
  /\ UNCHANGED <<graph, owner>>
  /\ EndHooking \/ NextIteration \/ Return

WorkerStep(w) ==
  /\ UNCHANGED <<graph, owner, pc>>
  /\ \/ TakeVertex(w)
     \/ ReadCompU(w)
     \/ ReadCompV(w)
     \/ TestRoot(w)
     \/ Hook(w)
     \/ CompressTest(w)
     \/ CompressStore(w)

Next == MainStep \/ \E w \in Workers : WorkerStep(w)

Spec == Init /\ [][Next]_vars

FairSpec == Spec /\ WF_vars(MainStep) /\ \A w \in Workers : WF_vars(WorkerStep(w))

--------------------------------------------------------------------------------
(* cc_sv.cc:57,68-71: hooks overwrite hooks, but when no thread has hooked   *)
(* anything every edge already lies within one label.                        *)
StoppingIsSound ==
  Joined("hook") /\ ~change => \A u, v \in Nodes : Adjacent(u, v) => comp[u] = comp[v]

(* cc_sv.cc:104-148: the labels name the components.                         *)
ResultVerifies == pc = "done" => IsComponentLabelling

(* The iterations come to an end.                                            *)
Terminates == <>(pc = "done")

================================================================================
