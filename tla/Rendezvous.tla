------------------------------ MODULE Rendezvous ------------------------------
(***************************************************************************)
(* What a reusable barrier promises to a fixed team of threads: a thread    *)
(* that arrives stays inside until every thread of the team is inside, and  *)
(* then all of them are let go together.  The team may arrive again at      *)
(* once: there is no step between two episodes.                             *)
(*                                                                          *)
(* SpinBarrier (src/src/bfs_pthread.cc) implements this specification.      *)
(***************************************************************************)

CONSTANT Threads

VARIABLE inside     \* the threads that arrived and are not released yet

Init == inside = {}

Arrive(t) == t \notin inside /\ inside' = inside \cup {t}

Release == inside = Threads /\ inside' = {}

Next == Release \/ \E t \in Threads : Arrive(t)

Spec == Init /\ [][Next]_inside

(* A full team is released; no thread is obliged to arrive.                 *)
FairSpec == Spec /\ WF_inside(Release)

================================================================================
