------------------------------- MODULE ForkJoin -------------------------------
(***************************************************************************)
(* What a parallel region promises to the algorithm that opens it: a task    *)
(* is handed to the team, every worker runs that task exactly once, and the  *)
(* region is over only when all of them have finished it.                    *)
(*                                                                          *)
(* ThreadPool::Run of src/src/bfs_pthread.cc implements it; it is also what  *)
(* RunParallel of src/bfs.cc gets from the Caladan runtime and what the      *)
(* OpenMP sources get from "#pragma omp parallel".  The algorithm modules    *)
(* (DOBFS) build their regions on it.                                        *)
(***************************************************************************)

CONSTANTS
  Workers,
  Tasks,
  NoTask

VARIABLES
  job,        \* the task of the open region, NoTask between regions
  todo,       \* the workers that have not started it
  doing       \* what every worker is running

vars == <<job, todo, doing>>

Init ==
  /\ job = NoTask
  /\ todo = {}
  /\ doing = [w \in Workers |-> NoTask]

Fork(f) ==
  /\ job = NoTask
  /\ job' = f
  /\ todo' = Workers
  /\ UNCHANGED doing

Begin(w) ==
  /\ w \in todo
  /\ todo' = todo \ {w}
  /\ doing' = [doing EXCEPT ![w] = job]
  /\ UNCHANGED job

End(w) ==
  /\ doing[w] # NoTask
  /\ doing' = [doing EXCEPT ![w] = NoTask]
  /\ UNCHANGED <<job, todo>>

Join ==
  /\ job # NoTask
  /\ todo = {}
  /\ \A w \in Workers : doing[w] = NoTask
  /\ job' = NoTask
  /\ UNCHANGED <<todo, doing>>

Next ==
  \/ \E f \in Tasks : Fork(f)
  \/ \E w \in Workers : Begin(w) \/ End(w)
  \/ Join

Spec == Init /\ [][Next]_vars

================================================================================
