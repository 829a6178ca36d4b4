------------------------------ MODULE RunParallel ------------------------------
(***************************************************************************)
(* The fork-join of the Caladan BFS: RunParallel of src/bfs.cc.  Nothing     *)
(* persists between two calls: the wait group lives on the caller's stack,   *)
(* the threads of a call are spawned by it, and the caller is worker 0.      *)
(*                                                                          *)
(* rt::Spawn and rt::WaitGroup are Caladan's, each call of theirs a step.    *)
(***************************************************************************)
EXTENDS Integers, FiniteSets

CONSTANTS nthreads, Tasks, NoTask

ASSUME RunParallelAssumption == nthreads \in Nat \ {0} /\ NoTask \notin Tasks

Workers == 0 .. nthreads - 1
Spawned == Workers \ {0}

VARIABLES
  pc,           \* of the caller: "idle", "spawn", "wait"
  fn,           \* what it was called with, NoTask between calls
  t,            \* the next thread to spawn
  wg,           \* the count of the wait group
  thread,       \* of every spawned worker: "none", "ready", "fn", "done_call"
  running       \* the task every worker is in

vars == <<pc, fn, t, wg, thread, running>>

Init ==
  /\ pc = "idle"
  /\ fn = NoTask
  /\ t = 1
  /\ wg = 0
  /\ thread = [w \in Spawned |-> "none"]
  /\ running = [w \in Workers |-> NoTask]

--------------------------------------------------------------------------------
(* The caller.                                                               *)

(* Faulty variant: the group counts one thread too few.                      *)
CallOneShort(f) ==
  /\ pc = "idle"
  /\ fn' = f
  /\ wg' = IF nthreads > 1 THEN nthreads - 2 ELSE 0
  /\ t' = 1
  /\ pc' = "spawn"
  /\ UNCHANGED <<thread, running>>

(* Faulty variant: the group counts the caller, which never calls Done.      *)
CallCountsCaller(f) ==
  /\ pc = "idle"
  /\ fn' = f
  /\ wg' = nthreads
  /\ t' = 1
  /\ pc' = "spawn"
  /\ UNCHANGED <<thread, running>>

(* A team of one spawns nothing and waits for nobody.                        *)
Call(f) ==
  /\ pc = "idle"
  /\ fn' = f
  /\ wg' = nthreads - 1
  /\ t' = 1
  /\ pc' = "spawn"
  /\ UNCHANGED <<thread, running>>

Spawn ==
  /\ pc = "spawn" /\ t < nthreads
  /\ thread' = [thread EXCEPT ![t] = "ready"]
  /\ t' = t + 1
  /\ UNCHANGED <<pc, fn, wg, running>>

BeginInline ==
  /\ pc = "spawn" /\ t = nthreads
  /\ running' = [running EXCEPT ![0] = fn]
  /\ pc' = "wait"
  /\ UNCHANGED <<fn, t, wg, thread>>

EndInline ==
  /\ pc = "wait" /\ running[0] # NoTask
  /\ running' = [running EXCEPT ![0] = NoTask]
  /\ UNCHANGED <<pc, fn, t, wg, thread>>

(* wg.Wait() returns, and RunParallel.                                       *)
Return ==
  /\ pc = "wait" /\ running[0] = NoTask /\ wg = 0
  /\ pc' = "idle"
  /\ fn' = NoTask
  /\ UNCHANGED <<t, wg, thread, running>>

--------------------------------------------------------------------------------
(* A spawned thread.                                                         *)

Begin(w) ==
  /\ thread[w] = "ready"
  /\ running' = [running EXCEPT ![w] = fn]
  /\ thread' = [thread EXCEPT ![w] = "fn"]
  /\ UNCHANGED <<pc, fn, t, wg>>

End(w) ==
  /\ thread[w] = "fn"
  /\ running' = [running EXCEPT ![w] = NoTask]
  /\ thread' = [thread EXCEPT ![w] = "done_call"]
  /\ UNCHANGED <<pc, fn, t, wg>>

(* wg.Done(), after which the thread ends.                                   *)
Done(w) ==
  /\ thread[w] = "done_call"
  /\ wg' = wg - 1
  /\ thread' = [thread EXCEPT ![w] = "none"]
  /\ UNCHANGED <<pc, fn, t, running>>

--------------------------------------------------------------------------------
CallerStep == Spawn \/ BeginInline \/ EndInline \/ Return

ThreadStep(w) == Begin(w) \/ End(w) \/ Done(w)

Next ==
  \/ CallerStep
  \/ \E f \in Tasks : Call(f)
  \/ \E w \in Spawned : ThreadStep(w)

Spec == Init /\ [][Next]_vars

--------------------------------------------------------------------------------
(* The workers of the call that have not begun the task.                     *)
Todo ==
  CASE pc = "idle" -> {}
    [] pc = "spawn" -> {0} \cup {w \in Spawned : w >= t \/ thread[w] = "ready"}
    [] OTHER -> {w \in Spawned : thread[w] = "ready"}

FJ == INSTANCE ForkJoin WITH job <- fn, todo <- Todo, doing <- running

(* src/bfs.cc:74-82: equivalent to the pool's Run: every worker runs the     *)
(* task of the call exactly once, and the call ends when all have.           *)
ImplementsForkJoin == FJ!Spec

================================================================================
