------------------------------ MODULE ThreadPool ------------------------------
(***************************************************************************)
(* The persistent worker pool of the pthread BFS: class ThreadPool of        *)
(* src/src/bfs_pthread.cc.  Main and the workers meet at two SpinBarriers    *)
(* per region, job_start and job_end; the task of the region and the         *)
(* shutdown flag are plain variables that only the barriers protect.         *)
(*                                                                          *)
(* A step of this module is one access of a thread to a shared variable, or  *)
(* one step of SpinBarrier inside job_start.wait() or job_end.wait().        *)
(***************************************************************************)
EXTENDS Integers, FiniteSets

CONSTANTS
  Workers,
  Main,             \* the thread that owns the pool
  Tasks,            \* what Run may be called with: a function and its context
  NoTask,           \* the null task_fn_
  Unstartable       \* the workers whose pthread_create fails

ASSUME PoolAssumption ==
  /\ IsFiniteSet(Workers)
  /\ Main \notin Workers
  /\ NoTask \notin Tasks
  /\ Unstartable \subseteq Workers

Threads == Workers \cup {Main}      \* num_threads_ + 1 participants

VARIABLES
  start_count, start_phase, start_my_phase, start_bpc,      \* job_start_
  end_count, end_phase, end_my_phase, end_bpc,              \* job_end_
  shutdown,         \* shutdown_
  task_fn,          \* task_fn_ and task_ctx_
  created,          \* the workers pthread_create was called for
  fn,               \* the argument of main's current Run
  running,          \* what every worker called
  pc                \* where every thread is in the code of the pool

start_vars == <<start_count, start_phase, start_my_phase, start_bpc>>
end_vars == <<end_count, end_phase, end_my_phase, end_bpc>>
pool_vars == <<shutdown, task_fn, created, fn, running, pc>>
vars == <<start_vars, end_vars, pool_vars>>

job_start == INSTANCE SpinBarrier WITH
  count <- start_count, phase <- start_phase,
  my_phase <- start_my_phase, bpc <- start_bpc

job_end == INSTANCE SpinBarrier WITH
  count <- end_count, phase <- end_phase,
  my_phase <- end_my_phase, bpc <- end_bpc

(* "in_start" and "in_end" last from the call of wait() until the thread    *)
(* acts again; wait() has returned when the barrier's own label is "out".   *)
MainPCs == {"init", "idle", "call_start", "in_start", "in_end", "stopped"}
WorkerPCs == {"unborn", "new", "in_start", "call", "break", "task", "in_end",
              "in_last_end", "exited"}

Init ==
  /\ job_start!Init
  /\ job_end!Init
  /\ shutdown = FALSE
  /\ task_fn = NoTask
  /\ created = {}
  /\ fn = NoTask
  /\ running = [w \in Workers |-> NoTask]
  /\ pc = [t \in Threads |-> IF t = Main THEN "init" ELSE "unborn"]

Goto(t, label) == pc' = [pc EXCEPT ![t] = label]

StartReturned(t) == pc[t] = "in_start" /\ start_bpc[t] = "out"
EndReturned(t) == pc[t] = "in_end" /\ end_bpc[t] = "out"

--------------------------------------------------------------------------------
(* Main.                                                                     *)

(* The loop of Init.  The result of pthread_create is not looked at.         *)
CreateWorker(w) ==
  /\ pc[Main] = "init"
  /\ w \notin created
  /\ created' = created \cup {w}
  /\ IF w \in Unstartable THEN UNCHANGED pc ELSE Goto(w, "new")
  /\ UNCHANGED <<start_vars, end_vars, shutdown, task_fn, fn, running>>

InitDone ==
  /\ pc[Main] = "init"
  /\ created = Workers
  /\ Goto(Main, "idle")
  /\ UNCHANGED <<start_vars, end_vars, shutdown, task_fn, created, fn, running>>

Run(f) ==
  /\ pc[Main] = "idle"
  /\ task_fn' = f
  /\ fn' = f
  /\ Goto(Main, "call_start")
  /\ UNCHANGED <<start_vars, end_vars, shutdown, created, running>>

(* The destructor, when the program ends.                                    *)
Shutdown ==
  /\ pc[Main] = "idle"
  /\ shutdown' = TRUE
  /\ Goto(Main, "call_start")
  /\ UNCHANGED <<start_vars, end_vars, task_fn, created, fn, running>>

MainEntersStart ==
  /\ pc[Main] = "call_start"
  /\ job_start!Enter(Main)
  /\ Goto(Main, "in_start")
  /\ UNCHANGED <<end_vars, shutdown, task_fn, created, fn, running>>

(* Faulty variants of MainEntersEnd: Run does not wait for the workers; the  *)
(* flag is reset as soon as the workers have been let into the region, when  *)
(* some have read it and some have not.                                      *)
MainSkipsEnd ==
  /\ StartReturned(Main)
  /\ task_fn' = NoTask
  /\ fn' = NoTask
  /\ Goto(Main, "idle")
  /\ UNCHANGED <<start_vars, end_vars, shutdown, created, running>>

ResetBeforeEnd ==
  /\ StartReturned(Main)
  /\ job_end!Enter(Main)
  /\ shutdown' = FALSE
  /\ Goto(Main, "in_end")
  /\ UNCHANGED <<start_vars, task_fn, created, fn, running>>

MainEntersEnd ==
  /\ StartReturned(Main)
  /\ job_end!Enter(Main)
  /\ Goto(Main, "in_end")
  /\ UNCHANGED <<start_vars, shutdown, task_fn, created, fn, running>>

(* The end of Run.                                                           *)
RunReturns ==
  /\ EndReturned(Main)
  /\ ~shutdown
  /\ task_fn' = NoTask
  /\ fn' = NoTask
  /\ Goto(Main, "idle")
  /\ UNCHANGED <<start_vars, end_vars, shutdown, created, running>>

(* The end of Shutdown, after the last pthread_join.                         *)
JoinWorkers ==
  /\ EndReturned(Main)
  /\ shutdown
  /\ \A w \in Workers : pc[w] = "exited"
  /\ shutdown' = FALSE
  /\ Goto(Main, "stopped")
  /\ UNCHANGED <<start_vars, end_vars, task_fn, created, fn, running>>

--------------------------------------------------------------------------------
(* WorkerMain.                                                               *)

WorkerEntersStart(w) ==
  /\ pc[w] = "new" \/ EndReturned(w)
  /\ job_start!Enter(w)
  /\ Goto(w, "in_start")
  /\ UNCHANGED <<end_vars, shutdown, task_fn, created, fn, running>>

ReadShutdown(w) ==
  /\ StartReturned(w)
  /\ Goto(w, IF shutdown THEN "break" ELSE "call")
  /\ UNCHANGED <<start_vars, end_vars, shutdown, task_fn, created, fn, running>>

CallTask(w) ==
  /\ pc[w] = "call"
  /\ running' = [running EXCEPT ![w] = task_fn]
  /\ Goto(w, "task")
  /\ UNCHANGED <<start_vars, end_vars, shutdown, task_fn, created, fn>>

(* Faulty variant of WorkerEntersEnd: straight back to the start barrier.    *)
WorkerSkipsEnd(w) ==
  /\ pc[w] = "task"
  /\ job_start!Enter(w)
  /\ running' = [running EXCEPT ![w] = NoTask]
  /\ Goto(w, "in_start")
  /\ UNCHANGED <<end_vars, shutdown, task_fn, created, fn>>

(* The task returns and the worker goes to the end barrier.                  *)
WorkerEntersEnd(w) ==
  /\ pc[w] = "task"
  /\ job_end!Enter(w)
  /\ running' = [running EXCEPT ![w] = NoTask]
  /\ Goto(w, "in_end")
  /\ UNCHANGED <<start_vars, shutdown, task_fn, created, fn>>

(* The wait() after the loop.                                                *)
WorkerEntersLastEnd(w) ==
  /\ pc[w] = "break"
  /\ job_end!Enter(w)
  /\ Goto(w, "in_last_end")
  /\ UNCHANGED <<start_vars, shutdown, task_fn, created, fn, running>>

WorkerExits(w) ==
  /\ pc[w] = "in_last_end"
  /\ end_bpc[w] = "out"
  /\ Goto(w, "exited")
  /\ UNCHANGED <<start_vars, end_vars, shutdown, task_fn, created, fn, running>>

--------------------------------------------------------------------------------
(* A step inside one of the two wait() calls.                                *)
BarrierStep(t) ==
  \/ job_start!Step(t) /\ UNCHANGED <<end_vars, pool_vars>>
  \/ job_end!Step(t) /\ UNCHANGED <<start_vars, pool_vars>>

(* A signal ends a sleep in one of them.                                     *)
Interrupted(t) ==
  \/ job_start!Interrupted(t) /\ UNCHANGED <<end_vars, pool_vars>>
  \/ job_end!Interrupted(t) /\ UNCHANGED <<start_vars, pool_vars>>

(* What main does without being asked by the program.                        *)
MainStep ==
  \/ \E w \in Workers : CreateWorker(w)
  \/ InitDone
  \/ MainEntersStart
  \/ MainEntersEnd
  \/ RunReturns
  \/ JoinWorkers

WorkerStep(w) ==
  \/ WorkerEntersStart(w)
  \/ ReadShutdown(w)
  \/ CallTask(w)
  \/ WorkerEntersEnd(w)
  \/ WorkerEntersLastEnd(w)
  \/ WorkerExits(w)

Next ==
  \/ MainStep
  \/ \E f \in Tasks : Run(f)
  \/ Shutdown
  \/ \E w \in Workers : WorkerStep(w)
  \/ \E t \in Threads : BarrierStep(t) \/ Interrupted(t)

Spec == Init /\ [][Next]_vars

(* Every thread is scheduled by the kernel and every task returns; the       *)
(* program is not obliged to open a region or to end.                        *)
Fairness ==
  /\ WF_vars(MainStep \/ BarrierStep(Main))
  /\ \A w \in Workers : WF_vars(WorkerStep(w) \/ BarrierStep(w))

FairSpec == Spec /\ Fairness

--------------------------------------------------------------------------------
PoolTypeOK ==
  /\ shutdown \in BOOLEAN
  /\ task_fn \in Tasks \cup {NoTask}
  /\ created \subseteq Workers
  /\ fn \in Tasks \cup {NoTask}
  /\ running \in [Workers -> Tasks \cup {NoTask}]
  /\ pc \in [Threads -> MainPCs \cup WorkerPCs]
  /\ pc[Main] \in MainPCs
  /\ \A w \in Workers : pc[w] \in WorkerPCs
  /\ \A w \in Workers \ created : pc[w] = "unborn"

TypeOK == job_start!TypeOK /\ job_end!TypeOK /\ PoolTypeOK

(* Held by job_start (not released), and released by job_end.                *)
HeldAtStart(t) == pc[t] = "in_start" /\ t \in job_start!Inside
HeldAtEnd(t) == pc[t] \in {"in_end", "in_last_end"} /\ t \in job_end!Inside

(* The workers have been let into the current region and main has not yet    *)
(* been let out of it.                                                       *)
Open ==
  \/ pc[Main] = "in_start" /\ ~HeldAtStart(Main)
  \/ HeldAtEnd(Main)

(* wait() is only ever running where the code of the pool calls it.          *)
BarrierCalls ==
  \A t \in Threads :
    /\ start_bpc[t] # "out" => pc[t] = "in_start"
    /\ end_bpc[t] # "out" => pc[t] \in {"in_end", "in_last_end"}

(* The two barriers make the regions disjoint: while a region is open every  *)
(* worker is inside it, on its way from the start to the end barrier, and    *)
(* otherwise none is.                                                        *)
TeamInStep ==
  \A w \in Workers :
    IF Open
    THEN \/ pc[w] \in {"call", "break", "task"}
         \/ pc[w] = "in_start" /\ ~HeldAtStart(w)
         \/ HeldAtEnd(w)
    ELSE \/ pc[w] \in {"unborn", "new", "exited"}
         \/ HeldAtStart(w)
         \/ pc[w] \in {"in_end", "in_last_end"} /\ ~HeldAtEnd(w)

(* The task and the flag that main sets stay put for the whole call.         *)
MainVariables ==
  /\ task_fn = fn
  /\ pc[Main] \in {"init", "idle", "stopped"} => fn = NoTask /\ ~shutdown
  /\ pc[Main] \in {"call_start", "in_start", "in_end"} => (fn = NoTask <=> shutdown)

(* A worker that is in a task is in the task of main's Run.                  *)
RunsCurrentTask ==
  \A w \in Workers : running[w] = (IF pc[w] = "task" THEN fn ELSE NoTask)

(* Main has called Run and the end barrier has not let it go.                *)
InRun == fn # NoTask /\ (pc[Main] \in {"call_start", "in_start"} \/ HeldAtEnd(Main))

(* A worker that still has to run the task of the region.                    *)
NotStarted(w) ==
  IF Open THEN pc[w] \in {"in_start", "call"} ELSE TRUE

Job == IF InRun THEN fn ELSE NoTask
Todo == IF InRun THEN {w \in Workers : NotStarted(w)} ELSE {}

FJ == INSTANCE ForkJoin WITH job <- Job, todo <- Todo, doing <- running

(* bfs_pthread.cc:178-182: the pool mirrors the wake-up of a team and its    *)
(* end-of-parallel barrier.  Run hands the task it was given to every worker *)
(* exactly once and lets main go on only when all have finished it.          *)
ImplementsForkJoin == FJ!Spec

(* bfs_pthread.cc:228-232 against 247: a worker reads task_fn_ only inside   *)
(* the region it was set for, so it never calls the null pointer main leaves *)
(* behind, nor a task of another region.                                     *)
CallsCurrentTask ==
  \A w \in Workers : pc[w] \in {"call", "task"} => task_fn = fn /\ fn # NoTask

(* bfs_pthread.cc:212-219 against 245: the shutdown flag is read as TRUE by  *)
(* all workers of the last region or by none, and is reset unseen.           *)
ShutdownSeenByAll ==
  \A w \in Workers :
    /\ pc[w] \in {"break", "in_last_end"} => shutdown
    /\ pc[w] \in {"call", "task"} => ~shutdown

(* Between regions main reads what the workers wrote (the partial sums, the  *)
(* buffers on its stack) with nobody at work.                                *)
MainAloneBetweenRegions ==
  pc[Main] \in {"idle", "call_start", "stopped"} \/ EndReturned(Main) =>
    \A w \in Workers : pc[w] \notin {"call", "break", "task"}

(* bfs_pthread.cc:226-233: Run returns.                                      *)
RunCompletes == InRun ~> (pc[Main] = "idle")

(* bfs_pthread.cc:209-224: the destructor gets every worker to exit.         *)
ShutdownCompletes == shutdown ~> (pc[Main] = "stopped")

(* bfs_pthread.cc:209-233: no call of the pool waits for ever.               *)
CallsComplete == RunCompletes /\ ShutdownCompletes

================================================================================
