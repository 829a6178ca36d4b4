--------------------------- MODULE ThreadPoolProofs ---------------------------
(***************************************************************************)
(* ThreadPool for every finite set of workers: the two barriers keep the     *)
(* team in step, and Run implements ForkJoin.  What is known of one barrier  *)
(* is taken from SpinBarrierProofs, once for job_start and once for job_end. *)
(***************************************************************************)
EXTENDS ThreadPool, FiniteSetTheorems, TLAPS

start_barrier == INSTANCE SpinBarrierProofs WITH
  count <- start_count, phase <- start_phase,
  my_phase <- start_my_phase, bpc <- start_bpc

end_barrier == INSTANCE SpinBarrierProofs WITH
  count <- end_count, phase <- end_phase,
  my_phase <- end_my_phase, bpc <- end_bpc

(* The pool's team is one that a barrier can serve.                          *)
LEMMA TeamIsFinite == IsFiniteSet(Threads) /\ Threads # {}
  BY PoolAssumption, FS_AddElement DEF Threads

LEMMA StartTeamAssumption == start_barrier!ThreadsAssumption
  BY TeamIsFinite DEF start_barrier!IsFiniteSet, IsFiniteSet

(* The pool's job_start and the barrier of the proofs are the same module.  *)
LEMMA StartIsTheBarrier ==
  /\ job_start!Inside = start_barrier!Inside
  /\ job_start!Init => start_barrier!Init
  /\ job_start!Next => start_barrier!Next
  /\ \A t \in Threads :
       /\ job_start!Enter(t) => start_barrier!Enter(t)
       /\ job_start!Step(t) => start_barrier!Step(t)
       /\ job_start!Interrupted(t) => start_barrier!Interrupted(t)
  <1>1. job_start!Inside = start_barrier!Inside
    BY DEF job_start!Inside, start_barrier!Inside, job_start!Waiting, start_barrier!Waiting
  <1>2. job_start!Init => start_barrier!Init
    BY DEF job_start!Init, start_barrier!Init
  <1> USE DEF
         start_barrier!Arrive, job_start!Arrive,
         start_barrier!ResetCount, job_start!ResetCount,
         start_barrier!FlipPhase, job_start!FlipPhase,
         start_barrier!WakeAll, job_start!WakeAll,
         start_barrier!Leave, job_start!Leave,
         start_barrier!GiveUpSpinning, job_start!GiveUpSpinning,
         start_barrier!FutexWait, job_start!FutexWait,
         start_barrier!Interrupted, job_start!Interrupted,
         start_barrier!Enter, job_start!Enter,
         start_barrier!Step, job_start!Step,
         start_barrier!Next, job_start!Next,
         start_barrier!Goto, job_start!Goto,
         start_barrier!total, job_start!total,
         start_barrier!Cardinality, job_start!Cardinality
  <1>3. job_start!Next => start_barrier!Next
    OBVIOUS
  <1>4. \A t \in Threads : job_start!Enter(t) => start_barrier!Enter(t)
    OBVIOUS
  <1>5. \A t \in Threads : job_start!Step(t) => start_barrier!Step(t)
    OBVIOUS
  <1>6. \A t \in Threads : job_start!Interrupted(t) => start_barrier!Interrupted(t)
    OBVIOUS
  <1> QED
    BY <1>1, <1>2, <1>3, <1>4, <1>5, <1>6

(* What the call of job_start.wait() does, seen from the pool.                *)
LEMMA StartEnter ==
  ASSUME start_barrier!IInv, NEW t \in Threads, job_start!Enter(t)
  PROVE  /\ start_bpc[t] = "out" /\ start_bpc'[t] # "out"
         /\ \A u \in Threads \ {t} : start_bpc'[u] = start_bpc[u]
         /\ t \notin job_start!Inside
         /\ job_start!Inside' = job_start!Inside \cup {t}
  <1>1. start_barrier!Enter(t)
    BY StartIsTheBarrier
  <1>2. job_start!Inside' = start_barrier!Inside'
    BY DEF job_start!Inside, start_barrier!Inside, job_start!Waiting, start_barrier!Waiting
  <1> QED
    BY <1>1, <1>2, StartTeamAssumption, StartIsTheBarrier, start_barrier!EnterEffect

(* What a step inside job_start.wait() does, seen from the pool.              *)
LEMMA StartStep ==
  ASSUME start_barrier!IInv, NEW t \in Threads,
         job_start!Step(t) \/ job_start!Interrupted(t)
  PROVE  /\ \/ job_start!Inside' = job_start!Inside
            \/ job_start!Inside = Threads /\ job_start!Inside' = {}
         /\ \A u \in Threads : start_bpc'[u] # "out" => start_bpc[u] # "out"
  <1>1. start_barrier!Step(t) \/ start_barrier!Interrupted(t)
    BY StartIsTheBarrier
  <1>2. job_start!Inside' = start_barrier!Inside'
    BY DEF job_start!Inside, start_barrier!Inside, job_start!Waiting, start_barrier!Waiting
  <1> QED
    BY <1>1, <1>2, StartTeamAssumption, StartIsTheBarrier, start_barrier!StepEffect

(* Whoever is held by job_start has not returned from its wait().             *)
LEMMA StartInside ==
  \A t \in job_start!Inside : t \in Threads /\ start_bpc[t] # "out"
  BY DEF job_start!Inside, job_start!Waiting

LEMMA StartInsideNext ==
  \A t \in job_start!Inside' : t \in Threads /\ start_bpc'[t] # "out"
  BY DEF job_start!Inside, job_start!Waiting

LEMMA EndTeamAssumption == end_barrier!ThreadsAssumption
  BY TeamIsFinite DEF end_barrier!IsFiniteSet, IsFiniteSet

(* The pool's job_end and the barrier of the proofs are the same module.  *)
LEMMA EndIsTheBarrier ==
  /\ job_end!Inside = end_barrier!Inside
  /\ job_end!Init => end_barrier!Init
  /\ job_end!Next => end_barrier!Next
  /\ \A t \in Threads :
       /\ job_end!Enter(t) => end_barrier!Enter(t)
       /\ job_end!Step(t) => end_barrier!Step(t)
       /\ job_end!Interrupted(t) => end_barrier!Interrupted(t)
  <1>1. job_end!Inside = end_barrier!Inside
    BY DEF job_end!Inside, end_barrier!Inside, job_end!Waiting, end_barrier!Waiting
  <1>2. job_end!Init => end_barrier!Init
    BY DEF job_end!Init, end_barrier!Init
  <1> USE DEF
         end_barrier!Arrive, job_end!Arrive,
         end_barrier!ResetCount, job_end!ResetCount,
         end_barrier!FlipPhase, job_end!FlipPhase,
         end_barrier!WakeAll, job_end!WakeAll,
         end_barrier!Leave, job_end!Leave,
         end_barrier!GiveUpSpinning, job_end!GiveUpSpinning,
         end_barrier!FutexWait, job_end!FutexWait,
         end_barrier!Interrupted, job_end!Interrupted,
         end_barrier!Enter, job_end!Enter,
         end_barrier!Step, job_end!Step,
         end_barrier!Next, job_end!Next,
         end_barrier!Goto, job_end!Goto,
         end_barrier!total, job_end!total,
         end_barrier!Cardinality, job_end!Cardinality
  <1>3. job_end!Next => end_barrier!Next
    OBVIOUS
  <1>4. \A t \in Threads : job_end!Enter(t) => end_barrier!Enter(t)
    OBVIOUS
  <1>5. \A t \in Threads : job_end!Step(t) => end_barrier!Step(t)
    OBVIOUS
  <1>6. \A t \in Threads : job_end!Interrupted(t) => end_barrier!Interrupted(t)
    OBVIOUS
  <1> QED
    BY <1>1, <1>2, <1>3, <1>4, <1>5, <1>6

(* What the call of job_end.wait() does, seen from the pool.                *)
LEMMA EndEnter ==
  ASSUME end_barrier!IInv, NEW t \in Threads, job_end!Enter(t)
  PROVE  /\ end_bpc[t] = "out" /\ end_bpc'[t] # "out"
         /\ \A u \in Threads \ {t} : end_bpc'[u] = end_bpc[u]
         /\ t \notin job_end!Inside
         /\ job_end!Inside' = job_end!Inside \cup {t}
  <1>1. end_barrier!Enter(t)
    BY EndIsTheBarrier
  <1>2. job_end!Inside' = end_barrier!Inside'
    BY DEF job_end!Inside, end_barrier!Inside, job_end!Waiting, end_barrier!Waiting
  <1> QED
    BY <1>1, <1>2, EndTeamAssumption, EndIsTheBarrier, end_barrier!EnterEffect

(* What a step inside job_end.wait() does, seen from the pool.              *)
LEMMA EndStep ==
  ASSUME end_barrier!IInv, NEW t \in Threads,
         job_end!Step(t) \/ job_end!Interrupted(t)
  PROVE  /\ \/ job_end!Inside' = job_end!Inside
            \/ job_end!Inside = Threads /\ job_end!Inside' = {}
         /\ \A u \in Threads : end_bpc'[u] # "out" => end_bpc[u] # "out"
  <1>1. end_barrier!Step(t) \/ end_barrier!Interrupted(t)
    BY EndIsTheBarrier
  <1>2. job_end!Inside' = end_barrier!Inside'
    BY DEF job_end!Inside, end_barrier!Inside, job_end!Waiting, end_barrier!Waiting
  <1> QED
    BY <1>1, <1>2, EndTeamAssumption, EndIsTheBarrier, end_barrier!StepEffect

(* Whoever is held by job_end has not returned from its wait().             *)
LEMMA EndInside ==
  \A t \in job_end!Inside : t \in Threads /\ end_bpc[t] # "out"
  BY DEF job_end!Inside, job_end!Waiting

(* The pool uses the two barriers only by calling wait() on them.            *)
LEMMA BarrierSteps ==
  ASSUME [Next]_vars
  PROVE  /\ [start_barrier!Next]_start_vars
         /\ [end_barrier!Next]_end_vars
  <1> Main \in Threads /\ Workers \subseteq Threads
    BY DEF Threads
  <1>1. [job_start!Next]_start_vars /\ [job_end!Next]_end_vars
    <2>1. CASE UNCHANGED vars
      BY <2>1 DEF vars
    <2>2. CASE MainStep
      BY <2>2 DEF MainStep, CreateWorker, InitDone, MainEntersStart, MainEntersEnd,
                  RunReturns, JoinWorkers, start_vars, end_vars,
                  job_start!Next, job_end!Next
    <2>3. CASE Shutdown \/ \E f \in Tasks : Run(f)
      BY <2>3 DEF Shutdown, Run, start_vars, end_vars
    <2>4. CASE \E w \in Workers : WorkerStep(w)
      BY <2>4 DEF WorkerStep, WorkerEntersStart, ReadShutdown, CallTask,
                  WorkerEntersEnd, WorkerEntersLastEnd, WorkerExits,
                  start_vars, end_vars, job_start!Next, job_end!Next
    <2>5. CASE \E t \in Threads : BarrierStep(t) \/ Interrupted(t)
      BY <2>5 DEF BarrierStep, Interrupted, start_vars, end_vars,
                  job_start!Next, job_end!Next
    <2> QED
      BY <2>1, <2>2, <2>3, <2>4, <2>5 DEF Next
  <1> QED
    BY <1>1, StartIsTheBarrier, EndIsTheBarrier

(* Both barriers keep their invariant inside the pool.                       *)
LEMMA BarriersAreSound == Spec => [](start_barrier!IInv /\ end_barrier!IInv)
  <1>1. Init => start_barrier!Init /\ end_barrier!Init
    BY StartIsTheBarrier, EndIsTheBarrier DEF Init
  <1>2. [Next]_vars => [start_barrier!Next]_start_vars /\ [end_barrier!Next]_end_vars
    BY BarrierSteps
  <1>3. [Next]_vars => [start_barrier!Next]_(start_barrier!vars)
                       /\ [end_barrier!Next]_(end_barrier!vars)
    BY <1>2 DEF start_vars, end_vars, start_barrier!vars, end_barrier!vars
  <1>4. start_barrier!Spec => []start_barrier!IInv
    BY start_barrier!BarrierInvariant, StartTeamAssumption, PTL
  <1>5. end_barrier!Spec => []end_barrier!IInv
    BY end_barrier!BarrierInvariant, EndTeamAssumption, PTL
  <1> QED
    BY <1>1, <1>3, <1>4, <1>5, PTL
    DEF Spec, start_barrier!Spec, end_barrier!Spec

--------------------------------------------------------------------------------
(* The inductive invariant of the pool.  TeamInStep is the part the others   *)
(* rest on: what a worker reads in a region, main wrote before it.           *)
PoolInv ==
  /\ PoolTypeOK
  /\ BarrierCalls
  /\ TeamInStep
  /\ MainVariables
  /\ ShutdownSeenByAll
  /\ RunsCurrentTask

(* A step that leaves a barrier alone leaves the set it holds alone.         *)
LEMMA SameInside ==
  /\ UNCHANGED start_vars => job_start!Inside' = job_start!Inside
  /\ UNCHANGED end_vars => job_end!Inside' = job_end!Inside
  BY DEF start_vars, end_vars, job_start!Inside, job_end!Inside

LEMMA InitPool == Init => PoolInv
  <1> SUFFICES ASSUME Init PROVE PoolInv
    OBVIOUS
  <1> Main \in Threads /\ Workers \subseteq Threads /\ Main \notin Workers
    BY PoolAssumption DEF Threads
  <1>1. start_bpc = [t \in Threads |-> "out"] /\ end_bpc = [t \in Threads |-> "out"]
    BY DEF Init, job_start!Init, job_end!Init
  <1>2. ~Open
    BY DEF Init, Open, HeldAtEnd
  <1>3. TeamInStep
    BY <1>2 DEF Init, TeamInStep
  <1> QED
    BY <1>1, <1>3 DEF Init, PoolInv, PoolTypeOK, MainPCs, WorkerPCs, BarrierCalls,
                      MainVariables, ShutdownSeenByAll, RunsCurrentTask

(* The steps of main.                                                        *)
LEMMA MainKeepsPool ==
  ASSUME PoolInv, start_barrier!IInv, end_barrier!IInv,
         MainStep \/ Shutdown \/ \E f \in Tasks : Run(f)
  PROVE  PoolInv'
  <1> Main \in Threads /\ Workers \subseteq Threads /\ Main \notin Workers
    BY PoolAssumption DEF Threads
  <1> USE DEF PoolInv, PoolTypeOK, MainPCs, WorkerPCs, BarrierCalls, TeamInStep,
              MainVariables, ShutdownSeenByAll, RunsCurrentTask,
              Open, HeldAtStart, HeldAtEnd, Goto, start_vars, end_vars
  <1>1. ASSUME NEW w \in Workers, CreateWorker(w)
        PROVE  PoolInv'
    BY <1>1, SameInside, StartInside, EndInside DEF CreateWorker
  <1>2. ASSUME InitDone
        PROVE  PoolInv'
    BY <1>2, SameInside DEF InitDone
  <1>3. ASSUME MainEntersStart
        PROVE  PoolInv'
    BY <1>3, SameInside, StartEnter, StartInsideNext DEF MainEntersStart
  <1>4. ASSUME MainEntersEnd
        PROVE  PoolInv'
    BY <1>4, SameInside, EndEnter, StartInside DEF MainEntersEnd, StartReturned
  <1>5. ASSUME RunReturns
        PROVE  PoolInv'
    BY <1>5, SameInside, EndInside DEF RunReturns, EndReturned
  <1>6. ASSUME JoinWorkers
        PROVE  PoolInv'
    BY <1>6, SameInside, EndInside DEF JoinWorkers, EndReturned
  <1>7. ASSUME Shutdown
        PROVE  PoolInv'
    BY <1>7, SameInside DEF Shutdown
  <1>8. ASSUME NEW f \in Tasks, Run(f)
        PROVE  PoolInv'
    BY <1>8, SameInside, PoolAssumption DEF Run
  <1> QED
    BY <1>1, <1>2, <1>3, <1>4, <1>5, <1>6, <1>7, <1>8 DEF MainStep

(* The steps of a worker.                                                    *)
LEMMA WorkerKeepsPool ==
  ASSUME PoolInv, start_barrier!IInv, end_barrier!IInv,
         NEW w \in Workers, WorkerStep(w)
  PROVE  PoolInv'
  <1> Main \in Threads /\ Workers \subseteq Threads /\ Main \notin Workers
    BY PoolAssumption DEF Threads
  <1> USE DEF PoolInv, PoolTypeOK, MainPCs, WorkerPCs, BarrierCalls, TeamInStep,
              MainVariables, ShutdownSeenByAll, RunsCurrentTask,
              Open, HeldAtStart, HeldAtEnd, Goto, start_vars, end_vars
  <1>1. ASSUME WorkerEntersStart(w)
        PROVE  PoolInv'
    BY <1>1, SameInside, StartEnter, EndInside DEF WorkerEntersStart, EndReturned
  <1>2. ASSUME ReadShutdown(w)
        PROVE  PoolInv'
    BY <1>2, SameInside, StartInside DEF ReadShutdown, StartReturned
  <1>3. ASSUME CallTask(w)
        PROVE  PoolInv'
    BY <1>3, SameInside DEF CallTask
  <1>4. ASSUME WorkerEntersEnd(w)
        PROVE  PoolInv'
    BY <1>4, SameInside, EndEnter DEF WorkerEntersEnd
  <1>5. ASSUME WorkerEntersLastEnd(w)
        PROVE  PoolInv'
    BY <1>5, SameInside, EndEnter DEF WorkerEntersLastEnd
  <1>6. ASSUME WorkerExits(w)
        PROVE  PoolInv'
    BY <1>6, SameInside, EndInside DEF WorkerExits
  <1> QED
    BY <1>1, <1>2, <1>3, <1>4, <1>5, <1>6 DEF WorkerStep

(* A step inside a wait(): the release of the start barrier opens the region *)
(* for everyone, the release of the end barrier closes it for everyone.      *)
LEMMA BarrierKeepsPool ==
  ASSUME PoolInv, start_barrier!IInv, end_barrier!IInv,
         NEW t \in Threads, BarrierStep(t) \/ Interrupted(t)
  PROVE  PoolInv'
  <1> Main \in Threads /\ Workers \subseteq Threads /\ Main \notin Workers
    BY PoolAssumption DEF Threads
  <1> USE DEF PoolInv, PoolTypeOK, MainPCs, WorkerPCs, BarrierCalls, TeamInStep,
              MainVariables, ShutdownSeenByAll, RunsCurrentTask,
              Open, HeldAtStart, HeldAtEnd, start_vars, end_vars, pool_vars
  <1>1. ASSUME job_start!Step(t) \/ job_start!Interrupted(t), UNCHANGED <<end_vars, pool_vars>>
        PROVE  PoolInv'
    BY <1>1, SameInside, StartStep, StartInside
  <1>2. ASSUME job_end!Step(t) \/ job_end!Interrupted(t), UNCHANGED <<start_vars, pool_vars>>
        PROVE  PoolInv'
    BY <1>2, SameInside, EndStep, EndInside
  <1> QED
    BY <1>1, <1>2 DEF BarrierStep, Interrupted

(* Every step of the pool keeps the invariant.                               *)
LEMMA NextPool ==
  PoolInv /\ start_barrier!IInv /\ end_barrier!IInv /\ [Next]_vars => PoolInv'
  <1> SUFFICES ASSUME PoolInv, start_barrier!IInv, end_barrier!IInv, [Next]_vars
               PROVE  PoolInv'
    OBVIOUS
  <1>1. CASE UNCHANGED vars
    BY <1>1, SameInside
    DEF vars, start_vars, end_vars, pool_vars, PoolInv, PoolTypeOK, BarrierCalls,
        TeamInStep, MainVariables, ShutdownSeenByAll, RunsCurrentTask, Open,
        HeldAtStart, HeldAtEnd
  <1> QED
    BY <1>1, MainKeepsPool, WorkerKeepsPool, BarrierKeepsPool DEF Next

(* The invariant of the pool, for any number of workers.                     *)
THEOREM PoolInvariant == Spec => [](PoolInv /\ start_barrier!IInv /\ end_barrier!IInv)
  BY InitPool, NextPool, BarriersAreSound, PTL DEF Spec

(* bfs_pthread.cc:228-232 against 247: no worker ever calls a null or stale  *)
(* task_fn_, whatever the number of workers.                                 *)
THEOREM WorkersCallCurrentTask == Spec => []CallsCurrentTask
  <1>1. PoolInv => CallsCurrentTask
    <2> SUFFICES ASSUME PoolInv, NEW w \in Workers, pc[w] \in {"call", "task"}
                 PROVE  task_fn = fn /\ fn # NoTask
      BY DEF CallsCurrentTask
    <2>1. Open /\ ~shutdown
      BY EndInside DEF PoolInv, TeamInStep, ShutdownSeenByAll, HeldAtStart
    <2>2. pc[Main] \in {"in_start", "in_end"}
      BY <2>1 DEF Open, HeldAtEnd, PoolInv, PoolTypeOK, MainPCs
    <2> QED
      BY <2>1, <2>2 DEF PoolInv, MainVariables
  <1> QED
    BY <1>1, PoolInvariant, PTL

(* bfs_pthread.cc:212-219 against 245: all workers of a region read the same *)
(* shutdown flag.                                                            *)
THEOREM WorkersAgreeOnShutdown == Spec => []ShutdownSeenByAll
  <1>1. PoolInv => ShutdownSeenByAll
    BY DEF PoolInv
  <1> QED
    BY <1>1, PoolInvariant, PTL

(* bfs_pthread.cc:226-233: when Run has returned, no worker is in its task.  *)
THEOREM NobodyWorksBetweenRegions == Spec => []MainAloneBetweenRegions
  <1>1. PoolInv => MainAloneBetweenRegions
    <2> SUFFICES ASSUME PoolInv, NEW w \in Workers, pc[w] \in {"call", "break", "task"}
                 PROVE  /\ pc[Main] \notin {"idle", "call_start", "stopped"}
                        /\ ~EndReturned(Main)
      BY DEF MainAloneBetweenRegions
    <2>1. Open
      BY DEF PoolInv, TeamInStep, HeldAtStart
    <2> QED
      BY <2>1, EndInside DEF Open, HeldAtEnd, EndReturned
  <1> QED
    BY <1>1, PoolInvariant, PTL

--------------------------------------------------------------------------------
(* The release of the end barrier is the join of the region.                 *)
LEMMA BarrierRefines ==
  ASSUME PoolInv, start_barrier!IInv, end_barrier!IInv,
         NEW t \in Threads, BarrierStep(t) \/ Interrupted(t)
  PROVE  FJ!Join \/ UNCHANGED FJ!vars
  <1> Main \in Threads /\ Workers \subseteq Threads /\ Main \notin Workers
    BY PoolAssumption DEF Threads
  <1> USE DEF PoolInv, PoolTypeOK, MainPCs, WorkerPCs, BarrierCalls, TeamInStep,
              MainVariables, RunsCurrentTask, Open, HeldAtStart, HeldAtEnd,
              InRun, NotStarted, Job, Todo, start_vars, end_vars, pool_vars
  <1>1. ASSUME job_start!Step(t) \/ job_start!Interrupted(t),
               UNCHANGED <<end_vars, pool_vars>>
        PROVE  UNCHANGED FJ!vars
    BY <1>1, SameInside, StartStep, StartInside, EndInside DEF FJ!vars
  <1>2. ASSUME job_end!Step(t) \/ job_end!Interrupted(t),
               UNCHANGED <<start_vars, pool_vars>>
        PROVE  FJ!Join \/ UNCHANGED FJ!vars
    <2>1. CASE job_end!Inside' = job_end!Inside
      BY <1>2, <2>1, SameInside DEF FJ!vars
    <2>2. CASE job_end!Inside = Threads /\ job_end!Inside' = {} /\ fn # NoTask
      BY <1>2, <2>2, EndInside DEF FJ!Join
    <2>3. CASE job_end!Inside = Threads /\ job_end!Inside' = {} /\ fn = NoTask
      BY <1>2, <2>3 DEF FJ!vars
    <2> QED
      BY <1>2, <2>1, <2>2, <2>3, EndStep
  <1> QED
    BY <1>1, <1>2 DEF BarrierStep, Interrupted

(* Run forks; what main does besides is invisible.                           *)
LEMMA MainRefines ==
  ASSUME PoolInv, start_barrier!IInv, end_barrier!IInv,
         MainStep \/ Shutdown \/ \E f \in Tasks : Run(f)
  PROVE  FJ!Next \/ UNCHANGED FJ!vars
  <1> Main \in Threads /\ Workers \subseteq Threads /\ Main \notin Workers
    BY PoolAssumption DEF Threads
  <1> USE DEF PoolInv, PoolTypeOK, MainPCs, WorkerPCs, BarrierCalls, TeamInStep,
              MainVariables, RunsCurrentTask, Open, HeldAtStart, HeldAtEnd,
              InRun, NotStarted, Job, Todo, Goto, start_vars, end_vars
  <1>1. ASSUME NEW w \in Workers, CreateWorker(w)
        PROVE  UNCHANGED FJ!vars
    BY <1>1, SameInside DEF CreateWorker, FJ!vars
  <1>2. ASSUME InitDone
        PROVE  UNCHANGED FJ!vars
    BY <1>2, SameInside DEF InitDone, FJ!vars
  <1>3. ASSUME MainEntersStart
        PROVE  UNCHANGED FJ!vars
    BY <1>3, SameInside, StartEnter DEF MainEntersStart, FJ!vars
  <1>4. ASSUME MainEntersEnd
        PROVE  UNCHANGED FJ!vars
    BY <1>4, SameInside, EndEnter, StartInside DEF MainEntersEnd, StartReturned, FJ!vars
  <1>5. ASSUME RunReturns
        PROVE  UNCHANGED FJ!vars
    BY <1>5, SameInside, EndInside DEF RunReturns, EndReturned, FJ!vars
  <1>6. ASSUME JoinWorkers
        PROVE  UNCHANGED FJ!vars
    BY <1>6, SameInside, EndInside DEF JoinWorkers, EndReturned, FJ!vars
  <1>7. ASSUME Shutdown
        PROVE  UNCHANGED FJ!vars
    BY <1>7, SameInside DEF Shutdown, FJ!vars
  <1>8. ASSUME NEW f \in Tasks, Run(f)
        PROVE  FJ!Fork(f)
    BY <1>8, SameInside, PoolAssumption DEF Run, FJ!Fork
  <1> QED
    BY <1>1, <1>2, <1>3, <1>4, <1>5, <1>6, <1>7, <1>8 DEF MainStep, FJ!Next

(* A worker begins its task when it calls it and ends it when it goes to the *)
(* end barrier.                                                              *)
LEMMA WorkerRefines ==
  ASSUME PoolInv, start_barrier!IInv, end_barrier!IInv,
         NEW w \in Workers, WorkerStep(w)
  PROVE  FJ!Begin(w) \/ FJ!End(w) \/ UNCHANGED FJ!vars
  <1> Main \in Threads /\ Workers \subseteq Threads /\ Main \notin Workers
    BY PoolAssumption DEF Threads
  <1> USE DEF PoolInv, PoolTypeOK, MainPCs, WorkerPCs, BarrierCalls, TeamInStep,
              MainVariables, ShutdownSeenByAll, RunsCurrentTask, Open, HeldAtStart,
              HeldAtEnd, InRun, NotStarted, Job, Todo, Goto, start_vars, end_vars
  <1>1. ASSUME WorkerEntersStart(w)
        PROVE  UNCHANGED FJ!vars
    BY <1>1, SameInside, StartEnter, EndInside
    DEF WorkerEntersStart, EndReturned, FJ!vars
  <1>2. ASSUME ReadShutdown(w)
        PROVE  UNCHANGED FJ!vars
    BY <1>2, SameInside, StartInside DEF ReadShutdown, StartReturned, FJ!vars
  <1>3. ASSUME CallTask(w)
        PROVE  FJ!Begin(w)
    <2>1. Open /\ InRun
      BY <1>3 DEF CallTask
    <2>2. Open' /\ InRun'
      BY <1>3, <2>1, SameInside DEF CallTask
    <2>3. w \in Todo /\ Todo' = Todo \ {w}
      BY <1>3, <2>1, <2>2 DEF CallTask
    <2>4. Job' = Job /\ running' = [running EXCEPT ![w] = Job]
      BY <1>3, <2>1, <2>2 DEF CallTask
    <2> QED
      BY <2>3, <2>4 DEF FJ!Begin
  <1>4. ASSUME WorkerEntersEnd(w)
        PROVE  FJ!End(w)
    <2>1. Open /\ InRun
      BY <1>4 DEF WorkerEntersEnd
    <2>2. Open' /\ InRun'
      BY <1>4, <2>1, SameInside, EndEnter DEF WorkerEntersEnd
    <2>3. Todo' = Todo /\ Job' = Job
      BY <1>4, <2>1, <2>2 DEF WorkerEntersEnd
    <2>4. running[w] # NoTask
      BY <1>4, <2>1, PoolAssumption DEF WorkerEntersEnd
    <2> QED
      BY <1>4, <2>3, <2>4 DEF FJ!End, WorkerEntersEnd
  <1>5. ASSUME WorkerEntersLastEnd(w)
        PROVE  UNCHANGED FJ!vars
    BY <1>5, SameInside, EndEnter DEF WorkerEntersLastEnd, FJ!vars
  <1>6. ASSUME WorkerExits(w)
        PROVE  UNCHANGED FJ!vars
    BY <1>6, SameInside, EndInside DEF WorkerExits, FJ!vars
  <1> QED
    BY <1>1, <1>2, <1>3, <1>4, <1>5, <1>6 DEF WorkerStep

(* bfs_pthread.cc:178-182: for any number of workers, Run is a fork and a    *)
(* join: every worker runs the given task once, and Run returns after all.   *)
THEOREM PoolIsForkJoin == Spec => ImplementsForkJoin
  <1>1. Init => FJ!Init
    BY DEF Init, FJ!Init, InRun, Job, Todo, HeldAtEnd, HeldAtStart
  <1>2. PoolInv /\ start_barrier!IInv /\ end_barrier!IInv /\ [Next]_vars
          => [FJ!Next]_(FJ!vars)
    <2> SUFFICES ASSUME PoolInv, start_barrier!IInv, end_barrier!IInv, [Next]_vars
                 PROVE  [FJ!Next]_(FJ!vars)
      OBVIOUS
    <2>1. CASE UNCHANGED vars
      BY <2>1, SameInside
      DEF vars, start_vars, end_vars, pool_vars, FJ!vars, Job, Todo, InRun,
          NotStarted, Open, HeldAtStart, HeldAtEnd
    <2> QED
      BY <2>1, MainRefines, WorkerRefines, BarrierRefines DEF Next, FJ!Next
  <1> QED
    BY <1>1, <1>2, PoolInvariant, PTL DEF Spec, ImplementsForkJoin, FJ!Spec

================================================================================
