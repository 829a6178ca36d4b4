---------------------------- MODULE CaladanProofs ----------------------------
(***************************************************************************)
(* The Caladan program for every number of threads: RunParallel implements   *)
(* ForkJoin, the search that runs on it is a DOBFS, and so what DOBFSProofs  *)
(* says of that search holds of this program.                               *)
(***************************************************************************)
EXTENDS CaladanBFS, FiniteSetTheorems, TLAPS

proved == INSTANCE DOBFSProofs WITH NumThreads <- nthreads, pc <- region

--------------------------------------------------------------------------------
(* One call.                                                                 *)

(* The threads for which wg still waits: those that have not called Done,    *)
(* spawned or not.                                                           *)
Outstanding == {w \in Spawned : thread[w] # "none" \/ (pc = "spawn" /\ w >= t)}

CallTypes ==
  /\ pc \in {"idle", "spawn", "wait"}
  /\ fn \in Tasks \cup {NoTask}
  /\ t \in 1 .. nthreads
  /\ wg \in Int
  /\ thread \in [Spawned -> {"none", "ready", "fn", "done_call"}]
  /\ running \in [Workers -> Tasks \cup {NoTask}]

(* Who runs what, and that the wait group counts who is outstanding.         *)
CallInv ==
  /\ CallTypes
  /\ pc = "idle" <=> fn = NoTask
  /\ pc # "wait" => running[0] = NoTask
  /\ running[0] \in {NoTask, fn}
  /\ \A w \in Spawned : running[w] = IF thread[w] = "fn" THEN fn ELSE NoTask
  /\ pc = "idle" => \A w \in Spawned : thread[w] = "none"
  /\ pc = "spawn" => \A w \in Spawned : w >= t => thread[w] = "none"
  /\ pc = "wait" => t = nthreads
  /\ pc # "idle" => wg = Cardinality(Outstanding)

LEMMA Team ==
  /\ 0 \in Workers /\ Workers = {0} \cup Spawned /\ Spawned = 1 .. nthreads - 1
  /\ IsFiniteSet(Spawned) /\ Cardinality(Spawned) = nthreads - 1
<1>1. 0 \in Workers /\ Workers = {0} \cup Spawned /\ Spawned = 1 .. nthreads - 1
  BY RunParallelAssumption DEF Workers, Spawned
<1>2. nthreads - 1 \in Nat
  BY RunParallelAssumption
<1>3. \A n \in Nat : IsFiniteSet(1 .. n) /\ Cardinality(1 .. n) = n
  <2> TAKE n \in Nat
  <2>1. IsFiniteSet(1 .. n) /\ Cardinality(1 .. n) = IF 1 > n THEN 0 ELSE n - 1 + 1
    BY FS_Interval
  <2> QED
    BY <2>1
<1> QED
  BY <1>1, <1>2, <1>3

LEMMA OutstandingIsFinite == IsFiniteSet(Outstanding)
<1>1. Outstanding \subseteq Spawned
  BY DEF Outstanding
<1> QED
  BY <1>1, Team, FS_Subset

LEMMA InitCallInv == Init => CallInv
  BY RunParallelAssumption, Team DEF Init, CallInv, CallTypes

LEMMA CallKeepsInv ==
  ASSUME CallInv, NEW f \in Tasks, Call(f)
  PROVE  CallInv'
<1>1. Outstanding' = Spawned
  BY Team DEF Outstanding, Call
<1>2. wg' = Cardinality(Outstanding')
  BY <1>1, Team DEF Call
<1> QED
  BY <1>2, RunParallelAssumption, Team DEF CallInv, CallTypes, Call

LEMMA SpawnKeepsInv ==
  ASSUME CallInv, Spawn
  PROVE  CallInv'
<1>1. t \in Spawned /\ t \in Nat
  BY Team, RunParallelAssumption DEF CallInv, CallTypes, Spawn
<1>2. thread' = [thread EXCEPT ![t] = "ready"] /\ thread[t] = "none"
  BY <1>1 DEF CallInv, Spawn
<1>3. \A w \in Spawned : w \in Int /\ w >= t' <=> w >= t /\ w # t
  BY <1>1, Team DEF Spawn
<1>4. Outstanding' = Outstanding
  BY <1>1, <1>2, Team DEF Outstanding, Spawn, CallInv, CallTypes
<1>5. CallTypes'
  BY <1>1, <1>2, Team, RunParallelAssumption DEF CallTypes, CallInv, Spawn
<1> QED
  BY <1>1, <1>2, <1>4, <1>5, Team DEF CallInv, CallTypes, Spawn

LEMMA CallerKeepsInv ==
  ASSUME CallInv, BeginInline \/ EndInline \/ Return
  PROVE  CallInv'
<1>1. CASE BeginInline
  <2>1. Outstanding' = Outstanding
    BY <1>1, Team, RunParallelAssumption DEF BeginInline, Outstanding, CallInv
  <2> QED
    BY <1>1, <2>1, Team DEF BeginInline, CallInv, CallTypes
<1>2. CASE EndInline
  <2>1. Outstanding' = Outstanding
    BY <1>2 DEF EndInline, Outstanding
  <2> QED
    BY <1>2, <2>1, Team DEF EndInline, CallInv, CallTypes
<1>3. CASE Return
  <2>1. Outstanding = {}
    BY <1>3, OutstandingIsFinite, FS_EmptySet DEF Return, CallInv
  <2>2. \A w \in Spawned : thread[w] = "none"
    BY <2>1 DEF Outstanding
  <2> QED
    BY <1>3, <2>2, Team DEF Return, CallInv, CallTypes
<1> QED
  BY <1>1, <1>2, <1>3

LEMMA ThreadKeepsInv ==
  ASSUME CallInv, NEW w \in Spawned, ThreadStep(w)
  PROVE  CallInv'
<1>1. CASE Begin(w)
  <2>1. Outstanding' = Outstanding
    BY <1>1 DEF Begin, Outstanding, CallInv, CallTypes
  <2> QED
    BY <1>1, <2>1, Team DEF Begin, CallInv, CallTypes
<1>2. CASE End(w)
  <2>1. Outstanding' = Outstanding
    BY <1>2 DEF End, Outstanding, CallInv, CallTypes
  <2> QED
    BY <1>2, <2>1, Team DEF End, CallInv, CallTypes
<1>3. CASE Done(w)
  <2>1. pc # "idle" /\ ~(pc = "spawn" /\ w >= t)
    BY <1>3 DEF Done, CallInv
  <2>2. w \in Outstanding /\ Outstanding' = Outstanding \ {w}
    BY <1>3, <2>1 DEF Done, Outstanding, CallInv, CallTypes
  <2>3. Cardinality(Outstanding') = Cardinality(Outstanding) - 1
    BY <2>2, OutstandingIsFinite, FS_RemoveElement
  <2> QED
    BY <1>3, <2>1, <2>3, Team DEF Done, CallInv, CallTypes
<1> QED
  BY <1>1, <1>2, <1>3 DEF ThreadStep

LEMMA StepKeepsCallInv == CallInv /\ [Next]_vars => CallInv'
<1> SUFFICES ASSUME CallInv, [Next]_vars PROVE CallInv'
  OBVIOUS
<1>1. CASE UNCHANGED vars
  BY <1>1 DEF vars, CallInv, CallTypes, Outstanding
<1> QED
  BY <1>1, CallKeepsInv, SpawnKeepsInv, CallerKeepsInv, ThreadKeepsInv DEF Next, CallerStep

LEMMA CallInvariant == Spec => []CallInv
  BY InitCallInv, StepKeepsCallInv, PTL DEF Spec

--------------------------------------------------------------------------------
(* A call is a fork and a join.                                              *)

LEMMA CallerRefines ==
  ASSUME CallInv, CallInv', CallerStep
  PROVE  FJ!Next \/ UNCHANGED FJ!vars
<1> USE DEF FJ!vars
<1>1. CASE Spawn
  <2>1. t \in Spawned /\ thread[t] = "none" /\ thread' = [thread EXCEPT ![t] = "ready"]
    BY <1>1, Team, RunParallelAssumption DEF CallInv, CallTypes, Spawn
  <2>2. \A w \in Spawned : w \in Int /\ (w >= t + 1 <=> w >= t /\ w # t)
    BY <2>1, Team
  <2>3. Todo' = Todo
    BY <1>1, <2>1, <2>2 DEF Todo, Spawn, CallInv, CallTypes
  <2> QED
    BY <1>1, <2>3 DEF Spawn
<1>2. CASE BeginInline
  <2>1. \A w \in Spawned : ~(w >= t) /\ w # 0
    BY <1>2, Team, RunParallelAssumption DEF BeginInline
  <2>2. 0 \in Todo /\ Todo' = Todo \ {0}
    BY <1>2, <2>1 DEF Todo, BeginInline
  <2> QED
    BY <1>2, <2>2, Team DEF BeginInline, FJ!Next, FJ!Begin
<1>3. CASE EndInline
  <2>1. Todo' = Todo
    BY <1>3 DEF Todo, EndInline
  <2> QED
    BY <1>3, <2>1, Team DEF EndInline, FJ!Next, FJ!End
<1>4. CASE Return
  <2>1. \A w \in Spawned : thread[w] = "none"
    BY <1>4 DEF Return, CallInv
  <2>2. Todo = {} /\ Todo' = {}
    BY <1>4, <2>1 DEF Todo, Return
  <2>3. \A w \in Workers : running[w] = NoTask
    BY <1>4, <2>1, Team DEF CallInv, Return
  <2> QED
    BY <1>4, <2>2, <2>3 DEF Return, CallInv, FJ!Next, FJ!Join
<1> QED
  BY <1>1, <1>2, <1>3, <1>4 DEF CallerStep

LEMMA CallRefines ==
  ASSUME CallInv, NEW f \in Tasks, Call(f)
  PROVE  FJ!Fork(f)
<1>1. \A w \in Spawned : w >= 1
  BY Team
<1>2. Todo = {} /\ Todo' = Workers
  BY <1>1, Team DEF Todo, Call
<1> QED
  BY <1>2 DEF Call, CallInv, FJ!Fork

LEMMA ThreadRefines ==
  ASSUME CallInv, NEW w \in Spawned, ThreadStep(w)
  PROVE  FJ!Begin(w) \/ FJ!End(w) \/ UNCHANGED FJ!vars
<1>1. pc # "idle" /\ fn # NoTask /\ w # 0 /\ (pc = "spawn" => ~(w >= t))
  BY Team DEF ThreadStep, Begin, End, Done, CallInv
<1>2. CASE Begin(w)
  <2>1. w \in Todo /\ Todo' = Todo \ {w}
    BY <1>1, <1>2 DEF Todo, Begin, CallInv, CallTypes
  <2> QED
    BY <1>2, <2>1 DEF Begin, FJ!Begin
<1>3. CASE End(w)
  <2>1. Todo' = Todo
    BY <1>1, <1>3 DEF Todo, End, CallInv, CallTypes
  <2> QED
    BY <1>1, <1>3, <2>1 DEF End, FJ!End, CallInv
<1>4. CASE Done(w)
  <2>1. Todo' = Todo
    BY <1>1, <1>4 DEF Todo, Done, CallInv, CallTypes
  <2> QED
    BY <1>4, <2>1 DEF Done, FJ!vars
<1> QED
  BY <1>2, <1>3, <1>4 DEF ThreadStep

(* src/bfs.cc:74-82: for any number of threads RunParallel is a fork and a   *)
(* join: every worker runs the given function once, and the call returns     *)
(* after all.                                                                *)
THEOREM RunParallelIsForkJoin == Spec => ImplementsForkJoin
<1>1. Init => FJ!Init
  BY DEF Init, FJ!Init, Todo
<1>2. CallInv /\ CallInv' /\ [Next]_vars => [FJ!Next]_(FJ!vars)
  <2> SUFFICES ASSUME CallInv, CallInv', [Next]_vars PROVE [FJ!Next]_(FJ!vars)
    OBVIOUS
  <2>1. CASE UNCHANGED vars
    BY <2>1 DEF vars, FJ!vars, Todo
  <2>2. CASE CallerStep
    BY <2>2, CallerRefines
  <2>3. ASSUME NEW f \in Tasks, Call(f) PROVE FJ!Next
    BY <2>3, CallRefines DEF FJ!Next
  <2>4. ASSUME NEW w \in Spawned, ThreadStep(w) PROVE [FJ!Next]_(FJ!vars)
    BY <2>4, ThreadRefines, Team DEF FJ!Next
  <2> QED
    BY <2>1, <2>2, <2>3, <2>4 DEF Next
<1> QED
  BY <1>1, <1>2, CallInvariant, PTL DEF Spec, ImplementsForkJoin, FJ!Spec

--------------------------------------------------------------------------------
(* The search on its calls.                                                  *)

LEMMA SearchTeam == bfs!Workers = Workers
  BY DEF bfs!Workers, Workers

(* Every step of the program is a step of RunParallel or leaves it alone.    *)
LEMMA StepIsCallStep == BfsNext => [Next]_vars
<1> SUFFICES ASSUME BfsNext PROVE [Next]_vars
  OBVIOUS
<1>1. ASSUME NEW w \in Workers, Worker(w)
      PROVE  UNCHANGED vars \/ (w = 0 /\ EndInline) \/ (w # 0 /\ End(w))
  BY <1>1 DEF Worker
<1>2. CASE Caller
  <2>1. CASE InitParent
    BY <2>1, CaladanAssumption DEF InitParent, Next
  <2>2. CASE DOBFS
    BY <2>2 DEF DOBFS, Next
  <2>3. CASE (Spawn \/ BeginInline \/ Return) /\ UNCHANGED search
    BY <2>3 DEF Next, CallerStep
  <2>4. CASE Worker(0)
    BY <1>1, <2>4, Team DEF Next, CallerStep
  <2> QED
    BY <1>2, <2>1, <2>2, <2>3, <2>4 DEF Caller
<1>3. ASSUME NEW w \in Spawned, Thread(w) PROVE [Next]_vars
  <2>1. CASE Begin(w) \/ Done(w)
    BY <2>1 DEF Next, ThreadStep
  <2>2. CASE Worker(w)
    BY <1>1, <2>2, Team DEF Next, ThreadStep
  <2> QED
    BY <1>3, <2>1, <2>2 DEF Thread
<1> QED
  BY <1>2, <1>3 DEF BfsNext

(* How far the search is.  During a call its region is what the threads run, *)
(* and a thread that has finished leaves its worker done; after a call all   *)
(* are.  InitParent is the region the search begins in, before its call.     *)
Finished(w) ==
  IF w = 0 THEN pc = "wait" /\ running[0] = NoTask
           ELSE thread[w] = "done_call" \/ (thread[w] = "none" /\ (pc = "spawn" => w < t))

CallsFinishRegions ==
  /\ DOMAIN my = Workers
  /\ pc # "idle" => /\ region = fn
                    /\ \A w \in Workers : Finished(w) => my[w].pc = "done"
  /\ pc = "idle" /\ region \in Tasks =>
       \/ bfs!Joined(region)
       \/ region = "InitParent" /\ \A w \in Workers : my[w].pc = "begin"

ProgramInv == CallInv /\ CallsFinishRegions

LEMMA RunningIsRegion ==
  ASSUME ProgramInv, NEW w \in Workers, running[w] # NoTask
  PROVE  pc # "idle" /\ running[w] = region /\ ~Finished(w)
<1>1. running[w] = fn
  BY Team DEF ProgramInv, CallInv
<1>2. pc # "idle"
  BY <1>1 DEF ProgramInv, CallInv
<1>3. w # 0 => thread[w] = "fn"
  BY Team DEF ProgramInv, CallInv
<1> QED
  BY <1>1, <1>2, <1>3 DEF ProgramInv, CallsFinishRegions, Finished

(* A step of a worker is a step of the search, or its function returns.      *)
WorkerWorks(w) ==
  /\ running[w] # NoTask
  /\ bfs!WorkerStep(w)
  /\ UNCHANGED vars

WorkerReturns(w) ==
  /\ my[w].pc = "done"
  /\ IF w = 0 THEN EndInline ELSE End(w)
  /\ UNCHANGED search

LEMMA WorkerActs ==
  ASSUME NEW w \in Workers, Worker(w)
  PROVE  WorkerWorks(w) \/ WorkerReturns(w)
<1> SUFFICES ASSUME \/ InitParentWorker(w)
                    \/ CleanupParentWorker(w)
                    \/ TDStepWorker(w)
                    \/ QueueToBitmapWorker(w)
                    \/ BUStepWorker(w)
                    \/ BitmapToQueueWorker(w),
                    UNCHANGED <<vars, args, region, counters, level>>
             PROVE  WorkerWorks(w)
  BY DEF Worker, WorkerReturns
<1>1. UNCHANGED <<bfs!args, region, bfs!counters, level>> /\ UNCHANGED vars
  BY DEF args, counters, bfs!args, bfs!counters
<1>2. running[w] # NoTask
  BY CaladanAssumption, RunParallelAssumption
  DEF InitParentWorker, CleanupParentWorker, TDStepWorker, QueueToBitmapWorker,
      BUStepWorker, BitmapToQueueWorker
<1>3. bfs!WorkerStep(w)
  BY <1>1
  DEF InitParentWorker, CleanupParentWorker, TDStepWorker, QueueToBitmapWorker,
      BUStepWorker, BitmapToQueueWorker, bfs!WorkerStep
<1> QED
  BY <1>1, <1>2, <1>3 DEF WorkerWorks

(* A worker moves nobody's locals but its own.                               *)
LEMMA WorksAlone ==
  ASSUME DOMAIN my = Workers, NEW w \in Workers, bfs!WorkerStep(w)
  PROVE  DOMAIN my' = Workers /\ \A x \in Workers \ {w} : my'[x] = my[x]
<1> DEFINE Alone == DOMAIN my' = Workers /\ \A x \in Workers \ {w} : my'[x] = my[x]
<1> USE DEF bfs!TakeRange, bfs!Push, bfs!Copied
<1>1. CASE bfs!InitParentWorker(w)
  BY <1>1 DEF bfs!InitParentWorker
<1>2. CASE bfs!CleanupParentWorker(w)
  BY <1>2 DEF bfs!CleanupParentWorker
<1>3. CASE bfs!TDBegin(w)
  BY <1>3 DEF bfs!TDBegin
<1>4. CASE bfs!TDNextVertex(w)
  BY <1>4 DEF bfs!TDNextVertex
<1>5. CASE bfs!TDReadParent(w)
  BY <1>5 DEF bfs!TDReadParent
<1>6. CASE bfs!TDClaim(w)
  BY <1>6 DEF bfs!TDClaim
<1>7. CASE bfs!TDPush(w)
  BY <1>7 DEF bfs!TDPush
<1>8. CASE bfs!TDFlush(w)
  BY <1>8 DEF bfs!TDFlush
<1>9. CASE bfs!FlushCopies(w)
  BY <1>9 DEF bfs!FlushCopies
<1>10. CASE bfs!QBBegin(w)
  BY <1>10 DEF bfs!QBBegin
<1>11. CASE bfs!QBLoad(w)
  BY <1>11 DEF bfs!QBLoad
<1>12. CASE bfs!QBCas(w)
  BY <1>12 DEF bfs!QBCas
<1>13. CASE bfs!BUClaimChunk(w)
  BY <1>13 DEF bfs!BUClaimChunk
<1>14. CASE bfs!BUSkip(w)
  BY <1>14 DEF bfs!BUSkip
<1>15. CASE bfs!BUAwake(w)
  BY <1>15 DEF bfs!BUAwake
<1>16. CASE bfs!BUSetBit(w)
  BY <1>16 DEF bfs!BUSetBit
<1>17. CASE bfs!BQBegin(w)
  BY <1>17 DEF bfs!BQBegin
<1>18. CASE bfs!BQScan(w)
  BY <1>18 DEF bfs!BQScan
<1>19. CASE bfs!BQPush(w)
  BY <1>19 DEF bfs!BQPush
<1>20. CASE bfs!BQFlush(w)
  BY <1>20 DEF bfs!BQFlush
<1> QED
  BY <1>1, <1>2, <1>3, <1>4, <1>5, <1>6, <1>7, <1>8, <1>9, <1>10, <1>11,
     <1>12, <1>13, <1>14, <1>15, <1>16, <1>17, <1>18, <1>19, <1>20 DEF
     bfs!WorkerStep

LEMMA InitProgramInv == BfsInit => ProgramInv
<1> SUFFICES ASSUME BfsInit PROVE ProgramInv
  OBVIOUS
<1>1. CallInv
  BY InitCallInv DEF BfsInit
<1>2. pc = "idle" /\ region = "InitParent" /\ my = [w \in Workers |-> bfs!NewWorker]
  BY SearchTeam DEF BfsInit, Init, bfs!Init
<1>3. \A w \in Workers : my[w].pc = "begin"
  BY <1>2 DEF bfs!NewWorker
<1> QED
  BY <1>1, <1>2, <1>3 DEF ProgramInv, CallsFinishRegions

LEMMA WorkKeepsInv ==
  ASSUME ProgramInv, NEW w \in Workers, WorkerWorks(w)
  PROVE  CallsFinishRegions'
<1>1. pc # "idle" /\ ~Finished(w)
  BY RunningIsRegion DEF WorkerWorks
<1>2. DOMAIN my' = Workers /\ \A x \in Workers \ {w} : my'[x] = my[x]
  BY WorksAlone DEF ProgramInv, CallsFinishRegions, WorkerWorks
<1>3. region' = region /\ fn' = fn /\ pc' = pc
  BY DEF WorkerWorks, bfs!WorkerStep, vars
<1>4. \A x \in Workers : Finished(x)' <=> Finished(x)
  BY DEF WorkerWorks, vars, Finished
<1> QED
  BY <1>1, <1>2, <1>3, <1>4 DEF ProgramInv, CallsFinishRegions

LEMMA ReturnOfWorkerKeepsInv ==
  ASSUME ProgramInv, NEW w \in Workers, WorkerReturns(w)
  PROVE  CallsFinishRegions'
<1>1. my' = my /\ region' = region /\ pc' = pc /\ fn' = fn /\ t' = t
  BY DEF WorkerReturns, search, EndInline, End
<1>2. pc # "idle"
  BY Team DEF WorkerReturns, EndInline, End, ProgramInv, CallInv
<1>3. \A x \in Workers \ {w} : Finished(x)' => Finished(x)
  <2>1. CASE w = 0
    BY <2>1 DEF WorkerReturns, EndInline, Finished
  <2>2. CASE w # 0
    BY <2>2, Team DEF WorkerReturns, End, Finished, ProgramInv, CallInv, CallTypes
  <2> QED
    BY <2>1, <2>2
<1>4. my[w].pc = "done"
  BY DEF WorkerReturns
<1> QED
  BY <1>1, <1>2, <1>3, <1>4 DEF ProgramInv, CallsFinishRegions

(* Spawn, BeginInline, Begin and Done do not finish a worker.                *)
LEMMA CallStepKeepsInv ==
  ASSUME ProgramInv, UNCHANGED search,
         Spawn \/ BeginInline \/ (\E w \in Spawned : Begin(w) \/ Done(w))
  PROVE  CallsFinishRegions'
<1>1. my' = my /\ region' = region /\ fn' = fn
  BY DEF search, Spawn, BeginInline, Begin, Done
<1>2. pc # "idle" /\ pc' # "idle"
  BY DEF Spawn, BeginInline, Begin, Done, ProgramInv, CallInv
<1>3. \A x \in Workers : Finished(x)' => Finished(x)
  <2>1. CASE Spawn
    <3>1. t \in Spawned /\ t # 0 /\ thread[t] = "none" /\ thread' = [thread EXCEPT ![t] = "ready"]
          /\ thread'[t] = "ready"
      BY <2>1, Team, RunParallelAssumption DEF ProgramInv, CallInv, CallTypes, Spawn
    <3>2. \A x \in Spawned : x # t /\ x < t' => x < t
      BY <2>1, <3>1, Team DEF Spawn
    <3> QED
      BY <2>1, <3>1, <3>2, Team DEF Spawn, Finished, ProgramInv, CallInv, CallTypes
  <2>2. CASE BeginInline
    <3>1. running'[0] # NoTask
      BY <2>2, Team DEF BeginInline, ProgramInv, CallInv, CallTypes
    <3>2. \A x \in Spawned : x < t /\ x # 0
      BY <2>2, Team, RunParallelAssumption DEF BeginInline
    <3> QED
      BY <2>2, <3>1, <3>2, Team DEF BeginInline, Finished
  <2>3. ASSUME NEW w \in Spawned, Begin(w)
        PROVE  \A x \in Workers : Finished(x)' => Finished(x)
    BY <2>3, Team DEF Begin, Finished, ProgramInv, CallInv, CallTypes
  <2>4. ASSUME NEW w \in Spawned, Done(w)
        PROVE  \A x \in Workers : Finished(x)' => Finished(x)
    BY <2>4, Team DEF Done, Finished, ProgramInv, CallInv, CallTypes
  <2> QED
    BY <2>1, <2>2, <2>3, <2>4
<1> QED
  BY <1>1, <1>2, <1>3 DEF ProgramInv, CallsFinishRegions

(* A call returns when its region has joined.                                *)
LEMMA ReturnKeepsInv ==
  ASSUME ProgramInv, Return, UNCHANGED search
  PROVE  CallsFinishRegions'
<1>1. my' = my /\ region' = region /\ pc' = "idle" /\ pc = "wait"
  BY DEF search, Return
<1>2. \A w \in Spawned : thread[w] = "none"
  <2>1. Outstanding = {}
    BY OutstandingIsFinite, FS_EmptySet DEF Return, ProgramInv, CallInv
  <2> QED
    BY <2>1 DEF Outstanding
<1>3. \A w \in Workers : Finished(w)
  BY <1>1, <1>2, Team DEF Return, Finished
<1>4. \A w \in Workers : my[w].pc = "done"
  BY <1>1, <1>3 DEF ProgramInv, CallsFinishRegions
<1> QED
  BY <1>1, <1>4, SearchTeam DEF ProgramInv, CallsFinishRegions, bfs!Joined

(* Main forks a region and calls for it in one, or goes on without.          *)
LEMMA MainKeepsInv ==
  ASSUME ProgramInv, InitParent \/ DOBFS
  PROVE  CallsFinishRegions'
<1>1. pc = "idle"
  BY DEF InitParent, DOBFS, Call
<1>2. CASE InitParent
  <2>1. \A w \in Workers : ~Finished(w)'
    BY <1>1, <1>2, Team DEF InitParent, Call, Finished, ProgramInv, CallInv
  <2>2. my' = my /\ region' = region /\ region = fn' /\ pc' = "spawn"
    BY <1>2 DEF InitParent, Call, search
  <2> QED
    BY <2>1, <2>2 DEF ProgramInv, CallsFinishRegions
<1>3. CASE DOBFS
  <2>1. CASE region' \in Tasks
    <3>1. Call(region')
      BY <1>3, <2>1 DEF DOBFS
    <3>2. \A w \in Workers : ~Finished(w)'
      BY <1>1, <3>1, Team DEF Call, Finished, ProgramInv, CallInv
    <3>3. DOMAIN my' = Workers
      BY <1>3, <2>1, SearchTeam, CaladanAssumption
      DEF DOBFS, TDStep, QueueToBitmap, BUStep, BitmapToQueue,
          bfs!Start, bfs!GoTopDown, bfs!EndTopDown, bfs!GoBottomUp, bfs!EnterBottomUp,
          bfs!NextBottomUp, bfs!LeaveBottomUp, bfs!EndBottomUp, bfs!GoCleanup, bfs!Finish, bfs!Fork
    <3> QED
      BY <3>1, <3>2, <3>3 DEF CallsFinishRegions, Call
  <2>2. CASE region' \notin Tasks
    <3>1. UNCHANGED vars
      BY <1>3, <2>2 DEF DOBFS
    <3>2. DOMAIN my' = Workers
      BY <1>3, <2>2, SearchTeam, CaladanAssumption
      DEF DOBFS, TDStep, QueueToBitmap, BUStep, BitmapToQueue, ProgramInv, CallsFinishRegions,
          bfs!Start, bfs!GoTopDown, bfs!EndTopDown, bfs!GoBottomUp, bfs!EnterBottomUp,
          bfs!NextBottomUp, bfs!LeaveBottomUp, bfs!EndBottomUp, bfs!GoCleanup, bfs!Finish, bfs!Fork
    <3> QED
      BY <1>1, <2>2, <3>1, <3>2 DEF CallsFinishRegions, vars
  <2> QED
    BY <2>1, <2>2
<1> QED
  BY <1>2, <1>3

LEMMA StepKeepsProgramInv == ProgramInv /\ [BfsNext]_all_vars => ProgramInv'
<1> SUFFICES ASSUME ProgramInv, [BfsNext]_all_vars PROVE ProgramInv'
  OBVIOUS
<1>1. CallInv'
  BY StepIsCallStep, StepKeepsCallInv DEF ProgramInv, all_vars
<1>2. CASE UNCHANGED all_vars
  BY <1>1, <1>2 DEF all_vars, vars, search, ProgramInv, CallsFinishRegions, Finished, bfs!Joined
<1>3. ASSUME NEW w \in Workers, Worker(w) PROVE CallsFinishRegions'
  BY <1>3, WorkerActs, WorkKeepsInv, ReturnOfWorkerKeepsInv
<1>4. ASSUME Caller PROVE CallsFinishRegions'
  <2>1. CASE InitParent \/ DOBFS
    BY <2>1, MainKeepsInv
  <2>2. CASE (Spawn \/ BeginInline \/ Return) /\ UNCHANGED search
    BY <2>2, CallStepKeepsInv, ReturnKeepsInv
  <2>3. CASE Worker(0)
    BY <1>3, <2>3, Team
  <2> QED
    BY <1>4, <2>1, <2>2, <2>3 DEF Caller
<1>5. ASSUME NEW w \in Spawned, Thread(w) PROVE CallsFinishRegions'
  BY <1>3, <1>5, Team, CallStepKeepsInv DEF Thread
<1> QED
  BY <1>1, <1>2, <1>4, <1>5 DEF BfsNext, ProgramInv

LEMMA ProgramInvariant == BfsSpec => []ProgramInv
  BY InitProgramInv, StepKeepsProgramInv, PTL DEF BfsSpec

(* src/bfs.cc:74-82: every region of the program is a fork and a join.       *)
THEOREM RegionsForkAndJoin == BfsSpec => ImplementsForkJoin
<1>1. [BfsNext]_all_vars => [Next]_vars
  BY StepIsCallStep DEF all_vars
<1>2. BfsSpec => Spec
  BY <1>1, PTL DEF BfsSpec, BfsInit, Spec
<1> QED
  BY <1>2, RunParallelIsForkJoin

(* src/bfs.cc:74-82,460-498: main goes on only after a call has returned,    *)
(* and then no thread of the call is left and every worker has finished.     *)
SearchWaitsForCalls ==
  pc = "idle" => /\ \A w \in Spawned : thread[w] = "none"
                 /\ \/ region \notin Tasks \/ bfs!Joined(region)
                    \/ region = "InitParent" /\ \A w \in Workers : my[w].pc = "begin"

THEOREM MainWaitsForItsThreads == BfsSpec => []SearchWaitsForCalls
<1>1. ProgramInv => SearchWaitsForCalls
  BY DEF ProgramInv, CallInv, CallsFinishRegions, SearchWaitsForCalls
<1> QED
  BY <1>1, ProgramInvariant, PTL

LEMMA StepIsSearchStep == [BfsNext]_all_vars => [bfs!Next]_(bfs!vars)
<1> SUFFICES ASSUME [BfsNext]_all_vars PROVE [bfs!Next]_(bfs!vars)
  OBVIOUS
<1>1. UNCHANGED search => UNCHANGED bfs!vars
  BY DEF search, args, counters, bfs!vars, bfs!args, bfs!counters, bfs!tree, bfs!queue_vars,
         bfs!bitmaps
<1>2. ASSUME NEW w \in Workers, Worker(w) PROVE [bfs!Next]_(bfs!vars)
  BY <1>1, <1>2, WorkerActs, SearchTeam DEF bfs!Next, WorkerWorks, WorkerReturns
<1>3. CASE DOBFS
  <2>1. UNCHANGED bfs!args
    BY <1>3 DEF DOBFS, args, bfs!args
  <2>2. bfs!MainStep
    BY <1>3, <2>1 DEF DOBFS, TDStep, QueueToBitmap, BUStep, BitmapToQueue, bfs!MainStep
  <2> QED
    BY <2>2 DEF bfs!Next
<1>4. CASE Caller
  <2>1. CASE InitParent \/ UNCHANGED search
    BY <1>1, <2>1 DEF InitParent
  <2> QED
    BY <1>2, <1>3, <1>4, <2>1, Team DEF Caller
<1>5. ASSUME NEW w \in Spawned, Thread(w) PROVE [bfs!Next]_(bfs!vars)
  BY <1>1, <1>2, <1>5, Team DEF Thread
<1>6. CASE UNCHANGED all_vars
  BY <1>1, <1>6 DEF all_vars
<1> QED
  BY <1>4, <1>5, <1>6 DEF BfsNext

(* src/bfs.cc:460-584: what runs on the threads of RunParallel is the        *)
(* search of DOBFS, step for step.                                           *)
THEOREM SearchIsDOBFS == BfsSpec => bfs!Spec
  BY StepIsSearchStep, PTL DEF BfsSpec, BfsInit, bfs!Spec

LEMMA SearchAssumptions == proved!DOBFSAssumption /\ proved!ChunkAssumption
  BY RunParallelAssumption, SearchAssumption DEF bfs!Nodes, proved!Nodes

LEMMA SameInit == bfs!Init => proved!Init
  BY DEF bfs!Init, proved!Init, bfs!Nodes, proved!Nodes, bfs!Workers, proved!Workers,
         bfs!NewWorker, proved!NewWorker, bfs!queue!Init, proved!queue!Init, bfs!queue!Slots,
         proved!queue!Slots, bfs!queue!shared_size, proved!queue!shared_size,
         bfs!queue!NotFlushing, proved!queue!NotFlushing, bfs!queue!Cardinality,
         proved!queue!Cardinality

LEMMA SameOperators ==
  /\ bfs!Nodes = proved!Nodes /\ bfs!Workers = proved!Workers
  /\ bfs!vars = proved!vars
  /\ bfs!Reduce = proved!Reduce
  /\ bfs!num_edges_directed = proved!num_edges_directed
  /\ \A n \in Nat : bfs!out_degree(n) = proved!out_degree(n)
  BY DEF bfs!Nodes, proved!Nodes, bfs!Workers, proved!Workers, bfs!vars, proved!vars, bfs!args,
         proved!args, bfs!counters, proved!counters, bfs!queue_vars, proved!queue_vars,
         bfs!tree, proved!tree, bfs!bitmaps, proved!bitmaps, bfs!Reduce, proved!Reduce,
         bfs!num_edges_directed, proved!num_edges_directed, bfs!out_degree, proved!out_degree,
         bfs!Cardinality, proved!Cardinality, bfs!SumFunction, proved!SumFunction,
         bfs!SumFunctionOnSet, proved!SumFunctionOnSet, bfs!FoldFunctionOnSet,
         proved!FoldFunctionOnSet, bfs!MapThenFoldSet, proved!MapThenFoldSet

LEMMA SameWorkerStep ==
  ASSUME NEW w, bfs!WorkerStep(w) PROVE proved!WorkerStep(w)
<1> USE DEF bfs!At, proved!At, bfs!args, proved!args, bfs!counters, proved!counters,
            bfs!queue_vars, proved!queue_vars, bfs!tree, proved!tree, bfs!bitmaps,
            proved!bitmaps
<1>1. bfs!InitParentWorker(w) => proved!InitParentWorker(w)
  BY DEF bfs!InitParentWorker, proved!InitParentWorker, bfs!Range_, proved!Range_,
         bfs!StaticRange, proved!StaticRange, bfs!out_degree, proved!out_degree,
         bfs!Cardinality, proved!Cardinality, bfs!Nodes, proved!Nodes
<1>2. bfs!CleanupParentWorker(w) => proved!CleanupParentWorker(w)
  BY DEF bfs!CleanupParentWorker, proved!CleanupParentWorker, bfs!Range_, proved!Range_,
         bfs!StaticRange, proved!StaticRange, bfs!Nodes, proved!Nodes
<1>3. bfs!TDBegin(w) => proved!TDBegin(w)
  BY DEF bfs!TDBegin, proved!TDBegin, bfs!TakeRange, proved!TakeRange, bfs!StaticRange,
         proved!StaticRange, bfs!queue!size, proved!queue!size
<1>4. bfs!TDNextVertex(w) => proved!TDNextVertex(w)
  BY DEF bfs!TDNextVertex, proved!TDNextVertex
<1>5. bfs!TDReadParent(w) => proved!TDReadParent(w)
  BY DEF bfs!TDReadParent, proved!TDReadParent
<1>6. bfs!TDClaim(w) => proved!TDClaim(w)
  BY DEF bfs!TDClaim, proved!TDClaim
<1>7. bfs!TDPush(w) => proved!TDPush(w)
  BY DEF bfs!TDPush, proved!TDPush, bfs!Push, proved!Push, bfs!queue!Full, proved!queue!Full,
         bfs!queue!LocalPush, proved!queue!LocalPush, bfs!queue!Reserve, proved!queue!Reserve,
         bfs!queue!NotFlushing, proved!queue!NotFlushing
<1>8. bfs!TDFlush(w) => proved!TDFlush(w)
  BY DEF bfs!TDFlush, proved!TDFlush, bfs!queue!Reserve, proved!queue!Reserve,
         bfs!queue!NotFlushing, proved!queue!NotFlushing
<1>9. bfs!FlushCopies(w) => proved!FlushCopies(w)
  BY DEF bfs!FlushCopies, proved!FlushCopies, bfs!Copied, proved!Copied, bfs!Nodes,
         proved!Nodes, bfs!queue!CopyOut, proved!queue!CopyOut, bfs!queue!NotFlushing,
         proved!queue!NotFlushing, bfs!queue!Slots, proved!queue!Slots, bfs!queue!Reserved,
         proved!queue!Reserved, bfs!queue!shared_size, proved!queue!shared_size,
         bfs!queue!Cardinality, proved!queue!Cardinality
<1>10. bfs!QBBegin(w) => proved!QBBegin(w)
  BY DEF bfs!QBBegin, proved!QBBegin, bfs!TakeRange, proved!TakeRange, bfs!StaticRange,
         proved!StaticRange, bfs!queue!size, proved!queue!size
<1>11. bfs!QBLoad(w) => proved!QBLoad(w)
  BY DEF bfs!QBLoad, proved!QBLoad, bfs!bitmap!LoadWord, proved!bitmap!LoadWord,
         bfs!bitmap!word_offset, proved!bitmap!word_offset
<1>12. bfs!QBCas(w) => proved!QBCas(w)
  BY DEF bfs!QBCas, proved!QBCas, bfs!bitmap!LoadWord, proved!bitmap!LoadWord,
         bfs!bitmap!word_offset, proved!bitmap!word_offset, bfs!bitmap!SetBitStore,
         proved!bitmap!SetBitStore, bfs!bitmap!StoreWord, proved!bitmap!StoreWord
<1>13. bfs!BUClaimChunk(w) => proved!BUClaimChunk(w)
  BY DEF bfs!BUClaimChunk, proved!BUClaimChunk
<1>14. bfs!BUSkip(w) => proved!BUSkip(w)
  BY DEF bfs!BUSkip, proved!BUSkip, bfs!Awakening, proved!Awakening, bfs!in_neigh,
         proved!in_neigh, bfs!Nodes, proved!Nodes, bfs!bitmap!get_bit, proved!bitmap!get_bit
<1>15. bfs!BUAwake(w) => proved!BUAwake(w)
  BY DEF bfs!BUAwake, proved!BUAwake, bfs!Awakening, proved!Awakening, bfs!in_neigh,
         proved!in_neigh, bfs!Nodes, proved!Nodes, bfs!bitmap!get_bit, proved!bitmap!get_bit,
         bfs!bitmap!LoadWord, proved!bitmap!LoadWord, bfs!bitmap!word_offset,
         proved!bitmap!word_offset
<1>16. bfs!BUSetBit(w) => proved!BUSetBit(w)
  BY DEF bfs!BUSetBit, proved!BUSetBit, bfs!bitmap!LoadWord, proved!bitmap!LoadWord,
         bfs!bitmap!word_offset, proved!bitmap!word_offset, bfs!bitmap!SetBitStore,
         proved!bitmap!SetBitStore, bfs!bitmap!StoreWord, proved!bitmap!StoreWord
<1>17. bfs!BQBegin(w) => proved!BQBegin(w)
  BY DEF bfs!BQBegin, proved!BQBegin, bfs!TakeRange, proved!TakeRange, bfs!StaticRange,
         proved!StaticRange
<1>18. bfs!BQScan(w) => proved!BQScan(w)
  BY DEF bfs!BQScan, proved!BQScan, bfs!bitmap!get_bit, proved!bitmap!get_bit
<1>19. bfs!BQPush(w) => proved!BQPush(w)
  BY DEF bfs!BQPush, proved!BQPush, bfs!Push, proved!Push, bfs!queue!Full, proved!queue!Full,
         bfs!queue!LocalPush, proved!queue!LocalPush, bfs!queue!Reserve, proved!queue!Reserve,
         bfs!queue!NotFlushing, proved!queue!NotFlushing
<1>20. bfs!BQFlush(w) => proved!BQFlush(w)
  BY DEF bfs!BQFlush, proved!BQFlush, bfs!queue!Reserve, proved!queue!Reserve,
         bfs!queue!NotFlushing, proved!queue!NotFlushing
<1> QED
  BY <1>1, <1>2, <1>3, <1>4, <1>5, <1>6, <1>7, <1>8, <1>9, <1>10, <1>11,
     <1>12, <1>13, <1>14, <1>15, <1>16, <1>17, <1>18, <1>19, <1>20
  DEF bfs!WorkerStep, proved!WorkerStep

LEMMA SameMainStep ==
  ASSUME bfs!MainStep PROVE proved!MainStep
<1> USE DEF bfs!Joined, proved!Joined, bfs!Fork, proved!Fork, bfs!NewWorker, proved!NewWorker,
            bfs!Workers, proved!Workers, bfs!args, proved!args, bfs!counters, proved!counters,
            bfs!queue_vars, proved!queue_vars, bfs!tree, proved!tree, bfs!bitmaps,
            proved!bitmaps
<1>1. bfs!Start => proved!Start
  BY DEF bfs!Start, proved!Start, bfs!queue!push_back_and_slide,
         proved!queue!push_back_and_slide, bfs!queue!PushAndSlide, proved!queue!PushAndSlide,
         bfs!num_edges_directed, proved!num_edges_directed, bfs!out_degree, proved!out_degree,
         bfs!Nodes, proved!Nodes, bfs!queue!Slots, proved!queue!Slots, bfs!queue!shared_size,
         proved!queue!shared_size, bfs!queue!Cardinality, proved!queue!Cardinality,
         bfs!Cardinality, proved!Cardinality, bfs!SumFunction, proved!SumFunction,
         bfs!SumFunctionOnSet, proved!SumFunctionOnSet, bfs!FoldFunctionOnSet,
         proved!FoldFunctionOnSet, bfs!MapThenFoldSet, proved!MapThenFoldSet
<1>2. bfs!GoBottomUp => proved!GoBottomUp
  BY DEF bfs!GoBottomUp, proved!GoBottomUp, bfs!queue!empty, proved!queue!empty
<1>3. bfs!GoTopDown => proved!GoTopDown
  BY DEF bfs!GoTopDown, proved!GoTopDown, bfs!queue!empty, proved!queue!empty
<1>4. bfs!EndTopDown => proved!EndTopDown
  BY DEF bfs!EndTopDown, proved!EndTopDown, bfs!Reduce, proved!Reduce, bfs!queue!slide_window,
         proved!queue!slide_window, bfs!SumFunction, proved!SumFunction, bfs!SumFunctionOnSet,
         proved!SumFunctionOnSet, bfs!FoldFunctionOnSet, proved!FoldFunctionOnSet,
         bfs!MapThenFoldSet, proved!MapThenFoldSet
<1>5. bfs!EnterBottomUp => proved!EnterBottomUp
  BY DEF bfs!EnterBottomUp, proved!EnterBottomUp, bfs!queue!size, proved!queue!size,
         bfs!queue!slide_window, proved!queue!slide_window
<1>6. bfs!NextBottomUp => proved!NextBottomUp
  BY DEF bfs!NextBottomUp, proved!NextBottomUp, bfs!Reduce, proved!Reduce, bfs!KeepsGoing,
         proved!KeepsGoing, bfs!SumFunction, proved!SumFunction, bfs!SumFunctionOnSet,
         proved!SumFunctionOnSet, bfs!FoldFunctionOnSet, proved!FoldFunctionOnSet,
         bfs!MapThenFoldSet, proved!MapThenFoldSet
<1>7. bfs!LeaveBottomUp => proved!LeaveBottomUp
  BY DEF bfs!LeaveBottomUp, proved!LeaveBottomUp, bfs!Reduce, proved!Reduce, bfs!KeepsGoing,
         proved!KeepsGoing, bfs!SumFunction, proved!SumFunction, bfs!SumFunctionOnSet,
         proved!SumFunctionOnSet, bfs!FoldFunctionOnSet, proved!FoldFunctionOnSet,
         bfs!MapThenFoldSet, proved!MapThenFoldSet
<1>8. bfs!EndBottomUp => proved!EndBottomUp
  BY DEF bfs!EndBottomUp, proved!EndBottomUp, bfs!queue!slide_window, proved!queue!slide_window
<1>9. bfs!GoCleanup => proved!GoCleanup
  BY DEF bfs!GoCleanup, proved!GoCleanup, bfs!queue!empty, proved!queue!empty
<1>10. bfs!Finish => proved!Finish
  BY DEF bfs!Finish, proved!Finish
<1> QED
  BY <1>1, <1>2, <1>3, <1>4, <1>5, <1>6, <1>7, <1>8, <1>9, <1>10
  DEF bfs!MainStep, proved!MainStep

LEMMA SameSpec == bfs!Spec => proved!Spec
<1>1. bfs!Workers = proved!Workers /\ bfs!vars = proved!vars
  BY SameOperators
<1>2. [bfs!Next]_(bfs!vars) => [proved!Next]_(proved!vars)
  <2>1. bfs!Next => proved!Next
    BY <1>1, SameWorkerStep, SameMainStep DEF bfs!Next, proved!Next
  <2>2. UNCHANGED bfs!vars => UNCHANGED proved!vars
    BY DEF bfs!vars, proved!vars, bfs!args, proved!args, bfs!counters, proved!counters,
           bfs!queue_vars, proved!queue_vars, bfs!tree, proved!tree, bfs!bitmaps,
           proved!bitmaps
  <2> QED
    BY <2>1, <2>2
<1> QED
  BY <1>2, SameInit, PTL DEF bfs!Spec, proved!Spec

(* sliding_queue.h:105-106, src/bfs.cc: on Caladan's threads too, no vertex  *)
(* is queued twice and overlapping flushes have slots of their own.          *)
THEOREM CaladanQueuesOnce == BfsSpec => []bfs!NoVertexQueuedTwice
<1>1. proved!NoVertexQueuedTwice => bfs!NoVertexQueuedTwice
  BY DEF bfs!NoVertexQueuedTwice, proved!NoVertexQueuedTwice, bfs!Nodes, proved!Nodes,
         bfs!Workers, proved!Workers, bfs!queue!NoItemTwice, proved!queue!NoItemTwice,
         bfs!queue!NeverOverflows, proved!queue!NeverOverflows, bfs!queue!FlushesAreDisjoint,
         proved!queue!FlushesAreDisjoint, bfs!queue!Written, proved!queue!Written,
         bfs!queue!Buffered, proved!queue!Buffered, bfs!queue!Reserved, proved!queue!Reserved,
         bfs!queue!NotFlushing, proved!queue!NotFlushing, bfs!queue!shared_size,
         proved!queue!shared_size, bfs!queue!Cardinality, proved!queue!Cardinality,
         bfs!queue!ToSet, proved!queue!ToSet, bfs!queue!IsInjective, proved!queue!IsInjective
<1>2. proved!Spec => []proved!NoVertexQueuedTwice
  BY proved!EveryVertexIsQueuedOnce, SearchAssumptions
<1> QED
  BY <1>1, <1>2, SearchIsDOBFS, SameSpec, PTL

LEMMA SameVerifier == proved!ResultVerifies => bfs!ResultVerifies
  BY DEF bfs!ResultVerifies, proved!ResultVerifies, bfs!Nodes, proved!Nodes,
         bfs!VerifierAccepts, proved!VerifierAccepts, bfs!in_neigh, proved!in_neigh,
         bfs!Distance, proved!Distance, bfs!Ball, proved!Ball

(* src/bfs.cc:460-584: when the program's search is over, its tree is one    *)
(* that BFSVerifier accepts and no thread of any call is left, whatever the  *)
(* graph, the team and the order in which Caladan ran its threads.           *)
SearchEndsWell ==
  region = "done" => BFSVerifier /\ \A w \in Spawned : thread[w] = "none"

THEOREM CaladanTreeVerifies == BfsSpec => []SearchEndsWell
<1>1. ProgramInv /\ bfs!ResultVerifies => SearchEndsWell
  <2> SUFFICES ASSUME ProgramInv, bfs!ResultVerifies, region = "done" PROVE SearchEndsWell
    BY DEF SearchEndsWell
  <2>1. region \notin Tasks
    BY CaladanAssumption
  <2>2. pc = "idle"
    BY <2>1 DEF ProgramInv, CallsFinishRegions, CallInv, CallTypes
  <2> QED
    BY <2>2 DEF ProgramInv, CallInv, SearchEndsWell, BFSVerifier, bfs!ResultVerifies
<1>2. proved!Spec => []proved!ResultVerifies
  BY proved!VerifierAcceptsEveryTree, SearchAssumptions
<1> QED
  BY <1>1, <1>2, SearchIsDOBFS, SameSpec, SameVerifier, ProgramInvariant, PTL

================================================================================
