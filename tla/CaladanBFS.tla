------------------------------ MODULE CaladanBFS ------------------------------
(***************************************************************************)
(* The Caladan program as a whole: src/bfs.cc.  Its search is DOBFS, its     *)
(* regions are calls of RunParallel: a worker's code runs in the thread that *)
(* the call spawned for it, or inline in the caller for worker 0, and the    *)
(* search goes on only after the call has returned.                         *)
(*                                                                          *)
(* Names of RunParallel belong to the caller (pc, vars, Init, Next, Spec);   *)
(* region is what DOBFS calls pc.                                            *)
(***************************************************************************)
EXTENDS RunParallel

CONSTANTS
  num_nodes, Graphs, Alphas, Betas, MaxBuIters, kChunk, kBitsPerWord, local_size, Garbage

VARIABLES
  out_neigh, source, alpha, beta, max_bu_iters, region, parent,
  shared, shared_in, shared_out_start, shared_out_end, local_queue, copy_start,
  front, curr, edges_to_check, scout_count, awake_count, old_awake_count, bu_iters,
  next_index, my, depth, level

bfs == INSTANCE DOBFS WITH NumThreads <- nthreads, pc <- region

args == <<out_neigh, source, alpha, beta, max_bu_iters>>
counters == <<edges_to_check, scout_count, awake_count, old_awake_count, bu_iters>>
search == <<args, region, parent, shared, shared_in, shared_out_start, shared_out_end,
            local_queue, copy_start, front, curr, counters, next_index, my, depth, level>>
all_vars == <<vars, search>>

(* ResolveNumThreads gives at least one thread; every region is a task.      *)
ASSUME CaladanAssumption ==
  /\ nthreads \in Nat \ {0}
  /\ Tasks = {"InitParent", "QueueToBitmap", "BUStep", "BitmapToQueue", "TDStep", "Cleanup"}

(* What DOBFS asks for; a dynamic chunk is whole words here too.             *)
ASSUME SearchAssumption ==
  /\ num_nodes \in Nat \ {0}
  /\ Graphs \subseteq [bfs!Nodes -> SUBSET bfs!Nodes]
  /\ Alphas \subseteq Nat \ {0} /\ Betas \subseteq Nat \ {0} /\ MaxBuIters \subseteq Nat
  /\ kBitsPerWord \in Nat \ {0} /\ kChunk \in Nat \ {0} /\ kChunk % kBitsPerWord = 0
  /\ local_size \in Nat \ {0}
  /\ Garbage \notin bfs!Nodes

BfsInit == Init /\ bfs!Init

--------------------------------------------------------------------------------
(* The worker functions, wherever RunParallel runs them.                     *)

InitParentWorker(w) == running[w] = "InitParent" /\ bfs!InitParentWorker(w)

CleanupParentWorker(w) == running[w] = "Cleanup" /\ bfs!CleanupParentWorker(w)

TDStepWorker(w) ==
  /\ running[w] = "TDStep"
  /\ \/ bfs!TDBegin(w)
     \/ bfs!TDNextVertex(w)
     \/ bfs!TDReadParent(w)
     \/ bfs!TDClaim(w)
     \/ bfs!TDPush(w)
     \/ bfs!TDFlush(w)
     \/ bfs!FlushCopies(w)

QueueToBitmapWorker(w) ==
  /\ running[w] = "QueueToBitmap"
  /\ bfs!QBBegin(w) \/ bfs!QBLoad(w) \/ bfs!QBCas(w)

BUStepWorker(w) ==
  /\ running[w] = "BUStep"
  /\ bfs!BUClaimChunk(w) \/ bfs!BUSkip(w) \/ bfs!BUAwake(w) \/ bfs!BUSetBit(w)

BitmapToQueueWorker(w) ==
  /\ running[w] = "BitmapToQueue"
  /\ bfs!BQBegin(w) \/ bfs!BQScan(w) \/ bfs!BQPush(w) \/ bfs!BQFlush(w) \/ bfs!FlushCopies(w)

(* A worker function returns when the worker has nothing left to do.         *)
Worker(w) ==
  \/ /\ \/ InitParentWorker(w)
        \/ CleanupParentWorker(w)
        \/ TDStepWorker(w)
        \/ QueueToBitmapWorker(w)
        \/ BUStepWorker(w)
        \/ BitmapToQueueWorker(w)
     /\ UNCHANGED <<vars, args, region, counters, level>>
  \/ /\ my[w].pc = "done"
     /\ IF w = 0 THEN EndInline ELSE End(w)
     /\ UNCHANGED search

--------------------------------------------------------------------------------
(* The functions that call RunParallel, and DOBFS.  Each takes up where the  *)
(* call before it has returned; in DOBFS that is where the team has joined,  *)
(* which ImplementsForkJoin shows to be the case whenever a call returns.    *)

InitParent ==
  /\ region = "InitParent" /\ ~bfs!Joined("InitParent")
  /\ Call("InitParent")
  /\ UNCHANGED search

TDStep == bfs!GoTopDown \/ bfs!EndTopDown

QueueToBitmap == bfs!GoBottomUp

BUStep == bfs!EnterBottomUp \/ bfs!NextBottomUp

BitmapToQueue == bfs!LeaveBottomUp \/ bfs!EndBottomUp

DOBFS ==
  /\ pc = "idle"
  /\ UNCHANGED args
  /\ \/ bfs!Start
     \/ TDStep
     \/ QueueToBitmap
     \/ BUStep
     \/ BitmapToQueue
     \/ bfs!GoCleanup
     \/ bfs!Finish
  /\ IF region' \in Tasks THEN Call(region') ELSE UNCHANGED vars

Caller ==
  \/ InitParent
  \/ DOBFS
  \/ (Spawn \/ BeginInline \/ Return) /\ UNCHANGED search
  \/ Worker(0)

Thread(w) ==
  \/ (Begin(w) \/ Done(w)) /\ UNCHANGED search
  \/ Worker(w)

BfsNext == Caller \/ \E w \in Spawned : Thread(w)

(* The runtime schedules every thread it has spawned, and the caller.        *)
BfsSpec ==
  /\ BfsInit /\ [][BfsNext]_all_vars
  /\ WF_all_vars(Caller)
  /\ \A w \in Spawned : WF_all_vars(Thread(w))

--------------------------------------------------------------------------------
BFSVerifier == \A u \in bfs!Nodes : bfs!VerifierAccepts(u)

(* src/bfs.cc:74-82,460-498: no call waits for a thread that will not come   *)
(* and no region is left half done: the search ends with a tree the verifier *)
(* accepts, and no thread of any call is left behind.                        *)
Terminates ==
  <>[](region = "done" /\ BFSVerifier /\ \A w \in Spawned : thread[w] = "none")

================================================================================
