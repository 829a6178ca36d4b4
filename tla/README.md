# A verification project for the GAP Benchmark Suite with hand-written BFS runtimes

The repository is the GAP Benchmark Suite (`src/src/`: graph kernels on OpenMP) to which two
re-implementations of the direction-optimizing BFS were added: `src/src/bfs_pthread.cc`, which
replaces OpenMP by a thread pool and a barrier of its own, and `src/bfs.cc`, the same program on the
Caladan user-level threads. This directory holds TLA+ models of both runtimes, of all kernels and of
the way from a file or a generator to a graph and back, the TLC runs that check them on small
instances, and TLAPS proofs of the properties that must hold for every number of threads and every
graph.

## 1. The system

| component | code | state | operations | who uses it |
|---|---|---|---|---|
| spin barrier | `bfs_pthread.cc` `SpinBarrier`, futex wrappers | `count_`, `phase_`; a local `my_phase` per thread | `init`, `wait` | the pool, twice |
| thread pool | `bfs_pthread.cc` `ThreadPool`, `Pool` | two barriers, `task_fn_`, `task_ctx_`, `shutdown_`, the threads | `Init`, `Run`, `Shutdown`, `WorkerMain` | every region of the pthread BFS |
| Caladan fork-join | `src/bfs.cc` `RunParallel` | a `WaitGroup` on the stack, spawned user threads | `RunParallel` | every region of the Caladan BFS |
| sliding queue | `sliding_queue.h` | an array appended to, a window of it, thread-local buffers | `push_back`, `slide_window`, `reset`, `QueueBuffer::push_back`, `flush` | BFS, BC |
| bitmap | `bitmap.h` | words of 64 bits | `set_bit`, `set_bit_atomic`, `get_bit`, `reset`, `swap` | BFS, BC, the CC verifiers |
| BFS | `bfs_pthread.cc`, `src/bfs.cc`, `src/src/bfs.cc`: `DOBFS` and its six regions | `parent`, queue, two bitmaps, counters | `TDStep`, `BUStep`, the conversions, `BFSVerifier` | benchmark driver |
| connected components | `cc.cc` (Afforest), `cc_sv.cc` (Shiloach-Vishkin) | `comp`, a forest of labels | `Link`, `Compress`, `Afforest`, `CCVerifier` | benchmark driver |
| shortest paths | `sssp.cc` (delta-stepping) | `dist`, thread-local bins, a shared bin with double-buffered index and tail | `RelaxEdges`, `DeltaStep`, `SSSPVerifier` | benchmark driver |
| betweenness | `bc.cc` (Brandes) | `path_counts`, `succ`, `depth_index`, queue | `PBFS`, `Brandes` | benchmark driver |
| triangles | `tc.cc` | a counter | `OrderedCount`, `WorthRelabelling`, `Hybrid`, `TCVerifier` | benchmark driver |
| PageRank | `pr.cc`, `pr_spmv.cc` | `scores`, `outgoing_contrib` | `PageRankPullGS`, `PageRankPull`, `PRVerifier` | benchmark driver |
| builder | `builder.h` | edge list, degrees, offsets, CSR arrays | `MakeGraph`, `MakeCSR`, `MakeCSRInPlace`, `SquishCSR`, `ParallelPrefixSum`, `RelabelByDegree` | every program |
| graph | `graph.h`, `pvector.h` | CSR arrays, owned; neighbours with weights | counts, neighbourhoods, moves, frees | every program |
| generator | `generator.h` | a random generator per thread | `MakeUniformEL`, `MakeRMatEL`, `PermuteIDs`, `InsertWeights`, `UniDist` | builder |
| readers | `reader.h` | an edge list | `ReadInEL`, `ReadInWEL`, `ReadInGR`, `ReadInMetis`, `ReadInMTX`, `ReadSerializedGraph` | builder |
| writers | `writer.h`, `converter.cc` | a file | `WriteEL`, `WriteSerializedGraph` | converter |
| driver | `benchmark.h`, `command_line.h` | options, trial times | `BenchmarkKernel`, `SourcePicker`, `TopK` | every program |
| scripts | `run_gapbs_perf.sh`, `run_gapbs_pr_perf.sh`, `plot_imc_csv.py` | processes, CSV files | sampler hand-shake, plots | by hand |

Interactions: `main` parses options, builds a graph and calls a kernel once per trial through
`BenchmarkKernel`. In the pthread BFS the kernel (`DOBFS`, on the main thread) opens a parallel
region by `Pool().Run(worker, &ctx)`; main and the workers meet at `job_start_`, the workers run the
task, all meet again at `job_end_`. Context, partial sums and bitmaps live on main's stack or heap
and are shared with the workers by plain pointers; only the barriers order the accesses. Inside a
region the workers race on `parent` (compare-and-swap), `shared_in` (fetch-and-add), bitmap words and
a chunk index.

What is hard here: reuse of the barrier (an early thread can be in the next episode while a late one
has not seen the end of the last), the window between checking the sense and sleeping in the kernel,
plain fields guarded only by barriers, vertices claimed by two threads, non-atomic bit stores that are
safe only because of a chunk size, a bitmap that is never cleared between two bottom-up phases, a
queue that never checks its capacity, and a do-while loop whose exit depends on counters computed by
all threads. The other kernels add labels that are
hooked and compressed without locks, relaxations with distances out of date, bins that move between
threads, path counts that many threads add to, contributions that change while a sweep reads them, a list that
must not depend on which thread generated which block, and a builder that works inside the memory of
its own input. Nothing is persisted, there is no messaging and no time-out, so crash recovery and unreliable
delivery do not occur. The complete list, with the line where each hazard bites and the property that
watches it, is `hazards` in `PROJECT.json`.

What makes each component correct:

- barrier: nobody passes before all have arrived, everybody passes afterwards, episode after episode;
- pool and `RunParallel`: every worker runs the task of the call exactly once, nobody works between
  calls, calls and the shutdown return;
- sliding queue: what was pushed during a level, and nothing else, is the window of the next; no slot
  is written twice or past the end;
- BFS: every reachable vertex is claimed once, from a parent of the level being expanded, in either
  direction; the counts that steer the search are exact; the search ends;
- components: labels descend, stay in their component, and at the end name it;
- shortest paths: no improvement is lost, bins are taken in order, the distances are the shortest;
- betweenness: a count is complete before it is read, no update of a score is lost;
- PageRank: an iteration is one sweep over whole contributions, and a run that stops early has scores
  that are good enough for its verifier;
- triangles: every triangle is counted once, and the unbounded inner scan stays in its list;
- builder: the CSR arrays are the graph of the edge list, whichever way they are built, with a weight of
  the lightest copy of each edge, the same one in both directions;
- generator: the list is the serial one, whoever made which block;
- files: what is written is what is read back, and every format lists the same edges.

## 2. Modules

| module | what it is | run | proofs |
|---|---|---|---|
| `Rendezvous` | what a reusable barrier promises | `barrier` (refined) | `SpinBarrierProofs` |
| `SpinBarrier` | `SpinBarrier::wait`, one step per access and per futex call | `barrier` | `SpinBarrierProofs` |
| `ForkJoin` | what a parallel region promises | `pool`, `caladan` (refined) | `ThreadPoolProofs`, `CaladanProofs` |
| `ThreadPool` | the pool, over two instances of `SpinBarrier` | `pool`, `pool_unstartable` | `ThreadPoolProofs` |
| `RunParallel` | the fork-join of the Caladan program | inside `caladan` | `CaladanProofs` |
| `LevelQueue` | what a queue promises to a search by levels | `dobfs` (refined) | `DOBFSProofs` |
| `SlidingQueue` | the queue and its thread-local buffers | inside `dobfs`, `caladan`, `bc` | `DOBFSProofs`, `BCProofs` |
| `Bitmap` | words of bits, plain and atomic set | inside `dobfs`, `caladan` | `DOBFSProofs` |
| `LevelBFS` | search by levels, claims in any order | `dobfs` (refined) | `DOBFSProofs` |
| `DOBFS` | the direction-optimizing BFS with its regions | `dobfs`, inside `caladan` | `DOBFSProofs` |
| `CaladanBFS` | that search on that fork-join: `src/bfs.cc` as a whole | `caladan` | `CaladanProofs` |
| `Components` | joining groups along edges | `cc` (refined) | `CCProofs` |
| `Labelling` | graph, labels and verifier of both component programs | `cc`, `cc_sv` | `CCProofs`, `CCSVProofs` |
| `CC` | Afforest | `cc` | `CCProofs` |
| `CCSV` | Shiloach-Vishkin | `cc_sv` | `CCSVProofs` |
| `ShortestPaths` | relaxing edges with distances out of date | `sssp` (refined) | `SSSPProofs` |
| `SSSP` | delta-stepping with fused bins | `sssp`, `sssp_overflow` | `SSSPProofs` |
| `BC` | Brandes' algorithm | `bc` | `BCProofs` |
| `PageRank` | both PageRank programs | `pagerank` | |
| `Builder` | from an edge list to CSR arrays | inside `make_graph` | |
| `GraphFile` | the readers and writers | inside `make_graph` | |
| `Generator` | synthetic lists and weights | inside `make_graph` | |
| `TriangleCount` | triangle counting on CSR arrays | inside `make_graph` | |
| `MakeGraph` | from a file or a generator to a graph, and what is done with it | `make_graph` | |

`MC*` modules hold only what TLC is given: graphs, lists, files, random numbers. `SpinBarrier` and
`ThreadPool` are checked as they stand. Composition: `ThreadPool` takes `SpinBarrier` twice, `DOBFS` and
`BC` take `SlidingQueue`, `DOBFS` takes `Bitmap`, `CaladanBFS` takes `DOBFS` and `RunParallel`,
`MakeGraph` takes `Builder`, `GraphFile`, `Generator` and `TriangleCount`. `DOBFS` does not take
`ThreadPool` but what it implements: a region is `Fork` and `Joined`, the two ends of `ForkJoin`, so that
the search can be checked on either runtime. Operators named as a faulty variant in their comment
(`ReserveNothing`, `ClaimUnadvanced`, ...) are no part of a specification: each says how a plausible bug
would change the definition that follows it, and each property fails when the variant takes that
definition's place.

### How state and actions correspond to the code

**SpinBarrier.** `count`, `phase`: `count_`, `phase_`; `my_phase[t]`: the local; `bpc[t]`: where thread
t is in `wait()`. `Enter` is the load at line 148, `Arrive` the `add_fetch` and its test, `ResetCount`,
`FlipPhase`, `WakeAll` the branch of the last arriver, `Leave` and `GiveUpSpinning` the loop test with
and without the new phase, `FutexWait` the kernel's compare-and-sleep, `Interrupted` its early return.
The number of spins is abstracted: any load that sees the old phase may be the last.

**ThreadPool.** The barrier variables of `job_start_` and `job_end_`, the fields `shutdown_` and
`task_fn_`, `created` for the threads that exist, `fn` for what main passed to `Run`, `running[w]` for
the task a worker is in, `pc` for everybody. `Init()` is `CreateWorker`/`InitDone`; `Run`,
`MainEntersStart`, `MainEntersEnd`, `RunReturns` are `Run()`; `Shutdown`, the same two calls and
`JoinWorkers` are `Shutdown()`; `WorkerEntersStart`, `ReadShutdown`, `CallTask`, `WorkerEntersEnd`,
`WorkerEntersLastEnd`, `WorkerExits` are `WorkerMain`. `Unstartable` are workers whose
`pthread_create` fails; the code does not look.

**RunParallel, CaladanBFS.** `wg` is the wait group of the call, `thread` the life of every spawned
thread. `rt::Spawn` and `rt::WaitGroup` are Caladan's and modelled from their use. In `CaladanBFS` a
worker of a region takes the steps of `DOBFS` only while the thread that runs it is in the closure of that
region, worker 0 in the caller; the search moves on where a call has returned, and calls again if the
next region has a team.

**SlidingQueue, Bitmap.** `flush()` is two steps, `Reserve` (fetch-and-add) and `CopyOut` (copy and
`in = 0`); a slot nobody wrote holds `Garbage`. A bitmap is the set of its bits; `set_bit` is a read of
the word and a store of the word with the bit, `set_bit_atomic` a load and a compare-and-swap loop.

**DOBFS.** `pc` is the region main is in; `my[w]` holds a worker's locals; a region's actions carry its
initials (`TD`, `QB`, `BU`, `BQ`). `Start`, `GoBottomUp`, `GoTopDown`, `EndTopDown`, `EnterBottomUp`,
`NextBottomUp`, `LeaveBottomUp`, `EndBottomUp`, `GoCleanup`, `Finish` are main's steps between two
regions, with everything main assigns there. `parent` holds minus the out-degree of an unvisited vertex
(minus one for degree zero) as in the code. `depth` and `level` are auxiliary: no guard reads them.

**CC, CCSV.** `comp` is the shared array; one step per load, store or compare-and-swap of it. The final
assignment of `Compress` may use the value its test has read or read again: the code's plain accesses
allow the compiler both. `SampleFrequentElement` may return the label of any vertex, since random
samples can miss the most frequent one. In `CCSV` a static schedule is any function from vertices to
workers, a superset of OpenMP's.

**SSSP.** `local_bins[w]` is the vector of vectors of a thread, `shared_indexes` and `frontier_tails`
the two double buffers; one step per load and swap of `dist`, per fetch-and-add of the tail, per vote.
The reset inside `single nowait` can come at any point between the barriers, by the thread that comes
first. Distances that would be read as undefined after an overflow of the frontier are not modelled: a
thread that would copy past the end stops in `undefined`.

**BC.** One step per load and swap of `depths`, per atomic addition to `path_counts`, per reservation
and copy of the queue. The barrier, the `single` that slides the window and its implicit barrier are one
step (`NextLevel`): all threads are inside it. Scores are integers in units of `1 / kScale`; with
`kScale = 12` the fractions of the chosen graphs come out whole or are rounded down the same way as in
the serial computation. A lost or doubled update is told apart, floating-point rounding is not.

**PageRank.** One step per element of `outgoing_contrib` that is read, and one for the end of a vertex:
its score is read by nobody else, so the two stores of `pr.cc` are one step. In `pr_spmv.cc`
contributions are computed in a region of their own, which is part of `BeginIteration`. Scores are
integers in units of `1 / Unit`; `PageRankAssumption` says that `Unit` divides by everything the
iterations divide by, so that no rounding happens.

**Builder.** `MakeCSR` inserts with one step per fetch-and-add and per store; `MakeCSRInPlace` is one
step per cell it moves, in the order of its loops, in one array that is edge list first and neighbour
array later. New memory holds `Garbage`. `BinarySearch` is the algorithm of `std::lower_bound`, not
membership, because the lists it is called on are not sorted. A cell is a vertex or, in a weighted
program, a vertex and a weight, sorted by both and compared by the first, as `NodeWeight` does.

**GraphFile.** A text file is a sequence of comments and rows of numbers; a serialized file is the
sequence of the values written. Each reader is the function from lines to edges that its loop computes,
with the rules of its format: numbering from 1, empty rows, the header's `fmt`, symmetric matrices,
reading numbers across lines. Files are well formed.

**Generator.** A thread takes a block, seeds its own generator and fills the slots of the block, in one
step, since nobody else reads them. `Random` and `Shuffle` are the library's. `UniDist` has the code's
`cutoff` and rejection; R-MAT's thresholds are in parts of the largest random number.

**MakeGraph.** `stage` says where a list comes from and what is done with it: `ReadEdges`, `GenerateEL`,
`FillBlock`, `UseGenerated`, `UseWeights` and, once the list is complete, the steps of `Builder`.
`TriangleCount` and the writers are functions of the finished graph: their threads only read it. The
combinations of options in `MCMakeGraph` are those `ParseArgs` of the programs can give.

## 3. Runs

| run | instance | what it shows |
|---|---|---|
| `barrier` | 3 threads | no lost wake-up, the last arriver is alone, released threads leave; implements `Rendezvous` with its liveness |
| `pool` | 3 workers and main, 2 tasks | fields read in their region only, the shutdown is seen by all or none; implements `ForkJoin`; `Run` and `Shutdown` return |
| `pool_unstartable` | one of 2 workers cannot be created | **violation**: `Run` never returns |
| `dobfs` | 7 vertices, 2 workers, words, chunks and buffers of 2 | no vertex queued twice, exact counts and bitmaps, stale bits harmless, the verifier accepts; implements `LevelQueue` and `LevelBFS`; ends |
| `caladan` | 4 vertices, 3 workers, every call with its own threads | every region implements `ForkJoin`; the program ends with a tree the verifier accepts and no thread left |
| `cc` | 5 vertices, 2 workers, 2 rounds | labels descend and stay, rounds link, the verifier accepts, implements `Components`, ends |
| `cc_sv` | 4 vertices, 2 workers | an iteration without a hook means all edges are done, the verifier accepts, ends |
| `sssp` | 5 vertices, 2 workers, 2 bin widths | no tense edge forgotten, lower bins settled, implements `ShortestPaths` (whose end means shortest distances, as proved), ends |
| `sssp_overflow` | 7 vertices, 7 edges | **violation**: eight entries for seven slots |
| `bc` | 5 vertices, 2 workers, 2 iterations | counts exact when read, scores exact, ends |
| `make_graph` | lists of up to 3 edges on 3 vertices, edge sets on 4, five file formats, generated lists | the result is the graph of the list, each binary search is defined, the list is the serial one, triangles are counted exactly, files keep the graph |
| `pagerank` | graphs on 3 vertices, 3 workers, 3 iterations | an iteration is one sweep, converged scores verify |

Why the bounds are enough. *Barrier*: three threads are one last arriver, one that has left and is back,
and one that has not looked yet, all at once; the phase has one bit, so three episodes in flight would
show. *Pool*: a worker that is early, one that is late and one
between them, one task and another.
*DOBFS*: the sizes 1024, 64 and 16384 of chunk, word and buffer all become 2, which keeps the ratio
the code relies on (`ChunkAssumption`) while chunks, words, buffers and static ranges all end inside
these graphs: pushes find a buffer full or half full, flushes overlap, windows follow each other; the
shaped graphs have frontiers that grow, shrink and grow again, so that every switch of
direction and a second bottom-up phase occur, with vertices reached in two ways and out of reach; the
small ones are all directed graphs on three vertices in three different words. *Caladan*: three workers
are the inline one and two spawned ones that may begin, end and call `Done` in any order, one of them
not yet begun while another is finished; both directions of the search occur, with buffers of one.
*CC*: hubs hooked repeatedly, trees deeper than one, more neighbours than the rounds sample, directed
edges found only from their target. *SSSP*: an improved vertex, two threads racing for one vertex, an
edge of weight zero, next bins that differ between threads, a source without out-edges;
`kBinSizeThreshold = 2` makes fusion both happen and stop. *BC*: joining paths whose counts are carried on, three predecessors, an edge that skips
a level, a second iteration from another source, from the same one, and from one without out-edges.
*Make graph*: `block_size = 2` gives several blocks of a prefix sum and a last one that is not full,
`gen_block_size = 3` the same for a generated list of four; the lists have loops, duplicates, parallel
edges of two weights, missing and present inverses; `rng_max = 300` makes `UniDist` reject numbers, at
most `MaxRejects` in one draw; four vertices have up to four triangles with shared edges. *PageRank*:
three threads, so that one vertex reads a contribution that is old and one that is new; two programs and
three tolerances, by which a run stops early, later, or only after `MaxIters` iterations.

Every action of every module occurs in the passing runs.

### Fairness

A thread inside `wait()`, a worker of a region, a spawned thread of `RunParallel` and main are scheduled
(`WF` on the steps of each): the kernel, or Caladan's or OpenMP's runtime, runs every runnable thread.
There is no fairness on calling `wait()`, on `Run` or on `Shutdown`, which the program may never call, and
none on `Interrupted`. No strong fairness is used: `compare_and_swap` loops end because a failure means
that somebody else made progress. `MakeGraph` and `PageRank` state no liveness: their loops are bounded by
the size of a list or by `max_iters`.

### What the two violations say

- `pool_unstartable` (`bfs_pthread.cc:205`): `Init` ignores the result of `pthread_create` but sizes both
  barriers for the full team; with one worker missing the first `Run` waits for ever.
- `sssp_overflow` (`sssp.cc:141`): the shared frontier has one slot per edge. A vertex that is improved
  while its bin is worked on is relaxed twice and can put the heads of its heavy edges into a later bin
  twice; the unchecked copy then runs past the end. The trace is that of a graph with seven edges; a
  program built with the address sanitizer reports the write on the same graph.

Two smaller disagreements are not runs of their own. The comment on `parent` says that an unvisited
vertex holds the negative of its degree (`src/src/bfs.cc:30-38`), while `InitParent` stores -1 for a
vertex of degree zero, so that the sign can tell visited from unvisited; `scout_count` then counts 1 for
it. `RegionsReportExactly` states what the count is. And `ReadInMetis` ends its loops with `>> std::ws`
(`reader.h:127,133`): with a C++ library in which that fails at the end of a stream (g++ 12 is one) a row
that does not end in a blank loses its last neighbour. The graphs of `test/graphs` all end their rows in a
blank, and so do those of `GraphFile`.

## 4. Proofs

All by TLAPS, for every value of the constants, from the `ASSUME`s named in the modules (finite teams,
positive bounds, graphs on the vertices).

**SpinBarrierProofs.** `LastArriverAlone` and `NoLostWakeup` are not inductive. The invariant adds
`PhaseAgreement` (a thread between its arrival and the release has the phase of the episode; the one
about to wake the others has the one before) and `CountsArrivals` (the counter is exactly the number of
threads held in this episode, except between the two stores of the last arriver). The arriver that finds
`count_ = total_` then knows by cardinality that every other thread is held, so nobody touches the two
words while it resets and flips. From the invariant: `LastArriverIsAlone`, `NoWakeupIsLost`, and
`BarrierIsRendezvous`, the safety part of the refinement, in which `FlipPhase` is the release of all.

**ThreadPoolProofs.** The invariant conjoins the proved invariants of the two barriers, used through
`INSTANCE`, with `TeamInStep`: while a region is open every worker is on its way from the start barrier
to the end barrier, and otherwise nobody is. What the pool learns of a barrier is one lemma per call
(who is held before and after). From it follow the safety properties of the pool and, with them,
`PoolIsForkJoin`: any sequence of `Run` and `Shutdown` is a sequence of forks and joins.

**DOBFSProofs.** For `DOBFS` on any finite graph, with any team, any chunk, word and buffer size that
`DOBFSAssumption` and `ChunkAssumption` allow, and any alpha and beta: every property of the run `dobfs`
except its liveness. The argument is one induction over two invariants. `LevelsInv` is that of `LevelBFS`,
seen through the instance `BFS` with the tree this search builds: the tree goes level by level and no edge of
an expanded level was missed. Its proof uses the actions of `LevelBFS` only (`LevelsInvariant`), and so does
`LevelsAreCorrect`: an empty frontier means the certificate `BFSVerifier` looks for.
`SearchInv` is what the search itself needs: which
vertices are in the queue's window, behind it, in somebody's buffer or in somebody's hands, which bits
of `front` and `curr` are set, and what each worker has counted, region by region. Neither half is
inductive alone: that a bottom-up step finds a parent of the right level needs the bitmap to be the
frontier, and that the bitmap is the frontier needs every vertex of the level to have been claimed.
The arguments that carry it:

- a word of a bitmap lies in one chunk (`ChunkAssumption`), a chunk has one worker, so nobody else's
  bit is in a word between a plain `set_bit`'s read and its store;
- every claimed vertex is in exactly one place, so by the pigeonhole the `num_nodes` slots of the queue
  are enough, although `push_back` and `flush` never look (`QueueKeepsLevels`, with the reservations that
  are not yet copied, and `EveryVertexIsQueuedOnce`);
- a worker's sum is that of the vertices it has done, and main's are those of all workers
  (`MainTakesWhatWorkersDid`); a sum over a set is unfolded at one element once, as a lemma;
- a bit that is still set from an earlier bottom-up phase belongs to a vertex all of whose neighbours
  have been reached (`StaleBitsOfferNoParent`);
- the level search ends with depths that are distances (`VerifierAcceptsEveryTree`).

The last point and the sums speak of recursive functions, `Distance` among them. The induction
theorems of the library cannot be instantiated here, so these proofs argue by a smallest counterexample:
a finite non-empty set has a subset that is least under strict inclusion, and a set of numbers a least
element, because `FiniteSetTheorems` states, without an operator as parameter, that strict inclusion is
well-founded on finite sets. This is also how a recursive function is shown to exist.

**CaladanProofs.** For `RunParallel` with any number of workers: the wait group counts the spawned
threads that have not called `Done`, so a call that finds it at zero returns after every thread has run
the task (`RunParallelIsForkJoin`). For `CaladanBFS`, from `SearchAssumption`, which asks for what `DOBFS`
asks for: during a call its closure is the region the search is in and a finished thread has left its
worker done, and after a call all workers are done (`CallsFinishRegions`). Hence every step of the program
is a step of `DOBFS` or leaves the search alone, and what `DOBFSProofs` says holds of this program, cited
through an instance: no vertex is queued twice and the verifier accepts the tree. With `PoolIsForkJoin`
both runtimes are under the same search.

**CCProofs.** For `CC` on any finite graph, team, number of rounds and chunk size: every property of the
run `cc` except its liveness.

- `LabelsDescend` and `LabelsStayInComponent`. Their invariant has to speak of every label a thread holds
  in a local variable, however old: it is connected to the vertex it was read for (`Knows`). Connection is
  defined without paths, as not being separated by a cut of the graph, which makes it an equivalence by
  logic alone.
- `ImplementsComponents`. `Root` is shown to be the only function with its equation. A hook joins two
  trees, shortening leaves all trees as they are, so that two vertices in one tree (`Same`) stay in one.
- `RoundsLink` needs a second invariant, `Progress`: each edge that a region has to link is linked, is on a
  worker's list, belongs to a worker in `Link` whose two labels are in the trees of its ends (`Joins`), or
  has an end nobody has looked at yet (`Pending`).
- `ResultVerifies`. The final region skips the vertices in the tree of one label. An edge with both ends in
  that tree is linked already; any other edge is linked from the end that is not skipped, by `in_neigh` if
  the graph is directed and by symmetry if it is not. The verifier's search is complete by counting: as
  long as an edge leaves what was reached, a step reaches one more of the `num_nodes` vertices.

**CCSVProofs.** For `CCSV` on any finite graph, team and static schedule: `LabelsDescend`,
`LabelsStayInComponent`, `StoppingIsSound` and `ResultVerifies`, that is every property of the run `cc_sv`
except its liveness. A hook may overwrite another one, so trees are not only joined and nothing can be
said of an edge across iterations. What carries the proof is about one iteration (`EdgesOK`): the
compressing region leaves only labels that are roots, although others jump at the same time; from there
until the first hook no label changes, so a worker that finds two labels finds two roots, passes the test
and is sure to hook. Hence without a hook every edge has been seen with equal labels (`Seen`). The
verifier's search is complete by a lemma of `CCProofs`, cited through an instance.

**SSSPProofs.** For `SSSP` with any team, any graph with weights in the naturals, any bin width, chunk
size and fusion threshold that `SSSPAssumption` allows: every property of the run `sssp` except its
liveness. `NoTenseEdgeForgotten` is not inductive. The invariant adds

- `Together`, `RelaxPhase` and `CopyPhase`: between two barriers all threads agree on the iteration and so
  on the bin and on which half of the double buffers is read, whoever does the reset inside `single nowait`;
- `EdgeOK`: a distance a thread has read has not risen since, and the candidate it holds is below that and
  not below what the distance of the tail justifies now, although the tail may have been improved since;
- `WorksAbove`: what is worked on is in the current bin or above (an edge of weight zero puts its head into
  the current bin again, never into an earlier one), and no edge below the current bin is tense;
- `SlotsWritten`: as long as nobody has copied past the end, the slots of the frontier that are still to
  be taken have been written; the ranges that threads have reserved and not yet copied do not overlap.

`RelaxesShortestPaths` is the refinement: a swap succeeds only on the distance that was read, so it lowers a
distance to a candidate that its edge justifies. Of relaxation as such, on any weighted graph and with tails
out of date (`RelaxInv`): every potential (a function no edge contradicts) stays below the distances,
because the stored value is at least the tail's distance plus the weight; and when no edge is tense the
distances are themselves a potential, hence the greatest one, which is what shortest distances are
(`SearchIsCorrect`). `LowerBinsSettled` needs more: that what is below the
current bin has the distance of `num_nodes` serial rounds of relaxation. Those rounds reach the greatest
potential by counting: as long as there is a vertex on which they have not, a round brings one more vertex
to it, for otherwise the greatest potential could be raised. With it `FinalDistances`: at the end `dist`
is the distance, for every vertex.

**BCProofs.** For `BC` on any finite graph, with any team, chunk and buffer size and any number of
iterations from any sources (`BCAssumption`): every property of the run `bc` except its liveness. Two
invariants, one for each half of an iteration.

`SearchInv` is about `PBFS`. `PathsAreExact` says that a count is exact once its level is over and is silent
about the levels in between, so it is not inductive. The invariant adds

- `QueueOK`: the window is exactly the level that is being expanded, and what has been claimed for the next
  level is behind it, in somebody's buffer or about to be pushed, once (`OnePlaceEach`, `PushesOK`);
- `Claims` and `Hands`: the schedule hands each slot of the window to one thread, so a vertex of the level is
  waiting, in the hands of one thread, or behind it;
- `SuccOK`: an edge out of the level into the next is marked exactly if it is neither waiting nor held by the
  thread that has its tail. A thread that loses the swap still holds the edge: it marks it after reading the
  depth a second time;
- `CountsOK`: the count of a vertex of the next level is the sum over its marked in-edges, without those that
  are marked and not yet counted. When the level is over nobody holds an edge, and the sum is the serial one;
- `LevelsOK`: `depth_index` cuts the queue into the levels, from which the way back takes its loops, whatever
  an earlier iteration has left in the queue.

`ScoresInv` is about the way back. A vertex is settled (`Settled`) when it is deeper than the loop, or in it
and neither waiting nor in somebody's hands; a settled vertex has its dependency in `deltas` and the total of
this iteration in `scores`, any other has the total of the iterations before. The sum in a thread's register is
the one over the successors it has done, all of which are settled. That no addition is lost although none is
atomic is `Hands` again (`SumsHaveOneWriter`).

That `Depths`, `PathCounts` and `Dependencies` mean what the invariants need (a reached vertex has a neighbour
one level up, a vertex is reached exactly if it has a path, a dependency is the sum of the shares of the
successors) are inductions over recursive functions and folds, argued by smallest counterexamples as in
`DOBFSProofs`. Shares are integers scaled by `kScale` and rounded in the same way on both sides, so the theorem
says that the same terms are added, in whatever order; it says nothing of the rounding of floats.

### Only model-checked

- Liveness (`Terminates`, `ReleasedLeave`, `CallsComplete`, and the liveness half of
  `ImplementsRendezvous`): TLAPS proves nothing about fairness or `ENABLED`.
- `PageRank`: `IterationIsOneSweep` and `ConvergedVerifies`. The first needs the sum of contributions split at
  an element, as in `BCProofs`, and the order in which a sweep overwrites them; the second rests on exact
  divisions, hence on which powers divide the unit.
- `MakeGraph` with what it is composed of: `ResultIsGraph`, `SearchedListsArePartitioned`,
  `ListIsReproducible`, `CountIsExact` and `FilesKeepTheGraph`. What the recursive functions and folds of
  `Builder`, `GraphFile`, `Generator` and `TriangleCount` compute on every input are inductions over
  sequences, which the library's theorems cannot be instantiated for; a smallest counterexample for each of
  them would be a proof longer than the ones above, about operators and not about interleavings.

`NobodyWorksBetweenRegions` is proved and in no run: `ImplementsForkJoin` of the run `pool` says more. Nor are
`SumsHaveOneWriter` and `BCProofs`' `EveryVertexIsQueuedOnce`, which `bc` would show through its results.

## 5. What is not modelled, and why

- **Weak memory.** Every module interleaves atomic accesses. The plain accesses of the kernels are data
  races in C++; they are taken to be single loads and stores of a word, and the choice between using a
  value again and reading it again is modelled where it matters (`Compress`).
  The acquire/release orders of the barrier are what makes the interleaving view of the pool right; they
  are not checked here.
- **The order of adjacency lists and of chunks** is abstracted to any order where no property depends on
  it (a superset of the code's behaviours). Afforest's "first k neighbours" keeps the sorted order.
- **Floating point.** PageRank and betweenness are checked with exact fractions: races and stopping are
  what the models tell apart, rounding is not. A vertex without out-edges divides by zero in PageRank;
  the contribution is never read, since it has no out-neighbour.
- **Malformed input.** The exits of the readers, what a failed read leaves behind, and comments longer
  than the 200 characters that are skipped. Nothing in the repository says what should happen then.
- **`WorthRelabelling`**: it samples degrees to guess whether relabelling pays. Both outcomes are inputs
  of `make_graph`, and the count is exact on both.
- **The driver and the options**: trials, timers, printing, `TopK`, `getopt`. `SourcePicker` draws until it
  finds a vertex with out-edges, but takes a `-r` source as it is; the models search from every vertex,
  those without out-edges included. `SSSP` leaves out only the graph without any edge, whose source is
  already stored past the end of the frontier (`sssp.cc:96`).
- **Moves and frees** of `CSRGraph` and `pvector`: C++ ownership, no interleaving.
- **OpenMP** itself: its barriers open, `single` lets one thread in, dynamic schedules hand out disjoint
  chunks. `src/src/bfs.cc` has the regions of `DOBFS` and is covered as far as they are the same.
- **Scripts, plots, build files.** They start processes and draw files; the sampler that is given 50 ms
  to install its handler is not in the repository.

## 6. Plan

Done, in this order, the most important behaviour first: barrier, pool, queue and bitmap, BFS,
components, shortest paths, betweenness, builder, `RunParallel`; proofs of barrier, pool, level search,
Afforest's labels, relaxation; then the builder with weights, readers and writers, the generator, triangle
counting, PageRank, the Caladan program as a whole, and the queue's refinement inside the search that
uses it.

Left to model: nothing whose correctness depends on order or on interleaving. `dobfs` with three workers
takes TLC beyond minutes; three workers search in `caladan`, on smaller graphs.

Proved, in this order: barrier, pool, level search, Afforest's labels, relaxation; the queue inside the
search and the search itself (`LevelQueue`, `LevelBFS`); the Caladan fork-join and program; delta-stepping;
Afforest's rounds, result and refinement; Shiloach and Vishkin's program; both halves of betweenness
centrality.

What remains is in "Only model-checked". `IterationIsOneSweep` is the one that is about interleavings.
